---------------------------- MODULE PilotEvidence ----------------------------
(* The evidence of a pilot that was planned and not run                    *)
(* (evaluation/pilot.py), the command that plans one (cli_v1.py,           *)
(* pilot_dry_run_command) and the child that assembles, publishes and      *)
(* replays a readiness packet (evaluation/readiness_entrypoint.py).        *)
(*                                                                         *)
(* A task audit is a value: reserving it gives another value, consuming it *)
(* a third. A dry run is planned for a reserved task under the release     *)
(* that is active, in a session pinned to it, and put on file under the    *)
(* pilot's name. A packet is made of copies, each taken at any time while  *)
(* releases, sessions and files went on changing; it is staged, validated  *)
(* from its own files and renamed to the name its digest gives.            *)
(*                                                                         *)
(* A record stands for its digest: a session manifest is the release it is *)
(* pinned to and its number of messages, a plan its task and protocol, a   *)
(* run of a task its RunEvidence and its solve result.                     *)
EXTENDS Naturals, FiniteSets

CONSTANTS
  Pilot,         \* pilot ids
  Task,          \* public development tasks of the audit
  Release,       \* releases the pointer may name
  Protocol,      \* [Release -> protocols]
  Session,       \* session ids
  Planner,       \* pilot-dry-run commands
  Builder,       \* readiness children
  MaxMessages,   \* bound: messages of a session
  MaxPlans,      \* bound: dry runs that are begun
  MaxMoves,      \* bound: how often the pointer moves
  MaxAudits,     \* bound: audit values
  None

PilotAssumption ==
  {MaxMessages, MaxPlans, MaxMoves, MaxAudits} \subseteq Nat

VARIABLES
  pointer,    \* the active release
  sessions,   \* each session's manifest, or none
  runs,       \* what was solved: [task, release]
  audits,     \* the audit values there are
  active,     \* the releases that were active so far
  dry,        \* the dry run on file for each pilot, or none
  copies,     \* the dry runs that were on file so far
  planner,    \* what each planning command has in hand
  builder,    \* what each readiness child has in hand
  published,  \* packets under their final names
  told,       \* what the commands reported
  moves, plans,
  raced       \* history: pilots for whom two commands found no file at once

vars == <<pointer, sessions, runs, audits, active, dry, copies, planner, builder,
          published, told, moves, plans, raced>>

World == <<pointer, sessions, runs, audits, active, moves>>
Files == <<dry, copies>>
Commands == <<planner, builder, published, told, plans, raced>>

PlannerIdle == [at |-> "idle", bytes |-> None, dry |-> None]
BuilderIdle == [at |-> "idle", packet |-> None, whole |-> FALSE]

Init ==
  /\ pointer \in Release
  /\ sessions = [s \in Session |-> None]
  /\ runs = {} /\ audits = {} /\ active = {pointer}
  /\ dry = [p \in Pilot |-> None] /\ copies = {}
  /\ planner = [c \in Planner |-> PlannerIdle]
  /\ builder = [b \in Builder |-> BuilderIdle]
  /\ published = {}
  /\ told = [dry |-> {}, packets |-> {}]
  /\ moves = 0 /\ plans = 0 /\ raced = {}

------------------------------------------------------------------------------
(* reserve_audited_pilot_task and consume_reserved_pilot_task: the values  *)
(* they were made from stay what they are.                                 *)
Audits == [pilot : Pilot, task : Task, used : BOOLEAN]

Reserve(p, t) ==
  /\ Cardinality(audits) < MaxAudits
  /\ [pilot |-> p, task |-> t, used |-> FALSE] \notin audits
  /\ audits' = audits \union {[pilot |-> p, task |-> t, used |-> FALSE]}
  /\ UNCHANGED <<pointer, sessions, runs, active, moves, Files, Commands>>

Consume(a) ==
  /\ ~a.used /\ Cardinality(audits) < MaxAudits
  /\ [a EXCEPT !.used = TRUE] \notin audits
  /\ audits' = audits \union {[a EXCEPT !.used = TRUE]}
  /\ UNCHANGED <<pointer, sessions, runs, active, moves, Files, Commands>>

(* What goes on meanwhile: another release becomes active, a session is    *)
(* opened on the active release, a task is solved in it.                   *)
Activate(r) ==
  /\ r # pointer /\ moves < MaxMoves
  /\ pointer' = r /\ active' = active \union {r} /\ moves' = moves + 1
  /\ UNCHANGED <<sessions, runs, audits, Files, Commands>>

Open(s) ==
  /\ sessions[s] = None
  /\ sessions' = [sessions EXCEPT ![s] = [id |-> s, release |-> pointer, count |-> 0]]
  /\ UNCHANGED <<pointer, runs, audits, active, moves, Files, Commands>>

Pinned(s) == sessions[s] # None /\ sessions[s].release = pointer

Solve(s, t) ==
  /\ Pinned(s) /\ sessions[s].count < MaxMessages
  /\ sessions' = [sessions EXCEPT ![s].count = @ + 1]
  /\ runs' = runs \union {[task |-> t, release |-> pointer]}
  /\ UNCHANGED <<pointer, audits, active, moves, Files, Commands>>

------------------------------------------------------------------------------
(* The planning command. It keeps the pointer's bytes, then reads all it   *)
(* binds, the pointer a second time.                                       *)
PlanBegin(c) ==
  /\ planner[c].at = "idle" /\ plans < MaxPlans
  /\ planner' = [planner EXCEPT ![c] = [@ EXCEPT !.at = "bind", !.bytes = pointer]]
  /\ plans' = plans + 1
  /\ UNCHANGED <<World, Files, builder, published, told, raced>>

PlanRefused(c) ==
  /\ planner' = [planner EXCEPT ![c] = PlannerIdle]
  /\ UNCHANGED told

DryRun(a, s) ==
  [pilot |-> a.pilot, audit |-> a, task |-> a.task, release |-> pointer,
   session |-> sessions[s]]

MayBind(a, s) == ~a.used /\ Pinned(s)

PlanBind(c, a, s) ==
  /\ planner[c].at = "bind"
  /\ IF MayBind(a, s)
       THEN /\ planner' = [planner EXCEPT ![c].at = "look", ![c].dry = DryRun(a, s)]
            /\ UNCHANGED told
       ELSE PlanRefused(c)
  /\ UNCHANGED <<World, Files, builder, published, plans, raced>>

(* _write_json_immutable: a file that is there must say the same; one that *)
(* is not there is put in place by a rename, which asks no more.           *)
Looking(p) == {c \in Planner : planner[c].at = "put" /\ planner[c].dry.pilot = p}

PlanLook(c) ==
  LET p == planner[c].dry.pilot IN
  /\ planner[c].at = "look"
  /\ CASE dry[p] = None ->
            /\ planner' = [planner EXCEPT ![c].at = "put"]
            /\ raced' = IF Looking(p) = {} THEN raced ELSE raced \union {p}
            /\ UNCHANGED told
       [] dry[p] = planner[c].dry ->
            planner' = [planner EXCEPT ![c].at = "confirm"] /\ UNCHANGED <<told, raced>>
       [] OTHER -> PlanRefused(c) /\ UNCHANGED raced
  /\ UNCHANGED <<World, Files, builder, published, plans>>

PlanPut(c) ==
  LET d == planner[c].dry IN
  /\ planner[c].at = "put"
  /\ dry' = [dry EXCEPT ![d.pilot] = d] /\ copies' = copies \union {d}
  /\ planner' = [planner EXCEPT ![c].at = "confirm"]
  /\ UNCHANGED <<World, builder, published, told, plans, raced>>

(* The pointer's bytes are compared when the file is there already: a      *)
(* refusal leaves it there.                                                *)
PlanConfirm(c) ==
  /\ planner[c].at = "confirm"
  /\ IF planner[c].bytes = pointer
       THEN /\ planner' = [planner EXCEPT ![c] = PlannerIdle]
            /\ told' = [told EXCEPT !.dry = @ \union {planner[c].dry}]
       ELSE PlanRefused(c)
  /\ UNCHANGED <<World, Files, builder, published, plans, raced>>

------------------------------------------------------------------------------
(* What a packet may be made of: copies of anything there was. The not-run *)
(* report is about a dry run and an audit, the sessions are one that was   *)
(* continued and one that is new (RuntimeSessionIdentitySet), the release  *)
(* comes with the factory message that made it.                            *)
Manifests(s) ==
  IF sessions[s] = None THEN {}
  ELSE {[sessions[s] EXCEPT !.count = n] : n \in 0..sessions[s].count}

SessionSets ==
  {pair \in {{one, other} : one, other \in UNION {Manifests(s) : s \in Session}} :
     /\ Cardinality({m.id : m \in pair}) = 2 /\ Cardinality({m.release : m \in pair}) = 1
     /\ \E m \in pair : m.count > 0 /\ \A o \in pair \ {m} : o.count = 0}

Reports == [dry : copies, audit : audits]

Packets ==
  [dry : copies, report : Reports, audit : audits, sessions : SessionSets,
   release : active, run : runs]

(* The run's provenance names its task, its protocol and its plan.         *)
ProvenanceAgrees(pk) ==
  /\ pk.run.task = pk.dry.task
  /\ Protocol[pk.run.release] = Protocol[pk.dry.release]

(* The packet's own validator, then build_mvp_readiness_evidence_packet.   *)
PacketAgrees(pk) == \A m \in pk.sessions : m.release = pk.release

BuilderAgrees(pk) ==
  /\ ~pk.audit.used
  /\ pk.dry.release = pk.release /\ pk.dry.audit = pk.audit
  /\ pk.report.dry = pk.dry /\ pk.report.audit = pk.audit
  /\ ProvenanceAgrees(pk) /\ PacketAgrees(pk)

(* _validate_controlled_run_evidence: the run was of the pilot's task,     *)
(* under the pilot's release.                                              *)
RunAgrees(pk) ==
  pk.run.task = pk.dry.task /\ pk.run.release = pk.dry.release

(* _assert_pilot_against_packet_tree and what else is read back from the   *)
(* files: the pilot's session as it was when the pilot was planned.        *)
TreeAgrees(pk) ==
  /\ ~pk.audit.used /\ pk.dry.audit = pk.audit /\ pk.dry.task = pk.audit.task
  /\ pk.dry.release = pk.release
  /\ pk.report.dry = pk.dry /\ pk.report.audit = pk.audit
  /\ pk.dry.session \in pk.sessions

(* validate_mvp_readiness_evidence_packet: every file is what the index    *)
(* says, and all that is read back agrees.                                 *)
Validates(pk, whole) == whole /\ PacketAgrees(pk) /\ TreeAgrees(pk) /\ RunAgrees(pk)

Whole(pk) == [packet |-> pk, whole |-> TRUE] \in published
Altered(pk) == [packet |-> pk, whole |-> FALSE] \in published
Exists(pk) == Whole(pk) \/ Altered(pk)

BuilderRefused(b) ==
  /\ builder' = [builder EXCEPT ![b] = BuilderIdle]
  /\ UNCHANGED told

BuilderTells(b, pk) ==
  /\ builder' = [builder EXCEPT ![b] = BuilderIdle]
  /\ told' = [told EXCEPT !.packets = @ \union {pk}]

(* A packet that is already there is replayed and answered; another one is *)
(* begun in a directory of its own.                                        *)
Build(b, pk) ==
  /\ builder[b].at = "idle"
  /\ CASE ~BuilderAgrees(pk) -> BuilderRefused(b)
       [] BuilderAgrees(pk) /\ ~Exists(pk) ->
            /\ builder' = [builder EXCEPT ![b].at = "stage", ![b].packet = pk]
            /\ UNCHANGED told
       [] OTHER ->
            IF Validates(pk, Whole(pk)) THEN BuilderTells(b, pk) ELSE BuilderRefused(b)
  /\ UNCHANGED <<World, Files, planner, published, plans, raced>>

Stage(b) ==
  /\ builder[b].at = "stage"
  /\ builder' = [builder EXCEPT ![b].at = "validate", ![b].whole = TRUE]
  /\ UNCHANGED <<World, Files, planner, published, told, plans, raced>>

ValidateStage(b) ==
  /\ builder[b].at = "validate"
  /\ IF Validates(builder[b].packet, builder[b].whole)
       THEN builder' = [builder EXCEPT ![b].at = "rename"] /\ UNCHANGED told
       ELSE BuilderRefused(b)
  /\ UNCHANGED <<World, Files, planner, published, plans, raced>>

(* The rename fails when another child has made the packet meanwhile.      *)
Rename(b) ==
  LET pk == builder[b].packet IN
  /\ builder[b].at = "rename"
  /\ IF Exists(pk)
       THEN BuilderRefused(b) /\ UNCHANGED published
       ELSE /\ published' = published \union {[packet |-> pk, whole |-> builder[b].whole]}
            /\ BuilderTells(b, pk)
  /\ UNCHANGED <<World, Files, planner, plans, raced>>

(* A published packet's files are changed; a child ends at its deadline.   *)
Alter(pk) ==
  /\ Whole(pk)
  /\ published' = (published \ {[packet |-> pk, whole |-> TRUE]})
                    \union {[packet |-> pk, whole |-> FALSE]}
  /\ told' = [told EXCEPT !.packets = @ \ {pk}]
  /\ UNCHANGED <<World, Files, planner, builder, plans, raced>>

(* replay_mvp_readiness_evidence_packet.                                   *)
Replay(b, pk) ==
  /\ builder[b].at = "idle" /\ Validates(pk, Whole(pk))
  /\ told' = [told EXCEPT !.packets = @ \union {pk}]
  /\ UNCHANGED <<World, Files, planner, builder, published, plans, raced>>

Kill(b) ==
  /\ builder[b].at \in {"stage", "validate", "rename"}
  /\ BuilderRefused(b)
  /\ UNCHANGED <<World, Files, planner, published, plans, raced>>

Planning(c) ==
  \/ PlanBegin(c)
  \/ \E a \in audits, s \in Session : PlanBind(c, a, s)
  \/ PlanLook(c) \/ PlanPut(c) \/ PlanConfirm(c)

Publishing(b) ==
  \/ \E pk \in Packets : Build(b, pk)
  \/ Stage(b) \/ ValidateStage(b) \/ Rename(b) \/ Kill(b)
  \/ \E rec \in published : Replay(b, rec.packet)

Elsewhere ==
  \/ \E p \in Pilot, t \in Task : Reserve(p, t)
  \/ \E a \in audits : Consume(a)
  \/ \E r \in Release : Activate(r)
  \/ \E s \in Session : Open(s) \/ \E t \in Task : Solve(s, t)
  \/ \E rec \in published : Alter(rec.packet)

Next ==
  \/ Elsewhere
  \/ \E c \in Planner : Planning(c)
  \/ \E b \in Builder : Publishing(b)

Spec == Init /\ [][Next]_vars

------------------------------------------------------------------------------
(* The type of the state; a dry run is planned for a reserved task only,   *)
(* under a release that was active, in a session pinned to it.             *)
DryRuns ==
  [pilot : Pilot, audit : audits, task : Task, release : active,
   session : UNION {Manifests(s) : s \in Session}]

TypeOK ==
  /\ pointer \in active /\ active \subseteq Release
  /\ runs \subseteq [task : Task, release : active]
  /\ audits \subseteq Audits
  /\ copies \subseteq DryRuns
  /\ \A p \in Pilot : dry[p] \in copies \union {None}
  /\ \A b \in Builder : builder[b].packet \in Packets \union {None}
  /\ published \subseteq [packet : Packets, whole : BOOLEAN]
  /\ told.dry \subseteq copies /\ told.packets \subseteq Packets
  /\ raced \subseteq Pilot

(* Whatever moved while a packet was put together, the packet is of one    *)
(* pilot: the task was reserved for it, the run that stands for it was     *)
(* made under the release it was planned for, and both its sessions        *)
(* continue that release.                                                  *)
OfOnePilot(pk) ==
  /\ pk.audit = [pilot |-> pk.dry.pilot, task |-> pk.run.task, used |-> FALSE]
  /\ pk.report = [dry |-> pk.dry, audit |-> pk.audit]
  /\ {pk.run.release, pk.dry.release} \union {s.release : s \in pk.sessions} = {pk.release}

(* The session a pilot was planned in has not gone on since.               *)
SessionAsPlanned(pk) == \E s \in pk.sessions : s = pk.dry.session

(* What a command reported stays on file: a packet unless its files are    *)
(* changed, a dry run unless two commands found its pilot without one.     *)
ReportsStand ==
  /\ \A pk \in told.packets : Whole(pk)
  /\ \A d \in told.dry : d.pilot \in raced \/ dry[d.pilot] = d

(* A pilot has one dry run, so two packets of it hold the same.            *)
OneDryRun ==
  \A one, other \in published :
    one.packet.dry.pilot = other.packet.dry.pilot =>
      one.packet.dry = other.packet.dry \/ one.packet.dry.pilot \in raced

(* Packets put together while releases, sessions and files change are each *)
(* of one pilot, and what was reported of them stays true.                 *)
PacketsAreSound ==
  /\ \A rec \in published : OfOnePilot(rec.packet) /\ SessionAsPlanned(rec.packet)
  /\ ReportsStand /\ OneDryRun
==============================================================================
