--------------------------- MODULE RuntimeFactory ---------------------------
(***************************************************************************)
(* The runtime factory: a conversation that builds one runtime in a project *)
(* directory and rebuilds it in place at every follow-up (factory/followups *)
(* and pipeline), the chat kept inside that directory, and the solve        *)
(* sessions kept beside it.  Nothing is locked: calls of several processes  *)
(* meet in the directory, and a call may be killed between any two steps.   *)
(*                                                                         *)
(* A runtime is the number of the build that made it, 0 for the template;  *)
(* what a build evolves is data, except where its seed comes from, which   *)
(* candidates it scored and what it validated.                             *)
(***************************************************************************)
EXTENDS Integers, FiniteSets

CONSTANTS
  Clients,    \* processes that may call apply_factory_message
  MaxCalls,   \* calls over a behaviour
  MaxFails,   \* copies into the project that fail
  MaxKills,   \* calls killed
  MaxSolves   \* messages of the solve session

VARIABLES
  kind,     \* the runtime kind asked for: "policy_modules" or a spec-backed one
  project,  \* the project directory
  aside,    \* per client, what its replacement has moved out of the project
  job,      \* per client, the call it is in
  left,     \* the messages in directories that killed calls left beside the project
  calls,    \* calls so far: they number messages, chats and the runtimes they build
  solver,   \* the message of the solve session under way: its index, or NoIndex
  filed,    \* history: messages reported as recorded
  solved,   \* history: session messages reported as recorded
  fails, kills,
  raced,    \* history: two calls, or a call and a new session, overlapped
  clash     \* history: a call looked at or changed the project while another changed it

vars == <<kind, project, aside, job, left, calls, solver, filed, solved, fails, kills,
          raced, clash>>

NoIndex == -1
Torn == -1           \* a directory that is not a whole runtime
NoChat == [id |-> 0, prof |-> "none"]
NoSession == [pin |-> Torn, count |-> 0]
NoTree == [rt |-> Torn, prof |-> "none", chat |-> NoChat, log |-> {}, session |-> NoSession,
           there |-> FALSE]

Profiles == {"hosted", "local"}
Issues == {"backend", "filesystem", "network", "verifier"}
Candidates == {"seed", "child"}
Scores == [Candidates -> [goal : 1 .. 2, valid : -1 .. 1]]

NoMessage == [index |-> NoIndex, id |-> 0, chat |-> 0, parent |-> 0, rt |-> Torn,
              from |-> Torn, prof |-> "none"]
Idle == [at |-> "idle", id |-> 0, chat |-> NoChat, prior |-> 0, index |-> NoIndex,
         prof |-> "none", from |-> Torn, rt |-> Torn]

FactoryAssumption ==
  /\ Clients # {} /\ {MaxCalls, MaxFails, MaxKills, MaxSolves} \subseteq Nat

Init ==
  /\ kind \in {"policy_modules", "langgraph_spec"}
  /\ project = NoTree /\ aside = [c \in Clients |-> NoTree] /\ job = [c \in Clients |-> Idle]
  /\ left = {} /\ calls = 0 /\ solver = NoIndex /\ filed = {} /\ solved = 0
  /\ fails = 0 /\ kills = 0 /\ raced = FALSE /\ clash = FALSE

------------------------------------------------------------------------------
(* Calls and where they are. *)
Followup(j) == j.chat # NoChat
Changing == {"copy", "back", "export", "create", "commit", "record", "manifest"}
Active == {c \in Clients : job[c].at # "idle"}
Changers == {c \in Clients : job[c].at \in Changing}

To(c, j) == job' = [job EXCEPT ![c] = j]
Refuse(c) == To(c, Idle)
Latest(log) ==
  IF log = {} THEN NoMessage
  ELSE CHOOSE m \in log : \A n \in log : n.index < m.index \/ (n.index = m.index /\ n.id <= m.id)

quiet == UNCHANGED <<kind, left, calls, solver, filed, solved, fails, kills>>

(* has_chat, then load_chat, the profile of the project and the pins; a    *)
(* call without a chat starts one, with the profile it is given.           *)
Open(c, prof) ==
  /\ job[c].at = "idle" /\ calls < MaxCalls
  /\ calls' = calls + 1
  /\ raced' = (raced \/ Active # {})
  /\ clash' = (clash \/ Changers \ {c} # {})
  /\ IF project.chat = NoChat
     THEN To(c, [Idle EXCEPT !.at = "plan", !.id = calls + 1, !.prof = prof, !.index = 0])
     ELSE IF project.prof = project.chat.prof
     THEN To(c, [Idle EXCEPT !.at = "pin", !.id = calls + 1, !.chat = project.chat,
                             !.prof = project.prof])
     ELSE Refuse(c)
  /\ UNCHANGED <<kind, project, aside, left, solver, filed, solved, fails, kills>>

(* The follow-up continues the newest message on file, and only while the  *)
(* project's runtime is the one that message names.                        *)
(* A faulty variant of Pinned: the runtime of the project is not compared. *)
PinnedUnseen(tree, prior) == tree.there

Pinned(tree, prior) == tree.there /\ tree.rt # Torn /\ tree.rt = prior.rt

Pin(c) ==
  /\ job[c].at = "pin"
  /\ LET prior == Latest(project.log) IN
       IF prior # NoMessage /\ Pinned(project, prior)
       THEN To(c, [job[c] EXCEPT !.at = "plan", !.prior = prior.id, !.index = prior.index + 1])
       ELSE Refuse(c)
  /\ clash' = (clash \/ Changers \ {c} # {})
  /\ quiet /\ UNCHANGED <<project, aside, raced>>

------------------------------------------------------------------------------
(* The pipeline.  A plan with issues is repaired and checked again; an     *)
(* issue no repair touches stops the build.                                *)
Repairable(issues, backend) ==
  issues \cap ({"verifier", "network"} \cup IF backend THEN {"backend"} ELSE {})

Blocking(issues, backend) == issues \ Repairable(issues, backend)

(* A plan may not both forbid the network and ask for a hosted provider:   *)
(* the repair makes the provider local, in profile, contract and plan.     *)
PlannedProfile(prof, issues) == IF "network" \in issues THEN "local" ELSE prof

(* A follow-up's seed is what stands in the project now; a spec-backed     *)
(* kind compiles its seed from the goal, and a project that is not there   *)
(* at this moment leaves the template.                                     *)
SeedOf(tree, j) ==
  IF kind = "policy_modules" /\ Followup(j) /\ tree.there THEN tree.rt ELSE 0

Plan(c, issues, backend) ==
  /\ job[c].at = "plan"
  /\ "network" \in issues => job[c].prof = "hosted"
  /\ IF Blocking(issues, backend) # {} \/ SeedOf(project, job[c]) = Torn THEN Refuse(c)
     ELSE To(c, [job[c] EXCEPT !.at = "evolve", !.from = SeedOf(project, job[c]),
                               !.prof = PlannedProfile(@, issues)])
  /\ quiet /\ UNCHANGED <<project, aside, raced, clash>>

(* Groups of equal goal score are validated from the best one down until   *)
(* one has a candidate that passes; -1 is a validation that raised.        *)
Passes(score) == IF kind = "policy_modules" THEN score.valid >= 0 ELSE score.valid > 0

Winning(s) ==
  LET goals == {s[c].goal : c \in {d \in Candidates : Passes(s[d])}}
  IN IF goals = {} THEN 0 ELSE CHOOSE g \in goals : \A h \in goals : h <= g

(* A faulty variant of Eligible: the best goal score leads, validated or   *)
(* not.                                                                    *)
EligibleByScore(s) == {c \in Candidates : \A d \in Candidates : s[d].goal <= s[c].goal}

Eligible(s) == {c \in Candidates : s[c].goal = Winning(s) /\ Passes(s[c])}

Leaders(s) == {c \in Eligible(s) : \A d \in Eligible(s) : s[d].valid <= s[c].valid}

(* A follow-up is exported into a staging directory of its own, validated  *)
(* there, and refused if its profile is no longer the one the chat is      *)
(* pinned to; the first build goes straight to the project.                *)
(* A faulty variant of Staged: the profile is compared only after the      *)
(* project has been replaced.                                              *)
StagedLate(j, valid) == Followup(j) => valid

Staged(j, valid) == Followup(j) => valid /\ j.prof = j.chat.prof

Evolve(c, scores, valid) ==
  /\ job[c].at = "evolve"
  /\ IF Leaders(scores) = {} \/ ~Staged(job[c], valid) THEN Refuse(c)
     ELSE \E l \in Leaders(scores) :
            To(c, [job[c] EXCEPT !.at = "aside",
                     !.rt = IF l = "seed" THEN job[c].from ELSE job[c].id])
  /\ quiet /\ UNCHANGED <<project, aside, raced, clash>>

------------------------------------------------------------------------------
(* _replace_runtime_destination: everything out, the new runtime in, what  *)
(* it lacks and the chat and sessions back.  If the copy fails, what was   *)
(* moved out is deleted with the directory it was moved to.                *)
MoveAside(c) ==
  /\ job[c].at = "aside"
  /\ aside' = [aside EXCEPT ![c] = project] /\ project' = NoTree
  /\ To(c, [job[c] EXCEPT !.at = "copy"])
  /\ clash' = (clash \/ Changers \ {c} # {})
  /\ quiet /\ UNCHANGED raced

CopyIn(c) ==
  /\ job[c].at = "copy"
  /\ project' = [NoTree EXCEPT !.there = TRUE, !.rt = job[c].rt, !.prof = job[c].prof]
  /\ To(c, [job[c] EXCEPT !.at = "back"])
  /\ quiet /\ UNCHANGED <<aside, raced, clash>>

CopyFails(c) ==
  /\ job[c].at = "copy" /\ fails < MaxFails
  /\ fails' = fails + 1
  /\ project' = [NoTree EXCEPT !.there = TRUE]
  /\ aside' = [aside EXCEPT ![c] = NoTree]
  /\ Refuse(c)
  /\ UNCHANGED <<kind, left, calls, solver, filed, solved, kills, raced, clash>>

(* A faulty variant of Restored: only what the new runtime lacks of the    *)
(* chat comes back, the sessions stay behind.                              *)
RestoredChat(tree, old) == [tree EXCEPT !.chat = old.chat, !.log = old.log]

(* Another one: a fresh chat directory for every runtime.                  *)
RestoredSession(tree, old) == [tree EXCEPT !.session = old.session]

Restored(tree, old) ==
  [tree EXCEPT !.chat = old.chat, !.log = old.log, !.session = old.session]

MoveBack(c) ==
  /\ job[c].at = "back"
  /\ project' = Restored(project, aside[c])
  /\ To(c, [job[c] EXCEPT !.at = IF Followup(job[c]) THEN "commit" ELSE "export"])
  /\ aside' = [aside EXCEPT ![c] = NoTree]
  /\ quiet /\ UNCHANGED <<raced, clash>>

------------------------------------------------------------------------------
(* The first build ends in the project itself: the profile is written, the *)
(* runtime loaded and validated there, and a chat is made for it.          *)
Export(c, valid) ==
  /\ job[c].at = "export"
  /\ project' = [project EXCEPT !.there = TRUE, !.prof = job[c].prof]
  /\ IF valid /\ project.rt # Torn
     THEN To(c, [job[c] EXCEPT !.at = "create", !.rt = project.rt])
     ELSE Refuse(c)
  /\ quiet /\ UNCHANGED <<aside, raced, clash>>

Create(c) ==
  /\ job[c].at = "create"
  /\ IF project.chat # NoChat \/ project.prof = "none" THEN Refuse(c) /\ UNCHANGED project
     ELSE LET chat == [id |-> job[c].id, prof |-> project.prof] IN
       /\ project' = [project EXCEPT !.chat = chat, !.there = TRUE]
       /\ To(c, [job[c] EXCEPT !.at = "record", !.chat = chat, !.prof = project.prof])
  /\ clash' = (clash \/ Changers \ {c} # {})
  /\ quiet /\ UNCHANGED <<aside, raced>>

(* The follow-up looks at the project once more before it is recorded.     *)
Commit(c) ==
  /\ job[c].at = "commit"
  /\ IF project.prof = job[c].chat.prof /\ project.rt = job[c].rt
     THEN To(c, [job[c] EXCEPT !.at = "record"])
     ELSE Refuse(c)
  /\ clash' = (clash \/ Changers \ {c} # {})
  /\ quiet /\ UNCHANGED <<project, aside, raced>>

Message(j) ==
  [index |-> j.index, id |-> j.id, chat |-> j.chat.id, parent |-> j.prior, rt |-> j.rt,
   from |-> j.from, prof |-> j.prof]

(* A faulty variant of Accepts: the index the call counted on is taken.    *)
AcceptsAnyIndex(tree, j) == tree.chat.id = j.chat.id

Accepts(tree, j) == tree.chat.id = j.chat.id /\ j.index = Latest(tree.log).index + 1

Record(c) ==
  /\ job[c].at = "record"
  /\ IF Accepts(project, job[c])
     THEN /\ project' = [project EXCEPT !.log = @ \cup {Message(job[c])}]
          /\ To(c, [job[c] EXCEPT !.at = "manifest", !.chat = project.chat])
     ELSE Refuse(c) /\ UNCHANGED project
  /\ clash' = (clash \/ Changers \ {c} # {})
  /\ quiet /\ UNCHANGED <<aside, raced>>

(* The manifest is written from the identity read before the message.      *)
Manifest(c) ==
  /\ job[c].at = "manifest"
  /\ project' = [project EXCEPT !.chat = job[c].chat, !.there = TRUE]
  /\ filed' = filed \cup {Message(job[c])}
  /\ Refuse(c)
  /\ UNCHANGED <<kind, aside, left, calls, solver, solved, fails, kills, raced, clash>>

Kill(c) ==
  /\ c \in Active /\ kills < MaxKills
  /\ kills' = kills + 1 /\ Refuse(c)
  /\ left' = left \cup aside[c].log /\ aside' = [aside EXCEPT ![c] = NoTree]
  /\ UNCHANGED <<kind, project, calls, solver, filed, solved, fails, raced, clash>>

------------------------------------------------------------------------------
(* The solve session of the project's runtime.  It is pinned to a runtime  *)
(* hash; a message is appended behind the newest one.                      *)
CreateSession ==
  /\ project.there /\ project.rt # Torn /\ project.session = NoSession
  /\ project' = [project EXCEPT !.session = [pin |-> project.rt, count |-> 0]]
  /\ raced' = (raced \/ Active # {}) /\ clash' = (clash \/ Changers # {})
  /\ quiet /\ UNCHANGED <<aside, job>>

(* load_session and seed_for_next_message: a session goes on only against  *)
(* the runtime it was made for.                                            *)
Solve ==
  /\ solver = NoIndex /\ solved < MaxSolves
  /\ project.session # NoSession /\ project.session.pin = project.rt
  /\ solver' = project.session.count
  /\ UNCHANGED <<kind, project, aside, job, left, calls, filed, solved, fails, kills, raced, clash>>

Answer ==
  /\ solver # NoIndex
  /\ IF project.session # NoSession /\ project.session.count = solver
     THEN /\ project' = [project EXCEPT !.session.count = @ + 1]
          /\ solved' = solved + 1
     ELSE UNCHANGED <<project, solved>>
  /\ solver' = NoIndex
  /\ UNCHANGED <<kind, aside, job, left, calls, filed, fails, kills, raced, clash>>

Step(c) ==
  \/ \E prof \in Profiles : Open(c, prof)
  \/ Pin(c) \/ MoveAside(c) \/ CopyIn(c) \/ CopyFails(c) \/ MoveBack(c)
  \/ Create(c) \/ Commit(c) \/ Record(c) \/ Manifest(c) \/ Kill(c)
  \/ job[c].at = "plan" /\ \E issues \in SUBSET Issues, b \in BOOLEAN : Plan(c, issues, b)
  \/ job[c].at = "evolve" /\ \E s \in Scores, valid \in BOOLEAN : Evolve(c, s, valid)
  \/ \E valid \in BOOLEAN : Export(c, valid)

(* After a clash nothing is promised any more: a behaviour ends with it.   *)
Next == ~clash /\ ((\E c \in Clients : Step(c)) \/ CreateSession \/ Solve \/ Answer)

Spec == Init /\ [][Next]_vars

------------------------------------------------------------------------------
TypeOK ==
  /\ project.rt \in Torn .. MaxCalls /\ project.prof \in Profiles \cup {"none"}
  /\ \A c \in Clients : job[c].index \in NoIndex .. MaxCalls /\ aside[c].rt \in Torn .. MaxCalls
  /\ solver \in NoIndex .. MaxSolves

(* What an evolution exports was validated, and whatever scored higher on  *)
(* the goal, or as high with a better validation, failed its validation.   *)
LeadersAreValidated ==
  calls = 0 => \A s \in Scores : \A l \in Leaders(s) :
    /\ Passes(s[l])
    /\ \A d \in Candidates :
         (s[d].goal > s[l].goal \/ (s[d].goal = s[l].goal /\ s[d].valid > s[l].valid))
           => ~Passes(s[d])

(* Every message of the chat carries the profile the chat was started      *)
(* with, whatever the plan of a follow-up was repaired to.                 *)
MessagesKeepThePin ==
  ~clash => \A m \in project.log : m.prof = project.chat.prof /\ m.chat = project.chat.id

(* Builds may overlap: as long as no call looks at the project while       *)
(* another one changes it, the messages are one chain, and those reported  *)
(* are in it or, after a kill, in the directory left beside the project;   *)
(* only a copy that failed can have erased them.                           *)
ChatIsOneChain ==
  ~clash =>
    LET stores == {project} \cup {aside[c] : c \in Clients}
        messages == left \cup UNION {t.log : t \in stores}
    IN /\ fails = 0 => filed \subseteq messages
       /\ \A t \in stores : \A m, n \in t.log :
            /\ m.index = n.index => m = n
            /\ m.index = n.index + 1 => m.parent = n.id

(* Without overlap, a follow-up evolves from the runtime of the message it *)
(* continues.                                                              *)
FollowupsEvolve ==
  (~raced /\ kind = "policy_modules") =>
    \A m, n \in project.log : m.parent = n.id => m.from = n.rt

(* Between calls that did not overlap and were not cut short, the project  *)
(* holds the runtime and the profile its newest message names, and every   *)
(* message of its solve session.                                           *)
ProjectIsNamed ==
  (~raced /\ fails = 0 /\ kills = 0 /\ Active = {}) =>
    /\ project.chat # NoChat =>
         Latest(project.log).rt = project.rt /\ project.chat.prof = project.prof
    /\ project.session.count >= solved

FactoryIsFaithful ==
  TypeOK /\ LeadersAreValidated /\ MessagesKeepThePin /\ ChatIsOneChain /\ FollowupsEvolve
  /\ ProjectIsNamed
=============================================================================
