----------------------------- MODULE MCBoundary -----------------------------
(* What a run spends and whom it asks, checked side by side: a behaviour   *)
(* is one of the module that "which" names, in the instance it stands for, *)
(* and the others stay in an initial state.                                *)
(*   ledger           BudgetLedger: one token meter, every ceiling within  *)
(*                    reach of two or three reservations, provider reports *)
(*                    below, at and above the request                      *)
(*   adapters         ProviderAdapters: two concurrent calls, live under   *)
(*                    every price schedule up to 1, or against a replay    *)
(*                    that two recorders race to write                     *)
(*   checks, tools    CommandReplay: an evaluation of a patch and two      *)
(*                    checks; a runtime that edits around two commands     *)
(*   study, studies   LiveStudies: one run of four calls; two runs of two  *)
(*                    calls with one evidence root                         *)
(*   index            StateIndex: a publishing thread and a filing one, two  *)
(*                    checkpoints, a failure, a kill                       *)
(*   evolution, longer  EvolutionSearch: two steps over two objectives, or *)
(*                    three over one, a patch that applies and one that    *)
(*                    does not, two batches and two axes, a validation     *)
(*                    every second step; policy modules with the default   *)
(*                    artifact mode, specs with another each               *)
EXTENDS BudgetLedger, TLC

CONSTANTS c1, c2, q1, q2, q3, w1, w2, p1, p2, r1, r2, NoRows, NoId, t1, t2

VARIABLES which,
  adapter, call, sentCount, failedAfterSend, received, rates, rows, finalized, file,
  manifest, cursor, consumed, answers,
  client, input, edits, run, pc, tree, before, container, own, overflow, late, status,
  results, verdict, recorder, afters, tape, reel, physical, virtual,
  study, arms, phase, filed, report, proof, reply, root, asked,
  disk, index, dirty, todo, scan, held, memory, number, fresh, fails, kills, unsure,
  style, backing, scale, left, turn, at, cand, scored, decision, cells, dirs, won, ledger,
  again

MCLimit ==
  [m \in Meters |-> CASE m = "model_calls" -> 2
                      [] m = "retries" -> 1
                      [] m = "tool_calls" -> 1
                      [] m = "known_cost_usd" -> 1
                      [] OTHER -> 2]

Need(calls, retry, tokens, usd, tools, bytes) ==
  [m \in CountMeters \cup {"estimated_cost_usd"} |->
     CASE m = "model_calls" -> calls
       [] m = "retries" -> retry
       [] m = "tool_calls" -> tools
       [] m = "tool_output_bytes" -> bytes
       [] m = "estimated_cost_usd" -> usd
       [] OTHER -> tokens]

MCRequests ==
  {[kind |-> "provider", status |-> s, need |-> Need(1, retry, 1, 1, 0, 0)] :
     s \in {"known", "estimated"}, retry \in {0, 1}}
  \cup {[kind |-> "tool", status |-> "none", need |-> Need(0, 0, 0, 0, 1, b)] :
     b \in {0, 2}}

MCReports ==
  {[usage |-> "known", cost |-> c, usd |-> 1, tokens |-> [m \in TokenMeters |-> n]] :
     c \in {"known", "estimated"}, n \in {1, 2}}
  \cup {[usage |-> "known", cost |-> "known", usd |-> 2,
         tokens |-> [m \in TokenMeters |-> 0]],
        UnknownReport}

------------------------------------------------------------------------------
Bound == [q \in {q1, q2, q3} |-> IF q = q3 THEN "other" ELSE "own"]

Adapters == INSTANCE ProviderAdapters WITH Calls <- {c1, c2},
  Requests <- {q1, q2, q3}, BindingOf <- Bound, Responses <- {p1, p2},
  Recorders <- {w1, w2}, MaxTokens <- 1, MaxRate <- 1

Checks == INSTANCE CommandReplay WITH N <- 3, Clients <- {"runner"},
  Inputs <- {p1, p2}, Codes <- {0, 1}, rows <- tape, cursor <- reel
Tools == INSTANCE CommandReplay WITH N <- 2, Clients <- {"runtime"},
  Inputs <- {p1}, Codes <- {0, 1}, rows <- tape, cursor <- reel

Study == INSTANCE LiveStudies WITH Runners <- {r1}, Length <- 4, Ids <- 1 .. 4,
  MaxSent <- 2
Studies == INSTANCE LiveStudies WITH Runners <- {r1, r2}, Length <- 2, Ids <- 1 .. 2,
  MaxSent <- 0

Index == INSTANCE StateIndex WITH Threads <- {t1, t2}, MaxSeq <- 2, MaxWrites <- 3,
  MaxFails <- 1, MaxKills <- 1

Scopes == [local |-> {"top"}, pair |-> {"top+mem"}, joint |-> {"all"}]
Budgets == [local |-> 2, pair |-> 1, joint |-> 1]
Evolution == INSTANCE EvolutionSearch WITH Objectives <- {"task", "global"},
  Patches <- {"p", "q"}, Broken <- {"q"}, PhaseScopes <- Scopes,
  PhaseBudget <- Budgets, Axes <- {"x", "y"}, Batches <- 2, MaxSteps <- 2, Period <- 2,
  mode <- style, phase <- scale, step <- turn, pc <- at, batch <- scored, rows <- won
Longer == INSTANCE EvolutionSearch WITH Objectives <- {"task"},
  Patches <- {"p", "q"}, Broken <- {"q"}, PhaseScopes <- Scopes,
  PhaseBudget <- Budgets, Axes <- {"x", "y"}, Batches <- 2, MaxSteps <- 3, Period <- 2,
  mode <- style, phase <- scale, step <- turn, pc <- at, batch <- scored, rows <- won

ASSUME /\ Evolution!SearchAssumption /\ Longer!SearchAssumption
       /\ Index!IndexAssumption
       /\ Adapters!AdapterAssumption
       /\ Study!StudyAssumption /\ Studies!StudyAssumption
       /\ Checks!CommandAssumption /\ Tools!CommandAssumption

adapters == <<adapter, call, sentCount, failedAfterSend, received, rates, rows,
              finalized, file, manifest, cursor, consumed, answers>>
commands == <<client, input, edits, run, pc, tree, before, container, own, overflow,
              late, status, results, verdict, recorder, afters, tape, reel, physical,
              virtual>>
studies == <<study, arms, phase, filed, report, proof, reply, root, asked>>
indexing == <<disk, index, dirty, todo, scan, held, memory, number, fresh, fails, kills,
              unsure>>
evolution == <<style, backing, scale, left, turn, at, cand, scored, decision, cells, dirs,
               won, ledger, again>>
all == <<which, ledgerVars, adapters, commands, studies, indexing, evolution>>

MCInit ==
  /\ which \in {"ledger", "adapters", "checks", "tools", "study", "studies", "index",
              "evolution", "longer"}
  /\ LedgerInit /\ Index!Init
  /\ Adapters!Init
  /\ which # "adapters" => adapter = "replay"
  /\ IF which = "tools" THEN Tools!Init ELSE Checks!Init
  /\ which \notin {"checks", "tools"} => input["live"] = p1 /\ afters
  /\ IF which = "study" THEN Study!Init ELSE Studies!Init
  /\ which \notin {"study", "studies"} => study = "d0"
  /\ which = "studies" => arms[1] # "exact" /\ (study = "gate0" => arms[1] = "neutral")
  /\ IF which = "longer" THEN Longer!Init ELSE Evolution!Init
  /\ <<backing, style>> \in IF which \in {"evolution", "longer"}
                            THEN {<<"modules", "none">>, <<"oracle", "on_failure">>,
                                  <<"spec", "always">>}
                            ELSE {<<"spec", "none">>}

RunLedger == which = "ledger" /\ LedgerNext /\ UNCHANGED <<which, adapters, commands, studies, indexing, evolution>>

RunAdapters ==
  which = "adapters" /\ Adapters!Next /\ UNCHANGED <<which, ledgerVars, commands, studies, indexing, evolution>>

RunCommands ==
  /\ \/ which = "checks" /\ Checks!Next
     \/ which = "tools" /\ Tools!Next
  /\ UNCHANGED <<which, ledgerVars, adapters, studies, indexing, evolution>>

RunStudies ==
  /\ \/ which = "study" /\ Study!Next
     \/ which = "studies" /\ Studies!Next
  /\ UNCHANGED <<which, ledgerVars, adapters, commands, indexing, evolution>>

RunIndex ==
  which = "index" /\ Index!Next /\ UNCHANGED <<which, ledgerVars, adapters, commands, studies, evolution>>

RunEvolution ==
  /\ \/ which = "evolution" /\ Evolution!Next
     \/ which = "longer" /\ Longer!Next
  /\ UNCHANGED <<which, ledgerVars, adapters, commands, studies, indexing>>

MCNext ==
  RunLedger \/ RunAdapters \/ RunCommands \/ RunStudies \/ RunIndex \/ RunEvolution

MCSpec == MCInit /\ [][MCNext]_all

(* Calls, runs of a study and threads are alike.                           *)
Alike == Permutations({c1, c2}) \cup Permutations({r1, r2}) \cup Permutations({t1, t2})

------------------------------------------------------------------------------
(* The type invariant of the module that runs, beside the ledger's own.    *)
AllTypesOK ==
  /\ LedgerTypeOK
  /\ CASE which = "adapters" -> Adapters!TypeOK
       [] which = "checks" -> Checks!TypeOK
       [] which = "tools" -> Tools!TypeOK
       [] which = "study" -> Study!TypeOK
       [] which = "studies" -> Studies!TypeOK
       [] which = "evolution" -> Evolution!TypeOK
       [] which = "longer" -> Longer!TypeOK
       [] OTHER -> TRUE

(* The properties of the other modules, about the behaviours of the        *)
(* instances that are named: of calls to providers and of their recording, *)
AdaptersAreTruthful ==
  which = "adapters" => Adapters!LiveCallsAreReported /\ Adapters!ReplayIsTheRecording

(* and of commands that are run, recorded and replayed.                    *)
CommandsAreTruthful ==
  /\ which = "checks" => Checks!PassIsEarned /\ Checks!ReplayGivesWhatWasRecorded
  /\ which = "tools" => Tools!ReplayGivesWhatWasRecorded

(* The properties of LiveStudies together: what a study filed is what came *)
(* of its calls, and nothing came after a failure.                         *)
StudiesAreTheirEvidence ==
  CASE which = "study" ->
         /\ Study!FailureStopsTheStudy /\ Study!EvidenceIsTheRun
         /\ Study!ReturnedIsReplayable /\ Study!ProofFollowsItsReport
    [] which = "studies" ->
         /\ Studies!FailureStopsTheStudy /\ Studies!EvidenceIsTheRun
         /\ Studies!ReturnedIsReplayable /\ Studies!ProofFollowsItsReport
    [] OTHER -> TRUE

EvolutionIsAccountable ==
  /\ which = "evolution" => Evolution!EvolutionIsAccountable
  /\ which = "longer" => Longer!EvolutionIsAccountable

IndexFollowsFiles == which = "index" => Index!IndexFollowsFiles
=============================================================================
