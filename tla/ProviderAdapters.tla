-------------------------- MODULE ProviderAdapters --------------------------
(***************************************************************************)
(* The two providers behind the controlled boundary that ProviderCall      *)
(* models from the controller's side: OpenAIResponsesProvider              *)
(* (openai_responses_provider.py) and CompositeReplayProvider, with the    *)
(* recorder and the transcript file it replays                             *)
(* (composite_replay_provider.py).                                         *)
(*                                                                         *)
(* A controller may cancel a call, or its deadline may pass, at any        *)
(* moment; the adapters look at that only at their checks, so a call the   *)
(* controller gave up may still be under way.  The service (external)      *)
(* answers, fails or reports any usage.  Prices are small integers, and    *)
(* usage counts are numbers of tokens.  A request is what its digest       *)
(* identifies; BindingOf is the compiled plan and session it belongs to.   *)
(***************************************************************************)
EXTENDS Integers, Sequences, FiniteSets, SequencesExt

CONSTANTS
  Calls,       \* the calls that reach the adapter
  Requests,    \* the requests they may carry
  BindingOf,   \* the runtime identity each request is bound to
  Responses,   \* the response ids of a recording
  Recorders,   \* the recorders that write to the transcript's path
  MaxTokens,   \* the input tokens reserved, and reported at most
  MaxRate,     \* the prices of a schedule are at most this
  NoRows       \* no transcript

AdapterAssumption ==
  /\ BindingOf \in [Requests -> {"own", "other"}]
  /\ MaxTokens \in Nat /\ MaxRate \in Nat

VARIABLES
  adapter,   \* which provider is installed: live or replay
  call,      \* per call: where it is, its request, stop, usage and outcome
  sentCount, failedAfterSend,   \* the live adapter's counters
  received,  \* the calls whose request left the process
  rates,     \* the price schedule of the frozen profile
  rows, finalized,   \* of each recorder
  file,      \* the transcript at the path
  manifest, cursor, consumed,   \* the replay provider
  answers    \* the rows handed out, in order: [call, row]

live == <<sentCount, failedAfterSend, received>>
recording == <<rows, finalized, file>>
replay == <<manifest, cursor, consumed, answers>>
vars == <<adapter, call, live, rates, recording, replay>>

Rates == [input : 0..MaxRate, output : {1}, cached : 0..MaxRate, write : 0..MaxRate]
NoReport == [status |-> "unknown"]
Outcomes == {"none", "result", "cancelled", "deadline", "error"}

Prefix(s, n) == SubSeq(s, 1, n)
RequestsOf(s) == {s[i].request : i \in 1..Len(s)}

------------------------------------------------------------------------------
(* _cost_usd; _max_known_cost_usd: the most that usage within the          *)
(* reservation can cost, by moving tokens to the dearer cache categories.  *)
Cost(r, u) ==
  (u.input - u.cached - u.written) * r.input + u.output * r.output
    + u.cached * r.cached + u.written * r.write

Smaller(a, b) == IF a < b THEN a ELSE b
Larger(a, b) == IF a > b THEN a ELSE b

(* A faulty variant: the cheaper category is given its tokens first.       *)
CheapestFirst(r, input, output, prefix) ==
  LET low == Smaller(r.cached, r.write) - r.input
      high == Larger(r.cached, r.write) - r.input
      first == IF low > 0 THEN Smaller(prefix, input) ELSE 0
      second == IF high > 0 THEN Smaller(prefix, input - first) ELSE 0
  IN input * r.input + output * r.output + first * low + second * high

MaxKnownCost(r, input, output, prefix) ==
  LET high == Larger(r.cached, r.write) - r.input
      low == Smaller(r.cached, r.write) - r.input
      first == IF high > 0 THEN Smaller(prefix, input) ELSE 0
      second == IF low > 0 THEN Smaller(prefix, input - first) ELSE 0
  IN input * r.input + output * r.output + first * high + second * low

(* What a response may say of its usage, before and after it is read: a    *)
(* report whose cache tokens exceed its input is unknown.                  *)
Said == [input : 0..MaxTokens, output : 0..1, cached : 0..MaxTokens, written : 0..MaxTokens]
Reported(u) ==
  IF u = NoReport \/ u.cached + u.written > u.input THEN NoReport
  ELSE [status |-> "known", cost |-> Cost(rates, u), tokens |-> u]

------------------------------------------------------------------------------
Idle == [at |-> "idle", request |-> NoRows, stop |-> "none", reply |-> "none",
         usage |-> NoReport, sent |-> FALSE, outcome |-> "none"]

Init ==
  /\ adapter \in {"live", "replay"}
  /\ call = [c \in Calls |-> Idle]
  /\ sentCount = 0 /\ failedAfterSend = FALSE /\ received = {}
  /\ rates \in IF adapter = "live" THEN Rates
               ELSE {[input |-> 0, output |-> 1, cached |-> 0, write |-> 0]}
  /\ rows = [w \in Recorders |-> << >>] /\ finalized = [w \in Recorders |-> FALSE]
  /\ file = NoRows
  /\ manifest = NoRows /\ cursor = 0 /\ consumed = {} /\ answers = << >>

(* The controller cancels the call or its deadline passes.                 *)
Stop(c) ==
  /\ call[c].at \in {"begun", "ready", "sending", "returned", "waiting"}
  /\ call[c].stop = "none"
  /\ \E s \in {"cancelled", "deadline"} : call' = [call EXCEPT ![c].stop = s]
  /\ UNCHANGED <<adapter, live, rates, recording, replay>>

Ends(c, outcome, sent, usage) ==
  call' = [call EXCEPT ![c].at = "done", ![c].outcome = outcome,
                       ![c].sent = sent, ![c].usage = usage]
Moves(c, at) == call' = [call EXCEPT ![c].at = at]
Raised(c) == IF call[c].stop = "none" THEN "error" ELSE call[c].stop

------------------------------------------------------------------------------
(* The live adapter, one call.  Before it is sent: the first check, then   *)
(* the base URL, the payload, the credential, the timeout and the client,  *)
(* each of which may be refused; then the last check and _mark_sent.       *)
Invoke(c) ==
  /\ adapter = "live" /\ call[c].at = "idle"
  /\ Moves(c, "begun")
  /\ UNCHANGED <<adapter, live, rates, recording, replay>>

Prepare(c) ==
  /\ adapter = "live" /\ call[c].at = "begun"
  /\ \/ call[c].stop = "none" /\ Moves(c, "ready")
     \/ Ends(c, Raised(c), FALSE, NoReport)
  /\ UNCHANGED <<adapter, live, rates, recording, replay>>

StoppedBeforeSend(c) ==
  /\ adapter = "live" /\ call[c].at = "ready" /\ call[c].stop # "none"
  /\ Ends(c, call[c].stop, FALSE, NoReport)
  /\ UNCHANGED <<adapter, live, rates, recording, replay>>

MarkSent(c) ==
  /\ adapter = "live" /\ call[c].at = "ready" /\ call[c].stop = "none"
  /\ sentCount' = sentCount + 1
  /\ Moves(c, "sending")
  /\ UNCHANGED <<adapter, failedAfterSend, received, rates, recording, replay>>

(* The request leaves the process and is answered, or does not get out.    *)
(* An exception of the client is an error that may carry a response; only  *)
(* a usage that is known is taken from it.                                 *)
Create(c) ==
  /\ adapter = "live" /\ call[c].at = "sending"
  /\ \/ /\ received' = received \cup {c}
        /\ \E reply \in {"turn", "malformed", "incomplete"}, u \in Said \cup {NoReport} :
             call' = [call EXCEPT ![c].at = "returned", ![c].reply = reply,
                                  ![c].usage = Reported(u)]
        /\ UNCHANGED failedAfterSend
     \/ /\ received' \in {received, received \cup {c}}
        /\ failedAfterSend' = TRUE
        /\ \E u \in {NoReport} \cup {u \in Said : c \in received'} :
             Ends(c, "error", TRUE, Reported(u))
  /\ UNCHANGED <<adapter, sentCount, rates, recording, replay>>

(* A faulty variant: a call stopped while it was under way is reported as  *)
(* not sent, as one stopped at the earlier checks.                         *)
ForgetsSend(c) ==
  /\ adapter = "live" /\ call[c].at = "returned"
  /\ IF call[c].stop = "none" /\ call[c].reply = "turn"
     THEN Ends(c, "result", TRUE, call[c].usage) /\ UNCHANGED failedAfterSend
     ELSE /\ failedAfterSend' = TRUE
          /\ Ends(c, Raised(c), call[c].stop = "none", call[c].usage)
  /\ UNCHANGED <<adapter, sentCount, received, rates, recording, replay>>

Settle(c) ==
  /\ adapter = "live" /\ call[c].at = "returned"
  /\ IF call[c].stop = "none" /\ call[c].reply = "turn"
     THEN Ends(c, "result", TRUE, call[c].usage) /\ UNCHANGED failedAfterSend
     ELSE failedAfterSend' = TRUE /\ Ends(c, Raised(c), TRUE, call[c].usage)
  /\ UNCHANGED <<adapter, sentCount, received, rates, recording, replay>>

(* execution_provenance of the live adapter.                               *)
LiveStatus ==
  IF sentCount = 0 THEN "not_run"
  ELSE IF failedAfterSend THEN "failed" ELSE "completed"

------------------------------------------------------------------------------
(* CompositeReplayRecorder: a row for each completed call, in the order in *)
(* which they are recorded, then finalize and write to the path.  A        *)
(* request of another identity, a repeated request and a repeated response *)
(* are refused, and so is everything after finalize.                       *)
Record(w, q, p) ==
  /\ adapter = "replay" /\ ~finalized[w]
  /\ BindingOf[q] = "own"
  /\ q \notin RequestsOf(rows[w])
  /\ \A i \in 1..Len(rows[w]) : rows[w][i].response # p
  /\ rows' = [rows EXCEPT ![w] = Append(@, [request |-> q, response |-> p])]
  /\ UNCHANGED <<adapter, call, live, rates, finalized, file, replay>>

Finalize(w) ==
  /\ ~finalized[w] /\ rows[w] # << >>
  /\ finalized' = [finalized EXCEPT ![w] = TRUE]
  /\ UNCHANGED <<adapter, call, live, rates, rows, file, replay>>

(* write_composite_replay_manifest: the temporary file is linked to the    *)
(* path, which fails if the path is taken; then only the same transcript   *)
(* is accepted.  A writer that is killed leaves its temporary file.        *)
(* A faulty variant: the temporary file replaces what is there.            *)
Replaces(w) ==
  /\ finalized[w] /\ file # rows[w]
  /\ file' = rows[w]
  /\ UNCHANGED <<adapter, call, live, rates, rows, finalized, replay>>

Write(w) ==
  /\ finalized[w] /\ file = NoRows
  /\ file' = rows[w]
  /\ UNCHANGED <<adapter, call, live, rates, rows, finalized, replay>>

(* load_composite_replay_manifest and the provider built of it.            *)
Load ==
  /\ adapter = "replay" /\ manifest = NoRows /\ file # NoRows
  /\ manifest' = file
  /\ UNCHANGED <<adapter, call, live, rates, recording, cursor, consumed, answers>>

------------------------------------------------------------------------------
(* CompositeReplayProvider.invoke: what can be refused without the lock,   *)
(* then, under the lock, the row whose turn it is or a refusal that        *)
(* consumes nothing.                                                       *)
Ask(c, q) ==
  /\ manifest # NoRows /\ call[c].at = "idle"
  /\ call' = [call EXCEPT ![c].at = "begun", ![c].request = q]
  /\ UNCHANGED <<adapter, live, rates, recording, replay>>

CheckIdentity(c) ==
  /\ adapter = "replay" /\ call[c].at = "begun"
  /\ IF call[c].stop = "none" /\ BindingOf[call[c].request] = "own"
     THEN Moves(c, "waiting") ELSE Ends(c, Raised(c), FALSE, NoReport)
  /\ UNCHANGED <<adapter, live, rates, recording, replay>>

Matches(q) ==
  /\ q \notin consumed /\ cursor < Len(manifest) /\ manifest[cursor + 1].request = q

(* A faulty variant: any row of the transcript that was not consumed.      *)
AnyRow(c) ==
  /\ adapter = "replay" /\ call[c].at = "waiting"
  /\ \E i \in 1..Len(manifest) :
       /\ call[c].stop = "none" /\ call[c].request \notin consumed
       /\ manifest[i].request = call[c].request
       /\ cursor' = cursor + 1
       /\ consumed' = consumed \cup {call[c].request}
       /\ answers' = Append(answers, [call |-> c, row |-> manifest[i]])
       /\ Ends(c, "result", FALSE, NoReport)
  /\ UNCHANGED <<adapter, live, rates, recording, manifest>>

Consume(c) ==
  /\ adapter = "replay" /\ call[c].at = "waiting"
  /\ call[c].stop = "none" /\ Matches(call[c].request)
  /\ cursor' = cursor + 1
  /\ consumed' = consumed \cup {call[c].request}
  /\ answers' = Append(answers, [call |-> c, row |-> manifest[cursor + 1]])
  /\ Ends(c, "result", FALSE, NoReport)
  /\ UNCHANGED <<adapter, live, rates, recording, manifest>>

Refuse(c) ==
  /\ adapter = "replay" /\ call[c].at = "waiting"
  /\ call[c].stop # "none" \/ ~Matches(call[c].request)
  /\ Ends(c, Raised(c), FALSE, NoReport)
  /\ UNCHANGED <<adapter, live, rates, recording, replay>>

(* reconciliation: complete when every row was consumed.                   *)
Reconciled == manifest # NoRows /\ cursor = Len(manifest)

Next ==
  \/ \E c \in Calls :
       \/ Stop(c) \/ Invoke(c) \/ Prepare(c) \/ StoppedBeforeSend(c) \/ MarkSent(c)
       \/ Create(c) \/ Settle(c)
       \/ \E q \in Requests : Ask(c, q)
       \/ CheckIdentity(c) \/ Consume(c) \/ Refuse(c)
  \/ \E w \in Recorders :
       \/ \E q \in Requests, p \in Responses : Record(w, q, p)
       \/ Finalize(w) \/ Write(w)
  \/ Load

Spec == Init /\ [][Next]_vars

------------------------------------------------------------------------------
TypeOK ==
  /\ adapter \in {"live", "replay"}
  /\ \A c \in Calls : /\ call[c].outcome \in Outcomes
                      /\ call[c].at \in {"idle", "begun", "ready", "sending", "returned",
                                         "waiting", "done"}
  /\ sentCount \in 0..Cardinality(Calls) /\ received \subseteq Calls
  /\ cursor \in 0..Cardinality(Requests) /\ consumed \subseteq Requests

(* What the controller and the run are told of a live call is what         *)
(* happened: a call reported as not sent never left the process, so that   *)
(* its reservation may be released whole; the count of requests covers     *)
(* every one that left; once nothing is under way, the status is           *)
(* "completed" exactly if every call that was sent gave its result; and no *)
(* known usage within the reserved tokens, of any price schedule and       *)
(* however it is spread over the cache categories, costs more than was     *)
(* reserved (invoke, execution_provenance, provider_request_reservation).  *)
LiveCallsAreReported ==
  /\ \A c \in Calls : call[c].at = "done" /\ ~call[c].sent => c \notin received
  /\ Cardinality(received) <= sentCount
  /\ LiveStatus = "not_run" => received = {}
  /\ (\A c \in Calls : call[c].at \in {"idle", "done"}) =>
       (LiveStatus = "completed" <=>
          /\ \E c \in Calls : call[c].sent
          /\ \A c \in Calls : call[c].sent => call[c].outcome = "result")
  /\ \A c \in Calls : LET u == call[c].usage IN
       \A prefix \in 0..MaxTokens :
         u # NoReport /\ u.tokens.cached <= prefix /\ u.tokens.written <= prefix
           => u.cost <= MaxKnownCost(rates, MaxTokens, 1, prefix)

(* A replay is the recording: it hands out the rows of one finalized       *)
(* recorder's transcript from the first on, each once and to the call that *)
(* asked for it, whatever calls were refused, stopped or made out of turn, *)
(* and it reconciles only when it has handed out all; and the transcript   *)
(* at the path is never replaced by another recorder's                     *)
(* (CompositeReplayProvider.invoke, write_composite_replay_manifest).      *)
ReplayIsTheRecording ==
  /\ manifest # NoRows =>
       /\ manifest = file
       /\ \E w \in Recorders : finalized[w] /\ rows[w] = manifest
       /\ [i \in 1..Len(answers) |-> answers[i].row] = Prefix(manifest, cursor)
       /\ Reconciled => RequestsOf(manifest) = consumed
  /\ \A i \in 1..Len(answers) :
       LET c == answers[i].call IN
         /\ answers[i].row.request = call[c].request
         /\ \A j \in 1..Len(answers) : j # i => answers[j].call # c
  /\ \A c \in Calls : call[c].outcome = "result" /\ adapter = "replay" =>
       \E i \in 1..Len(answers) : answers[i].call = c
=============================================================================
