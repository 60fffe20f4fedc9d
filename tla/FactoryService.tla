--------------------------- MODULE FactoryService ---------------------------
(***************************************************************************)
(* The factory service and its deterministic replay: builders that check   *)
(* their authority, search, publish the retained protocol as a release of  *)
(* the project's one chat, and file evidence of what they published.       *)
(*                                                                         *)
(* The transaction store (FactoryTransaction) is here what a builder sees  *)
(* of it: under the lock, the active pointer walks over every release of   *)
(* the log before the head is compared and the new message is committed.   *)
(* The service reads that pointer without the lock, before the search and  *)
(* after the publication.                                                  *)
(*                                                                         *)
(* A search is what it asked and was answered: the first request is        *)
(* determined by the founding protocol, each later one by the answers      *)
(* before it, so the protocol of a release stands for the whole search.    *)
(***************************************************************************)
EXTENDS Integers, Sequences, FiniteSets, SequencesExt

CONSTANTS Builder,
          Replayer,     \* those that may build from a transcript
          Length,       \* answers a full search takes
          MaxMessages   \* bound: the messages of the chat

VARIABLES chat,         \* the releases of the chat's messages, in order
          active,       \* the message whose release is active, 0 for none
          lock,         \* the builder in the transaction, or "free"
          pc, mode, parent, founding, answers,
          transcript,   \* the rows a replay reads
          cursor,       \* how many of them it has consumed
          result,       \* the message and the pointer of the build result
          crossed,      \* the founding read met a pointer off the head
          evidence,     \* controlled build evidence, by the message it names
          provenance    \* replay provenance: transcript, release it names

factoryVars == <<chat, active, lock, pc, mode, parent, founding, answers, transcript,
          cursor, result, crossed, evidence, provenance>>

ServiceAssumption ==
  /\ Replayer \subseteq Builder /\ "free" \notin Builder
  /\ Length \in Nat \ {0} /\ MaxMessages \in Nat

(* A batch of proposals and its panels end with a retained structural      *)
(* child or without one.                                                   *)
Answer == {"structural", "flat"}

Seed == [founding |-> <<>>, answers |-> <<>>]

SearchRelease(from, given) == [founding |-> from, answers |-> given]

(* _assert_search_retained_structural_evidence and its live counterpart.   *)
Publishable(given) == \E i \in DOMAIN given : given[i] = "structural"

(* The request that comes after these answers.                             *)
Request(from, given) == [founding |-> from, answers |-> given]

(* The rows a recorder writes down for a search.                           *)
Recorded(from, given) ==
  [i \in DOMAIN given |-> [request |-> Request(from, SubSeq(given, 1, i - 1)),
                           answer |-> given[i]]]

(* Transcripts found on disk: of this founding protocol or another one,    *)
(* with as many rows as a search takes, fewer or more.                     *)
Transcripts(from) ==
  {Recorded(f, given) : f \in {from, Seed},
                        given \in UNION {[1..n -> Answer] : n \in 1..(Length + 1)}}

At(b, here) == pc[b] = here
Go(b, there) == pc' = [pc EXCEPT ![b] = there]

FactoryInit ==
  /\ chat = <<>> /\ active = 0 /\ lock = "free"
  /\ pc = [b \in Builder |-> "idle"]
  /\ mode = [b \in Builder |-> "callbacks"]
  /\ parent = [b \in Builder |-> 0]
  /\ founding = [b \in Builder |-> Seed]
  /\ answers = [b \in Builder |-> <<>>]
  /\ transcript = [b \in Builder |-> <<>>]
  /\ cursor = [b \in Builder |-> 0]
  /\ result = [b \in Builder |-> [message |-> 0, pointer |-> 0]]
  /\ crossed = [b \in Builder |-> FALSE]
  /\ evidence = {} /\ provenance = {}

store == <<chat, active, lock>>
files == <<evidence, provenance>>

(* A build of the first release, from any protocol, or a follow-up of the  *)
(* last message its user has seen, from the protocol of the release that   *)
(* is active when it is checked (_validate_followup_identity).  Authority  *)
(* that crosses the epoch ends the build here.                             *)
Begin(b) ==
  /\ pc[b] \in {"idle", "done", "refused"} /\ Len(chat) < MaxMessages
  /\ \E m \in {"callbacks"} \cup (IF b \in Replayer THEN {"replay"} ELSE {}) :
       mode' = [mode EXCEPT ![b] = m]
  /\ parent' = [parent EXCEPT ![b] = Len(chat)]
  /\ founding' = [founding EXCEPT ![b] = IF chat = <<>> THEN Seed ELSE chat[active]]
  /\ crossed' = [crossed EXCEPT ![b] = active # Len(chat)]
  /\ \E rows \in IF mode'[b] = "replay" THEN Transcripts(founding'[b]) ELSE {<<>>} :
       transcript' = [transcript EXCEPT ![b] = rows]
  /\ Go(b, IF mode'[b] = "replay" THEN "preflight" ELSE "search")
  /\ answers' = [answers EXCEPT ![b] = <<>>]
  /\ cursor' = [cursor EXCEPT ![b] = 0]
  /\ result' = [result EXCEPT ![b] = [message |-> 0, pointer |-> 0]]
  /\ UNCHANGED <<store, files>>

Stop(b) ==
  /\ Go(b, "refused")
  /\ UNCHANGED <<store, mode, parent, founding, answers, transcript, cursor, result,
                 crossed, files>>

RefuseAuthority(b) == At(b, "search") /\ answers[b] = <<>> /\ Stop(b)

(* A callback of the caller answers, or fails.                             *)
SearchStep(b) ==
  /\ At(b, "search") /\ mode[b] # "replay" /\ Len(answers[b]) < Length
  /\ \E a \in Answer : answers' = [answers EXCEPT ![b] = Append(@, a)]
  /\ UNCHANGED <<store, pc, mode, parent, founding, transcript, cursor, result,
                 crossed, files>>

(* The next row answers if it was recorded for this very request.          *)
Matches(b) ==
  /\ cursor[b] < Len(transcript[b])
  /\ transcript[b][cursor[b] + 1].request = Request(founding[b], answers[b])

ReplayStep(b) ==
  /\ pc[b] \in {"preflight", "search"} /\ mode[b] = "replay"
  /\ Len(answers[b]) < Length /\ Matches(b)
  /\ answers' = [answers EXCEPT ![b] = Append(@, transcript[b][cursor[b] + 1].answer)]
  /\ cursor' = [cursor EXCEPT ![b] = @ + 1]
  /\ UNCHANGED <<store, pc, mode, parent, founding, transcript, result, crossed, files>>

(* Out of rows, or the row of another request.                             *)
RefuseRow(b) ==
  /\ pc[b] \in {"preflight", "search"} /\ mode[b] = "replay"
  /\ Len(answers[b]) < Length /\ ~Matches(b)
  /\ Stop(b)

(* A faulty variant: the preflight need not consume every row.             *)
PreflightEndsAnyway(b) ==
  /\ At(b, "preflight") /\ Len(answers[b]) = Length
  /\ Go(b, "search")
  /\ answers' = [answers EXCEPT ![b] = <<>>]
  /\ cursor' = [cursor EXCEPT ![b] = 0]
  /\ UNCHANGED <<store, mode, parent, founding, transcript, result, crossed, files>>

(* The whole search has run against the transcript once, and consumed it,  *)
(* before the service runs it again with fresh cursors.                    *)
PreflightEnds(b) ==
  /\ At(b, "preflight") /\ Len(answers[b]) = Length
  /\ IF cursor[b] = Len(transcript[b])
       THEN Go(b, "search") /\ answers' = [answers EXCEPT ![b] = <<>>]
       ELSE Go(b, "refused") /\ UNCHANGED answers
  /\ cursor' = [cursor EXCEPT ![b] = 0]
  /\ UNCHANGED <<store, mode, parent, founding, transcript, result, crossed, files>>

SearchEnds(b) ==
  /\ At(b, "search") /\ Len(answers[b]) = Length
  /\ Go(b, IF Publishable(answers[b]) THEN "publish" ELSE "refused")
  /\ UNCHANGED <<store, mode, parent, founding, answers, transcript, cursor, result,
                 crossed, files>>

(* _writer_lock, and _recover_unlocked's first redo.                       *)
EnterStore(b) ==
  /\ At(b, "publish")
  /\ \/ lock # "free" /\ Go(b, "refused") /\ UNCHANGED <<lock, active>>
     \/ lock = "free" /\ lock' = b /\ Go(b, "walk")
        /\ active' = IF chat = <<>> THEN 0 ELSE 1
  /\ UNCHANGED <<chat, mode, parent, founding, answers, transcript, cursor, result,
                 crossed, files>>

WalkLog(b) ==
  /\ At(b, "walk") /\ active < Len(chat)
  /\ active' = active + 1
  /\ UNCHANGED <<chat, lock, pc, mode, parent, founding, answers, transcript, cursor,
                 result, crossed, files>>

(* The head is the parent the builder named: the message is committed and  *)
(* the pointer follows it.                                                 *)
Commit(b) ==
  /\ At(b, "walk") /\ active = Len(chat)
  /\ lock' = "free"
  /\ IF parent[b] = Len(chat) /\ Len(chat) < MaxMessages
       THEN /\ chat' = Append(chat, SearchRelease(founding[b], answers[b]))
            /\ active' = Len(chat) + 1
            /\ result' = [result EXCEPT ![b] = [message |-> Len(chat) + 1, pointer |-> 0]]
            /\ Go(b, "point")
       ELSE Go(b, "refused") /\ UNCHANGED <<chat, active, result>>
  /\ UNCHANGED <<mode, parent, founding, answers, transcript, cursor, crossed, files>>

(* load_active_release_pointer after the publication, without the lock.    *)
ReadPointer(b) ==
  /\ At(b, "point")
  /\ result' = [result EXCEPT ![b].pointer = active]
  /\ Go(b, "file")
  /\ UNCHANGED <<store, mode, parent, founding, answers, transcript, cursor, crossed,
                 files>>

(* _write_controlled_evidence, with the digests of the message.            *)
FileEvidence(b) ==
  /\ At(b, "file")
  /\ evidence' = evidence \cup
       {[message |-> result[b].message, search |-> SearchRelease(founding[b], answers[b])]}
  /\ Go(b, IF mode[b] = "replay" THEN "reconcile" ELSE "done")
  /\ UNCHANGED <<store, mode, parent, founding, answers, transcript, cursor, result,
                 crossed, provenance>>

(* The replay's own evidence names the release of the pointer it was       *)
(* handed; it is refused if other rows are on file under that name.        *)
FileProvenance(b) ==
  /\ At(b, "reconcile")
  /\ IF cursor[b] = Len(transcript[b])
       THEN /\ provenance' = provenance \cup
                 {[rows |-> transcript[b], names |-> result[b].pointer]}
            /\ Go(b, "done")
       ELSE Go(b, "refused") /\ UNCHANGED provenance
  /\ UNCHANGED <<store, mode, parent, founding, answers, transcript, cursor, result,
                 crossed, evidence>>

Step(b) ==
  \/ Begin(b) \/ RefuseAuthority(b) \/ SearchStep(b) \/ ReplayStep(b) \/ RefuseRow(b)
  \/ PreflightEnds(b) \/ SearchEnds(b) \/ EnterStore(b) \/ WalkLog(b) \/ Commit(b)
  \/ ReadPointer(b) \/ FileEvidence(b) \/ FileProvenance(b)

FactoryNext == \E b \in Builder : Step(b)

FactorySpec == FactoryInit /\ [][FactoryNext]_factoryVars

------------------------------------------------------------------------------
(* The type invariant.                                                     *)
FactoryTypeOK ==
  /\ Len(chat) <= MaxMessages /\ active \in 0..Len(chat)
  /\ lock \in Builder \cup {"free"}
  /\ \A b \in Builder :
       /\ pc[b] \in {"idle", "preflight", "search", "publish", "walk", "point", "file",
                     "reconcile", "done", "refused"}
       /\ mode[b] \in {"callbacks", "replay"}
       /\ parent[b] \in 0..MaxMessages /\ answers[b] \in Seq(Answer)
       /\ cursor[b] \in 0..Len(transcript[b])
       /\ result[b].message \in 0..MaxMessages /\ result[b].pointer \in 0..MaxMessages

(* Every message was made by a search that retained a structural child,    *)
(* its evidence is of that search, and it starts from the release of the   *)
(* message before it unless the founding check met the pointer on its walk.*)
MessagesAreFounded ==
  /\ \A i \in DOMAIN chat : Publishable(chat[i].answers)
  /\ \A e \in evidence : chat[e.message] = e.search
  /\ \A b \in Builder :
       result[b].message > 0 /\ ~crossed[b] =>
         founding[b] = IF parent[b] = 0 THEN Seed ELSE chat[parent[b]]

(* A replayed release is the one its transcript records, row for row.      *)
ReplayIsExact ==
  \A b \in Builder :
    mode[b] = "replay" /\ result[b].message > 0 =>
      transcript[b] = Recorded(founding[b], chat[result[b].message].answers)

(* What a build publishes and files is what its own search found, however  *)
(* builders interleave: the release, its evidence and its transcript       *)
(* agree (build_harness_factory_release,                                   *)
(* build_harness_factory_release_from_replay).                             *)
BuildsAreTraceable ==
  /\ MessagesAreFounded /\ ReplayIsExact
=============================================================================
