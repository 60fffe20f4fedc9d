----------------------------- MODULE ServiceProofs -----------------------------
(***************************************************************************)
(* What holds of the two services around a release: the one that builds    *)
(* it (FactoryService) and the one that judges it (EvaluationService).     *)
(***************************************************************************)
EXTENDS FactoryService, EvaluationService, SequenceTheorems, TLAPS

-----------------------------------------------------------------------------
(***************************************************************************)
(* What holds of factory builds and their replays for every set of         *)
(* builders, every length of a search and every bound on the chat          *)
(* (factory/harness_service.py, factory/harness_replay.py).                *)
(*                                                                         *)
(* A builder's own state is one record, Local(b), and the invariant says   *)
(* of each record, next to the chat, that it is Sound: what its search     *)
(* started from, that its answers are the rows it consumed, and that the   *)
(* message it published is what it searched.  The chat only ever grows at  *)
(* its end, so a step of one builder keeps the records of the others Sound *)
(* (SoundGrows), and each action has to be looked at for its own builder.  *)
(***************************************************************************)

(* The inductive invariant.                                                *)

Local(b) ==
  [pc |-> pc[b], mode |-> mode[b], parent |-> parent[b], founding |-> founding[b],
   answers |-> answers[b], transcript |-> transcript[b], cursor |-> cursor[b],
   result |-> result[b], crossed |-> crossed[b]]

(* Where a build is once it has a message.                                 *)
PublishedPc == {"point", "file", "reconcile", "done"}
AfterPreflight == {"search", "publish", "walk"} \cup PublishedPc
Pcs == AfterPreflight \cup {"idle", "preflight", "refused"}

(* The elements of chats and transcripts are not typed: a release holds    *)
(* the release it was founded on.                                          *)
IsSequence(s) == \E S : s \in Seq(S)

IsRow(row) ==
  row = [request |-> row.request, answer |-> row.answer] /\ row.answer \in Answer

LocalTyped(l, ch) ==
  /\ l.pc \in Pcs
  /\ l.mode \in {"callbacks", "replay"}
  /\ l.parent \in 0..Len(ch)
  /\ l.answers \in Seq(Answer)
  /\ IsSequence(l.transcript) /\ (\A i \in 1..Len(l.transcript) : IsRow(l.transcript[i]))
  /\ l.cursor \in 0..Len(l.transcript)
  /\ l.result \in [message : 0..Len(ch), pointer : 0..Len(ch)]
  /\ l.crossed \in BOOLEAN

(* A search starts from its parent's release unless it crossed a walk.     *)
Founded(l, ch) ==
  ~l.crossed => l.founding = IF l.parent = 0 THEN Seed ELSE ch[l.parent]

(* What is published, or about to be, is what the search found.            *)
Published(l, ch) ==
  /\ l.pc \in {"publish", "walk"} => Publishable(l.answers)
  /\ l.pc \in PublishedPc => l.result.message > 0
  /\ l.result.message > 0 =>
       /\ l.pc \in PublishedPc \cup {"refused"}
       /\ ch[l.result.message] = SearchRelease(l.founding, l.answers)

(* The answers are those of the first rows, each recorded for the request  *)
(* it answered.                                                            *)
Played(l) ==
  /\ Len(l.answers) <= Len(l.transcript)
  /\ \A i \in 1..Len(l.answers) :
       l.transcript[i] = [request |-> Request(l.founding, SubSeq(l.answers, 1, i - 1)),
                          answer |-> l.answers[i]]

Consumed(l) == Len(l.answers) = Length /\ Len(l.transcript) = Length /\ Played(l)

Replayed(l) ==
  l.mode = "replay" =>
    /\ l.pc \in {"preflight", "search"} => l.cursor = Len(l.answers) /\ Played(l)
    /\ l.pc \in AfterPreflight => Len(l.transcript) = Length
    /\ l.pc \in {"publish", "walk"} \/ l.result.message > 0 => Consumed(l)

Sound(l, ch) == LocalTyped(l, ch) /\ Founded(l, ch) /\ Published(l, ch) /\ Replayed(l)

(* The chat, its pointer and the evidence that names its messages.         *)
ChatOK ==
  /\ IsSequence(chat) /\ Len(chat) \in 0..MaxMessages
  /\ active \in 0..Len(chat) /\ (chat # <<>> => active > 0)
  /\ lock \in Builder \cup {"free"}
  /\ \A i \in 1..Len(chat) : Publishable(chat[i].answers)
  /\ \A e \in evidence : e.message \in 1..Len(chat) /\ chat[e.message] = e.search

Domains ==
  /\ DOMAIN pc = Builder /\ DOMAIN mode = Builder /\ DOMAIN parent = Builder
  /\ DOMAIN founding = Builder /\ DOMAIN answers = Builder /\ DOMAIN transcript = Builder
  /\ DOMAIN cursor = Builder /\ DOMAIN result = Builder /\ DOMAIN crossed = Builder

BuildInv == ChatOK /\ Domains /\ \A b \in Builder : Sound(Local(b), chat)

-----------------------------------------------------------------------------
(* Sequences whose elements are not typed.                                 *)

LEMMA SequenceFacts ==
  ASSUME NEW s, IsSequence(s)
  PROVE  Len(s) \in Nat /\ DOMAIN s = 1..Len(s) /\ (Len(s) = 0 <=> s = <<>>)
<1>1. PICK S : s \in Seq(S)
  BY DEF IsSequence
<1> QED
  BY <1>1, LenProperties, EmptySeq

LEMMA AppendFacts ==
  ASSUME NEW s, IsSequence(s), NEW x
  PROVE  /\ IsSequence(Append(s, x)) /\ Len(Append(s, x)) = Len(s) + 1
         /\ \A i \in 1..Len(s) : Append(s, x)[i] = s[i]
         /\ Append(s, x)[Len(s) + 1] = x
<1>1. PICK S : s \in Seq(S)
  BY DEF IsSequence
<1>2. s \in Seq(S \cup {x})
  BY <1>1, SeqMonotonic
<1> QED
  BY <1>2, AppendProperties DEF IsSequence

(* The rows of a transcript on disk: as many as it has answers, each with  *)
(* one of them.                                                            *)
LEMMA TranscriptRows ==
  ASSUME NEW from, NEW rows \in Transcripts(from)
  PROVE  IsSequence(rows) /\ \A i \in 1..Len(rows) : IsRow(rows[i])
<1>1. PICK f \in {from, Seed}, given \in UNION {[1..n -> Answer] : n \in 1..(Length + 1)} :
        rows = Recorded(f, given)
  BY DEF Transcripts
<1>2. PICK n \in 1..(Length + 1) : given \in [1..n -> Answer]
  BY <1>1
<1> DEFINE row(i) == [request |-> Request(f, SubSeq(given, 1, i - 1)), answer |-> given[i]]
<1> DEFINE S == {row(i) : i \in 1..n}
<1>3. rows = [i \in 1..n |-> row(i)]
  BY <1>1, <1>2 DEF Recorded
<1>4. rows \in [1..n -> S]
  BY <1>3
<1>5. n \in Nat
  OBVIOUS
<1> HIDE DEF S, row
<1>6. rows \in Seq(S) /\ Len(rows) = n
  BY <1>4, <1>5
<1>7. ASSUME NEW i \in 1..n PROVE IsRow(rows[i])
  BY <1>2, <1>3 DEF IsRow, row
<1> QED
  BY <1>6, <1>7 DEF IsSequence

(* One more answer leaves the answers before it alone.                     *)
LEMMA AppendPrefix ==
  ASSUME NEW S, NEW s \in Seq(S), NEW a \in S, NEW i \in 1..(Len(s) + 1)
  PROVE  SubSeq(Append(s, a), 1, i - 1) = SubSeq(s, 1, i - 1)
<1> DEFINE t == Append(s, a)
<1>1. /\ t \in Seq(S) /\ Len(t) = Len(s) + 1 /\ Len(s) \in Nat
      /\ \A j \in 1..Len(s) : t[j] = s[j]
  BY AppendProperties, LenProperties
<1>2. \A j \in 1..(i - 1) : s[j] \in S /\ t[j] \in S /\ t[j] = s[j]
  BY <1>1, ElementOfSeq
<1> HIDE DEF t
<1>3. /\ SubSeq(t, 1, i - 1) \in Seq(S) /\ SubSeq(s, 1, i - 1) \in Seq(S)
      /\ Len(SubSeq(t, 1, i - 1)) = Len(SubSeq(s, 1, i - 1))
      /\ Len(SubSeq(s, 1, i - 1)) = i - 1
      /\ \A j \in 1..(i - 1) : SubSeq(t, 1, i - 1)[j] = SubSeq(s, 1, i - 1)[j]
  BY <1>1, <1>2, SubSeqProperties
<1>4. SubSeq(t, 1, i - 1) = SubSeq(s, 1, i - 1)
  BY <1>3, SeqEqual
<1> QED
  BY <1>4 DEF t

-----------------------------------------------------------------------------
(* A build in a longer chat is as sound as it was.                         *)
Extends(longer, ch) == Len(longer) \in Nat /\ Len(ch) \in 0..Len(longer)
                       /\ \A i \in 1..Len(ch) : longer[i] = ch[i]

LEMMA SoundGrows ==
  ASSUME NEW l, NEW ch, NEW longer, Sound(l, ch), Extends(longer, ch)
  PROVE  Sound(l, longer)
<1> USE DEF Sound, Extends
<1>1. LocalTyped(l, longer)
  BY DEF LocalTyped
<1>2. Founded(l, longer)
  BY DEF Founded, LocalTyped
<1>3. Published(l, longer)
  BY DEF Published, LocalTyped
<1> QED
  BY <1>1, <1>2, <1>3

(* A step that leaves a builder's record alone.                            *)
LEMMA OthersStaySound ==
  ASSUME BuildInv, NEW b \in Builder, Extends(chat', chat),
         \A c \in Builder \ {b} : Local(c)' = Local(c),
         Sound(Local(b)', chat')
  PROVE  \A c \in Builder : Sound(Local(c), chat)'
<1> SUFFICES ASSUME NEW c \in Builder PROVE Sound(Local(c)', chat')
  OBVIOUS
<1>1. CASE c = b
  BY <1>1
<1>2. CASE c # b
  <2>1. Local(c)' = Local(c) /\ Sound(Local(c), chat)
    BY <1>2 DEF BuildInv
  <2> QED
    BY <2>1, SoundGrows
<1> QED
  BY <1>1, <1>2
-----------------------------------------------------------------------------
(* What every action has in common.                                        *)
LEMMA DomainsStay ==
  ASSUME Domains, NEW b \in Builder, Step(b)
  PROVE  Domains'
<1>1. CASE Begin(b)
  BY <1>1 DEF Domains, Begin, Go, Stop, store, files
<1>2. CASE RefuseAuthority(b)
  BY <1>2 DEF Domains, RefuseAuthority, Go, Stop, store, files
<1>3. CASE SearchStep(b)
  BY <1>3 DEF Domains, SearchStep, Go, Stop, store, files
<1>4. CASE ReplayStep(b)
  BY <1>4 DEF Domains, ReplayStep, Go, Stop, store, files
<1>5. CASE RefuseRow(b)
  BY <1>5 DEF Domains, RefuseRow, Go, Stop, store, files
<1>6. CASE PreflightEnds(b)
  BY <1>6 DEF Domains, PreflightEnds, Go, Stop, store, files
<1>7. CASE SearchEnds(b)
  BY <1>7 DEF Domains, SearchEnds, Go, Stop, store, files
<1>8. CASE EnterStore(b)
  BY <1>8 DEF Domains, EnterStore, Go, Stop, store, files
<1>9. CASE WalkLog(b)
  BY <1>9 DEF Domains, WalkLog, Go, Stop, store, files
<1>10. CASE Commit(b)
  BY <1>10 DEF Domains, Commit, Go, Stop, store, files
<1>11. CASE ReadPointer(b)
  BY <1>11 DEF Domains, ReadPointer, Go, Stop, store, files
<1>12. CASE FileEvidence(b)
  BY <1>12 DEF Domains, FileEvidence, Go, Stop, store, files
<1>13. CASE FileProvenance(b)
  BY <1>13 DEF Domains, FileProvenance, Go, Stop, store, files
<1> QED
  BY <1>1, <1>2, <1>3, <1>4, <1>5, <1>6, <1>7, <1>8, <1>9, <1>10, <1>11, <1>12, <1>13 DEF Step

(* The step of one builder leaves the records of the others alone.         *)
LEMMA OthersStay ==
  ASSUME Domains, NEW b \in Builder, Step(b), NEW c \in Builder \ {b}
  PROVE  Local(c)' = Local(c)
<1>1. CASE Begin(b)
  BY <1>1 DEF Domains, Local, Begin, Go, Stop, store, files
<1>2. CASE RefuseAuthority(b)
  BY <1>2 DEF Domains, Local, RefuseAuthority, Go, Stop, store, files
<1>3. CASE SearchStep(b)
  BY <1>3 DEF Domains, Local, SearchStep, Go, Stop, store, files
<1>4. CASE ReplayStep(b)
  BY <1>4 DEF Domains, Local, ReplayStep, Go, Stop, store, files
<1>5. CASE RefuseRow(b)
  BY <1>5 DEF Domains, Local, RefuseRow, Go, Stop, store, files
<1>6. CASE PreflightEnds(b)
  BY <1>6 DEF Domains, Local, PreflightEnds, Go, Stop, store, files
<1>7. CASE SearchEnds(b)
  BY <1>7 DEF Domains, Local, SearchEnds, Go, Stop, store, files
<1>8. CASE EnterStore(b)
  BY <1>8 DEF Domains, Local, EnterStore, Go, Stop, store, files
<1>9. CASE WalkLog(b)
  BY <1>9 DEF Domains, Local, WalkLog, Go, Stop, store, files
<1>10. CASE Commit(b)
  BY <1>10 DEF Domains, Local, Commit, Go, Stop, store, files
<1>11. CASE ReadPointer(b)
  BY <1>11 DEF Domains, Local, ReadPointer, Go, Stop, store, files
<1>12. CASE FileEvidence(b)
  BY <1>12 DEF Domains, Local, FileEvidence, Go, Stop, store, files
<1>13. CASE FileProvenance(b)
  BY <1>13 DEF Domains, Local, FileProvenance, Go, Stop, store, files
<1> QED
  BY <1>1, <1>2, <1>3, <1>4, <1>5, <1>6, <1>7, <1>8, <1>9, <1>10, <1>11, <1>12, <1>13 DEF Step

(* The step of a builder that keeps the chat in order, and its own record. *)
LEMMA BuildStore ==
  ASSUME BuildInv, NEW b \in Builder, Step(b), ChatOK', Extends(chat', chat),
         Sound(Local(b)', chat')
  PROVE  BuildInv'
<1>1. Domains'
  BY DomainsStay DEF BuildInv
<1>2. \A c \in Builder \ {b} : Local(c)' = Local(c)
  BY OthersStay DEF BuildInv
<1>3. \A c \in Builder : Sound(Local(c), chat)'
  BY <1>2, OthersStaySound
<1> QED
  BY <1>1, <1>3 DEF BuildInv

(* A step that leaves the chat, its pointer, lock and evidence alone.      *)
LEMMA QuietBuild ==
  ASSUME BuildInv, NEW b \in Builder, Step(b), UNCHANGED <<chat, active, lock, evidence>>,
         Sound(Local(b)', chat)
  PROVE  BuildInv'
<1>1. ChatOK'
  BY DEF BuildInv, ChatOK
<1>2. Extends(chat', chat)
  BY DEF BuildInv, ChatOK, Extends
<1> QED
  BY <1>1, <1>2, BuildStore

-----------------------------------------------------------------------------
(* The actions, one by one.                                                *)

(* A build starts from what is active, which is the release of the last    *)
(* message unless a walk was met; a replay finds a transcript.             *)
LEMMA BeginKeeps ==
  ASSUME ServiceAssumption, BuildInv, NEW b \in Builder, Begin(b)
  PROVE  BuildInv'
<1> USE DEF BuildInv
<1>1. PICK m \in {"callbacks", "replay"} : mode' = [mode EXCEPT ![b] = m]
  BY DEF Begin
<1>2. PICK rows :
        /\ transcript' = [transcript EXCEPT ![b] = rows]
        /\ rows \in Transcripts(founding'[b]) \/ rows = <<>>
  BY DEF Begin
<1>3. IsSequence(rows) /\ \A i \in 1..Len(rows) : IsRow(rows[i])
  <2>1. CASE rows = <<>>
    BY <2>1 DEF IsSequence
  <2>2. CASE rows \in Transcripts(founding'[b])
    BY <2>2, TranscriptRows
  <2> QED
    BY <1>2, <2>1, <2>2
<1>4. Local(b)' =
        [pc |-> IF m = "replay" THEN "preflight" ELSE "search", mode |-> m,
         parent |-> Len(chat), founding |-> IF chat = <<>> THEN Seed ELSE chat[active],
         answers |-> <<>>, transcript |-> rows, cursor |-> 0,
         result |-> [message |-> 0, pointer |-> 0], crossed |-> (active # Len(chat))]
  BY <1>1, <1>2 DEF Domains, Local, Begin, Go
<1> DEFINE l == Local(b)'
<1>5. Len(chat) \in Nat /\ (chat = <<>> <=> Len(chat) = 0) /\ Len(rows) \in Nat
  BY <1>3, SequenceFacts DEF ChatOK
<1>6. LocalTyped(l, chat)
  <2>1. <<>> \in Seq(Answer) /\ 0 \in 0..Len(rows) /\ Len(chat) \in 0..Len(chat)
    BY <1>5
  <2> QED
    BY <1>3, <1>4, <1>5, <2>1 DEF LocalTyped, Pcs, AfterPreflight
<1>7. Founded(l, chat)
  <2>1. crossed' = [crossed EXCEPT ![b] = active # Len(chat)] /\ b \in DOMAIN crossed
    BY DEF Begin, Domains
  <2>2. crossed'[b] = (active # Len(chat))
    BY <2>1, Zenon
  <2>3. l.crossed = crossed'[b]
    BY DEF Local
  <2>4. l.crossed = (active # Len(chat))
    BY <2>2, <2>3, Zenon
  <2>5. l.parent = Len(chat) /\ l.founding = IF chat = <<>> THEN Seed ELSE chat[active]
    BY <1>4
  <2> HIDE DEF l
  <2>6. ~l.crossed => active = Len(chat)
    BY <2>4, Zenon
  <2> QED
    BY <1>5, <2>5, <2>6 DEF Founded
<1>8. Published(l, chat)
  BY <1>4 DEF Published, PublishedPc
<1>9. Replayed(l)
  <2>1. Len(<<>>) = 0 /\ Len(rows) \in Nat
    BY <1>5
  <2> QED
    BY <1>4, <2>1 DEF Replayed, Played, Consumed, AfterPreflight, PublishedPc
<1>10. Sound(l, chat)
  BY <1>6, <1>7, <1>8, <1>9 DEF Sound
<1> QED
  BY <1>10, QuietBuild DEF Step, Begin, store, files

(* A build that stops before it published anything.                        *)
LEMMA StopKeeps ==
  ASSUME BuildInv, NEW b \in Builder, Step(b), Stop(b),
         pc[b] \in {"preflight", "search"}
  PROVE  BuildInv'
<1> DEFINE l == Local(b)
<1>1. Sound(l, chat)
  BY DEF BuildInv
<1>2. Local(b)' = [l EXCEPT !.pc = "refused"]
  BY DEF BuildInv, Domains, Local, Stop, Go, store, files
<1>3. l.pc = pc[b]
  BY DEF Local
<1> HIDE DEF l
<1>4. Sound([l EXCEPT !.pc = "refused"], chat)
  <2>1. LocalTyped([l EXCEPT !.pc = "refused"], chat)
    BY <1>1 DEF Sound, LocalTyped, Pcs
  <2>2. Founded([l EXCEPT !.pc = "refused"], chat)
    BY <1>1 DEF Sound, Founded
  <2>3. Published([l EXCEPT !.pc = "refused"], chat)
    BY <1>1 DEF Sound, Published, PublishedPc
  <2>4. Replayed([l EXCEPT !.pc = "refused"])
    BY <1>1, <1>3 DEF Sound, Published, Replayed, Consumed, Played, AfterPreflight, PublishedPc
  <2> QED
    BY <2>1, <2>2, <2>3, <2>4 DEF Sound
<1> QED
  BY <1>2, <1>4, QuietBuild DEF Stop, store, files

(* One more answer of a callback.                                          *)
LEMMA SearchStepKeeps ==
  ASSUME BuildInv, NEW b \in Builder, SearchStep(b)
  PROVE  BuildInv'
<1> DEFINE l == Local(b)
<1>1. Sound(l, chat)
  BY DEF BuildInv
<1>2. PICK a \in Answer : answers' = [answers EXCEPT ![b] = Append(@, a)]
  BY DEF SearchStep
<1> DEFINE next == Append(l.answers, a)
           after == Local(b)'
<1>3. /\ after.pc = l.pc /\ after.mode = l.mode /\ after.parent = l.parent
      /\ after.founding = l.founding /\ after.answers = next
      /\ after.transcript = l.transcript /\ after.cursor = l.cursor
      /\ after.result = l.result /\ after.crossed = l.crossed
  BY <1>2 DEF BuildInv, Domains, Local, SearchStep
<1>4. l.pc = "search" /\ l.mode # "replay"
  BY DEF Local, SearchStep, At
<1> HIDE DEF l
<1>5. next \in Seq(Answer)
  BY <1>1, AppendProperties DEF Sound, LocalTyped
<1> HIDE DEF next, after
<1>6. Sound(after, chat)
  <2>1. LocalTyped(after, chat)
    BY <1>1, <1>3, <1>5 DEF Sound, LocalTyped
  <2>2. Founded(after, chat)
    BY <1>1, <1>3 DEF Sound, Founded
  <2>3. Published(after, chat)
    BY <1>1, <1>3, <1>4 DEF Sound, Published, PublishedPc
  <2>4. Replayed(after)
    BY <1>3, <1>4 DEF Replayed
  <2> QED
    BY <2>1, <2>2, <2>3, <2>4 DEF Sound
<1> QED
  BY <1>6, QuietBuild DEF after, Step, SearchStep, store, files

(* The next row answers: it was recorded for the request that the answers  *)
(* so far determine, so the answers remain those of the rows consumed.     *)
LEMMA ReplayStepKeeps ==
  ASSUME ServiceAssumption, BuildInv, NEW b \in Builder, ReplayStep(b)
  PROVE  BuildInv'
<1> DEFINE l == Local(b)
<1>1. Sound(l, chat)
  BY DEF BuildInv
<1> DEFINE a == l.transcript[l.cursor + 1].answer
           next == Append(l.answers, a)
           after == Local(b)'
<1>3. /\ l.pc \in {"preflight", "search"} /\ l.mode = "replay"
      /\ l.cursor < Len(l.transcript) /\ Len(l.answers) < Length
      /\ l.transcript[l.cursor + 1].request = Request(l.founding, l.answers)
  BY DEF Local, ReplayStep, Matches
<1>10. /\ after.pc = l.pc /\ after.mode = l.mode /\ after.parent = l.parent
       /\ after.founding = l.founding /\ after.answers = next
       /\ after.transcript = l.transcript /\ after.cursor = l.cursor + 1
       /\ after.result = l.result /\ after.crossed = l.crossed
  BY DEF BuildInv, Domains, Local, ReplayStep
<1> HIDE DEF l
<1>4. /\ Len(l.transcript) \in Nat /\ l.cursor \in 0..Len(l.transcript)
      /\ l.cursor + 1 \in 1..Len(l.transcript)
      /\ l.answers \in Seq(Answer) /\ l.cursor = Len(l.answers) /\ Played(l)
      /\ \A i \in 1..Len(l.transcript) : IsRow(l.transcript[i])
  BY <1>1, <1>3, SequenceFacts DEF Sound, LocalTyped, Replayed
<1>5. a \in Answer
  BY <1>4 DEF IsRow
<1>6. /\ next \in Seq(Answer) /\ Len(next) = Len(l.answers) + 1
      /\ \A i \in 1..Len(l.answers) : next[i] = l.answers[i]
      /\ next[Len(l.answers) + 1] = a
  BY <1>4, <1>5, AppendProperties
<1>7. \A i \in 1..(Len(l.answers) + 1) : SubSeq(next, 1, i - 1) = SubSeq(l.answers, 1, i - 1)
  BY <1>4, <1>5, AppendPrefix
<1>8. SubSeq(l.answers, 1, Len(l.answers)) = l.answers
  BY <1>4, SubSeqFull
<1>9. l.transcript[l.cursor + 1] = [request |-> Request(l.founding, l.answers), answer |-> a]
  BY <1>3, <1>4 DEF IsRow
<1> HIDE DEF next, after
<1>11. Played(after)
  <2>1. ASSUME NEW i \in 1..Len(next)
        PROVE  l.transcript[i] = [request |-> Request(l.founding, SubSeq(next, 1, i - 1)),
                                  answer |-> next[i]]
    <3>1. CASE i = Len(l.answers) + 1
      <4>1. SubSeq(next, 1, i - 1) = l.answers
        <5>1. Len(l.answers) \in Nat
          BY <1>4, LenProperties
        <5>2. i - 1 = Len(l.answers) /\ i \in 1..(Len(l.answers) + 1)
          BY <3>1, <5>1
        <5> QED
          BY <1>7, <1>8, <5>2
      <4>2. next[i] = a /\ i = l.cursor + 1
        BY <1>4, <1>6, <3>1
      <4> QED
        BY <1>9, <4>1, <4>2
    <3>2. CASE i # Len(l.answers) + 1
      <4>1. i \in 1..Len(l.answers) /\ i \in 1..(Len(l.answers) + 1)
        BY <1>4, <1>6, <3>2
      <4>2. next[i] = l.answers[i] /\ SubSeq(next, 1, i - 1) = SubSeq(l.answers, 1, i - 1)
        BY <1>6, <1>7, <4>1
      <4>3. l.transcript[i] =
              [request |-> Request(l.founding, SubSeq(l.answers, 1, i - 1)),
               answer |-> l.answers[i]]
        BY <1>4, <4>1 DEF Played
      <4> QED
        BY <4>2, <4>3
    <3> QED
      BY <3>1, <3>2
  <2>2. Len(next) <= Len(l.transcript)
    BY <1>3, <1>4, <1>6
  <2>3. \A i \in 1..Len(next) :
          l.transcript[i] = [request |-> Request(l.founding, SubSeq(next, 1, i - 1)),
                             answer |-> next[i]]
    BY <2>1
  <2>4. after.answers = next /\ after.transcript = l.transcript /\ after.founding = l.founding
    BY <1>10
  <2> HIDE DEF a
  <2> QED
    BY <2>2, <2>3, <2>4, Zenon DEF Played
<1>12. Sound(after, chat)
  <2>1. LocalTyped(after, chat)
    BY <1>1, <1>3, <1>4, <1>6, <1>10 DEF Sound, LocalTyped
  <2>2. Founded(after, chat)
    BY <1>1, <1>10 DEF Sound, Founded
  <2>3. Published(after, chat)
    BY <1>1, <1>3, <1>10 DEF Sound, Published, PublishedPc
  <2>4. Replayed(after)
    BY <1>1, <1>3, <1>4, <1>6, <1>10, <1>11 DEF Sound, Published, Replayed, PublishedPc
  <2> QED
    BY <2>1, <2>2, <2>3, <2>4 DEF Sound
<1> QED
  BY <1>12, QuietBuild DEF after, Step, ReplayStep, store, files

(* The preflight has consumed the transcript, so it has a search's length. *)
LEMMA PreflightEndsKeeps ==
  ASSUME ServiceAssumption, BuildInv, NEW b \in Builder, PreflightEnds(b)
  PROVE  BuildInv'
<1> DEFINE l == Local(b)
           whole == l.cursor = Len(l.transcript)
           after == Local(b)'
<1>1. Sound(l, chat)
  BY DEF BuildInv
<1>3. l.pc = "preflight" /\ Len(l.answers) = Length
  BY DEF Local, PreflightEnds, At
<1>4. /\ after.pc = (IF whole THEN "search" ELSE "refused") /\ after.mode = l.mode
      /\ after.parent = l.parent /\ after.founding = l.founding
      /\ after.answers = (IF whole THEN <<>> ELSE l.answers)
      /\ after.transcript = l.transcript /\ after.cursor = 0
      /\ after.result = l.result /\ after.crossed = l.crossed
  BY DEF BuildInv, Domains, Local, PreflightEnds, Go
<1> HIDE DEF l, after
<1>5. Len(l.transcript) \in Nat /\ <<>> \in Seq(Answer) /\ Len(<<>>) = 0
  BY <1>1, SequenceFacts DEF Sound, LocalTyped
<1>6. LocalTyped(after, chat)
  BY <1>1, <1>4, <1>5 DEF Sound, LocalTyped, Pcs, AfterPreflight
<1>7. Founded(after, chat)
  BY <1>1, <1>4 DEF Sound, Founded
<1>8. l.result.message > 0 => FALSE
  BY <1>1, <1>3 DEF Sound, Published, PublishedPc
<1>9. Published(after, chat)
  BY <1>4, <1>8 DEF Published, PublishedPc
<1>10. Replayed(after)
  <2>1. Len(after.answers) = 0 => Played(after)
    BY <1>4, <1>5 DEF Played
  <2>2. l.mode = "replay" /\ whole => Len(l.transcript) = Length
    BY <1>1, <1>3 DEF Sound, Replayed
  <2> QED
    BY <1>4, <1>5, <1>8, <2>1, <2>2 DEF Replayed, AfterPreflight, PublishedPc
<1> QED
  BY <1>6, <1>7, <1>9, <1>10, QuietBuild DEF after, Sound, Step, PreflightEnds, store, files

(* A search that ends has as many answers as a search takes, and only one  *)
(* that retained a structural child is published.                          *)
LEMMA SearchEndsKeeps ==
  ASSUME BuildInv, NEW b \in Builder, SearchEnds(b)
  PROVE  BuildInv'
<1> DEFINE l == Local(b)
           after == Local(b)'
<1>1. Sound(l, chat)
  BY DEF BuildInv
<1>2. /\ l.pc = "search" /\ Len(l.answers) = Length
      /\ after.pc = (IF Publishable(l.answers) THEN "publish" ELSE "refused") /\ after.mode = l.mode /\ after.parent = l.parent
      /\ after.founding = l.founding /\ after.answers = l.answers
      /\ after.transcript = l.transcript /\ after.cursor = l.cursor
      /\ after.result = l.result /\ after.crossed = l.crossed
  BY DEF BuildInv, Domains, Local, SearchEnds, Go, At
<1> HIDE DEF l, after
<1>3. ~(l.result.message > 0)
  BY <1>1, <1>2 DEF Sound, Published, PublishedPc
<1>4. LocalTyped(after, chat)
  BY <1>1, <1>2 DEF Sound, LocalTyped, Pcs, AfterPreflight
<1>5. Founded(after, chat)
  BY <1>1, <1>2 DEF Sound, Founded
<1>6. Published(after, chat)
  BY <1>2, <1>3 DEF Published, PublishedPc
<1>7. Replayed(after)
  <2>1. l.mode = "replay" => Consumed(l)
    BY <1>1, <1>2 DEF Sound, Replayed, Consumed, AfterPreflight
  <2>2. after.mode = "replay" => Consumed(after)
    BY <1>2, <2>1 DEF Consumed, Played
  <2> QED
    BY <1>2, <1>3, <2>2 DEF Replayed, Consumed, AfterPreflight, PublishedPc
<1> QED
  BY <1>4, <1>5, <1>6, <1>7, QuietBuild DEF after, Sound, Step, SearchEnds, store, files

(* The lock is taken, or the build is refused; the redo of the log makes   *)
(* the first release active.                                               *)
LEMMA EnterStoreKeeps ==
  ASSUME BuildInv, NEW b \in Builder, EnterStore(b)
  PROVE  BuildInv'
<1> DEFINE l == Local(b)
           after == Local(b)'
<1>1. Sound(l, chat)
  BY DEF BuildInv
<1>2. /\ l.pc = "publish"
      /\ after.pc \in {"refused", "walk"} /\ after.mode = l.mode /\ after.parent = l.parent
      /\ after.founding = l.founding /\ after.answers = l.answers
      /\ after.transcript = l.transcript /\ after.cursor = l.cursor
      /\ after.result = l.result /\ after.crossed = l.crossed
  BY DEF BuildInv, Domains, Local, EnterStore, Go, At
<1> HIDE DEF l, after
<1>3. Sound(after, chat)
  <2>1. LocalTyped(after, chat)
    BY <1>1, <1>2 DEF Sound, LocalTyped, Pcs, AfterPreflight
  <2>2. Founded(after, chat)
    BY <1>1, <1>2 DEF Sound, Founded
  <2>3. Published(after, chat)
    BY <1>1, <1>2 DEF Sound, Published, PublishedPc
  <2>4. Replayed(after)
    BY <1>1, <1>2 DEF Sound, Replayed, Published, Consumed, Played, AfterPreflight, PublishedPc
  <2> QED
    BY <2>1, <2>2, <2>3, <2>4 DEF Sound
<1>4. ChatOK'
  <2>1. chat = <<>> <=> Len(chat) = 0
    BY SequenceFacts DEF BuildInv, ChatOK
  <2>2. /\ chat' = chat /\ evidence' = evidence
        /\ active' = active \/ active' = IF chat = <<>> THEN 0 ELSE 1
        /\ lock' = lock \/ lock' = b
    BY DEF EnterStore, files
  <2> QED
    BY <2>1, <2>2 DEF BuildInv, ChatOK
<1>5. chat' = chat /\ Extends(chat', chat)
  BY DEF BuildInv, ChatOK, Extends, EnterStore
<1> QED
  BY <1>3, <1>4, <1>5, BuildStore DEF after, Step

(* The pointer goes on to the next message of the log.                     *)
LEMMA WalkLogKeeps ==
  ASSUME BuildInv, NEW b \in Builder, WalkLog(b)
  PROVE  BuildInv'
<1>1. Local(b)' = Local(b) /\ UNCHANGED chat
  BY DEF Local, WalkLog
<1>2. Sound(Local(b)', chat')
  BY <1>1 DEF BuildInv
<1>3. ChatOK'
  BY DEF BuildInv, ChatOK, WalkLog, files
<1>4. Extends(chat', chat)
  BY <1>1 DEF BuildInv, ChatOK, Extends
<1> QED
  BY <1>2, <1>3, <1>4, BuildStore DEF Step

(* The message is committed, after the parent its builder named: no other  *)
(* message came between, so it is founded on the one before it.            *)
LEMMA CommitKeeps ==
  ASSUME ServiceAssumption, BuildInv, NEW b \in Builder, Commit(b)
  PROVE  BuildInv'
<1> DEFINE l == Local(b)
           after == Local(b)'
           new == SearchRelease(l.founding, l.answers)
<1>1. Sound(l, chat)
  BY DEF BuildInv
<1>2. l.pc = "walk" /\ Publishable(l.answers)
  BY <1>1 DEF Commit, At, Local, Sound, Published
<1>3. IsSequence(chat) /\ Len(chat) \in 0..MaxMessages /\ MaxMessages \in Nat
  BY DEF BuildInv, ChatOK, ServiceAssumption
<1>4. /\ IsSequence(Append(chat, new)) /\ Len(Append(chat, new)) = Len(chat) + 1
      /\ \A i \in 1..Len(chat) : Append(chat, new)[i] = chat[i]
      /\ Append(chat, new)[Len(chat) + 1] = new
  BY <1>3, AppendFacts
<1>5. CASE parent[b] = Len(chat) /\ Len(chat) < MaxMessages
  <2>1. /\ chat' = Append(chat, new) /\ active' = Len(chat) + 1 /\ lock' = "free"
        /\ evidence' = evidence
    BY <1>5 DEF Commit, Local, files
  <2>2. Extends(chat', chat)
    BY <1>3, <1>4, <2>1 DEF Extends
  <2>3. ChatOK'
    <3>1. IsSequence(chat)' /\ Len(chat)' \in 0..MaxMessages /\ active' \in 0..Len(chat')
          /\ active' > 0
      BY <1>3, <1>4, <1>5, <2>1
    <3>2. \A i \in 1..Len(chat)' : Publishable(chat'[i].answers)
      <4>1. Publishable(new.answers)
        BY <1>2 DEF SearchRelease
      <4> HIDE DEF new
      <4>2. \A i \in 1..Len(chat) : Publishable(chat[i].answers)
        BY DEF BuildInv, ChatOK
      <4>3. ASSUME NEW i \in 1..Len(chat)' PROVE Publishable(chat'[i].answers)
        <5>1. CASE i = Len(chat) + 1
          <6>1. chat'[i] = new
            BY <1>4, <2>1, <5>1
          <6> QED
            BY <4>1, <6>1
        <5>2. CASE i # Len(chat) + 1
          <6>1. i \in 1..Len(chat) /\ chat'[i] = chat[i]
            BY <1>3, <1>4, <2>1, <5>2
          <6> QED
            BY <4>2, <6>1
        <5> QED
          BY <5>1, <5>2
      <4> QED
        BY <4>3
    <3>3. \A e \in evidence' : e.message \in 1..Len(chat)' /\ chat'[e.message] = e.search
      <4>1. \A e \in evidence : e.message \in 1..Len(chat) /\ chat[e.message] = e.search
        BY DEF BuildInv, ChatOK
      <4> QED
        BY <1>3, <1>4, <2>1, <4>1
    <3> QED
      BY <2>1, <3>1, <3>2, <3>3 DEF ChatOK
  <2>4. /\ l.parent = Len(chat)
        /\ after.pc = "point" /\ after.mode = l.mode /\ after.parent = l.parent
        /\ after.founding = l.founding /\ after.answers = l.answers
        /\ after.transcript = l.transcript /\ after.cursor = l.cursor
        /\ after.result = [message |-> Len(chat) + 1, pointer |-> 0] /\ after.crossed = l.crossed
    BY <1>5 DEF BuildInv, Domains, Local, Commit, Go
  <2> HIDE DEF l, after, new
  <2>5. Sound(after, chat')
    <3>1. LocalTyped(after, chat')
      BY <1>1, <1>3, <1>4, <2>1, <2>4 DEF Sound, LocalTyped, Pcs, AfterPreflight, PublishedPc
    <3>2. Founded(after, chat')
      BY <1>1, <1>3, <1>4, <2>1, <2>4 DEF Sound, Founded
    <3>3. Published(after, chat')
      BY <1>3, <1>4, <2>1, <2>4 DEF Published, PublishedPc, new
    <3>4. Replayed(after)
      BY <1>1, <1>2, <2>4 DEF Sound, Replayed, Consumed, Played, AfterPreflight, PublishedPc
    <3> QED
      BY <3>1, <3>2, <3>3, <3>4 DEF Sound
  <2> QED
    BY <2>2, <2>3, <2>5, BuildStore DEF after, Step
<1>6. CASE ~(parent[b] = Len(chat) /\ Len(chat) < MaxMessages)
  <2>1. chat' = chat /\ active' = active /\ lock' = "free" /\ evidence' = evidence
    BY <1>6 DEF Commit, files
  <2>2. ChatOK' /\ Extends(chat', chat)
    BY <2>1 DEF BuildInv, ChatOK, Extends
  <2>3. /\ after.pc = "refused" /\ after.mode = l.mode /\ after.parent = l.parent
        /\ after.founding = l.founding /\ after.answers = l.answers
        /\ after.transcript = l.transcript /\ after.cursor = l.cursor
        /\ after.result = l.result /\ after.crossed = l.crossed
    BY <1>6 DEF BuildInv, Domains, Local, Commit, Go
  <2> HIDE DEF l, after, new
  <2>4. Sound(after, chat)
    <3>1. LocalTyped(after, chat)
      BY <1>1, <2>3 DEF Sound, LocalTyped, Pcs
    <3>2. Founded(after, chat)
      BY <1>1, <2>3 DEF Sound, Founded
    <3>3. Published(after, chat)
      BY <1>1, <1>2, <2>3 DEF Sound, Published, PublishedPc
    <3>4. Replayed(after)
      BY <1>1, <1>2, <2>3
      DEF Sound, Replayed, Published, Consumed, Played, AfterPreflight, PublishedPc
    <3> QED
      BY <3>1, <3>2, <3>3, <3>4 DEF Sound
  <2> QED
    BY <2>1, <2>2, <2>4, BuildStore DEF after, Step
<1> QED
  BY <1>5, <1>6

(* What the unlocked pointer is, the result names; the message stays.      *)
LEMMA ReadPointerKeeps ==
  ASSUME BuildInv, NEW b \in Builder, ReadPointer(b)
  PROVE  BuildInv'
<1> DEFINE l == Local(b)
           after == Local(b)'
<1>1. Sound(l, chat) /\ active \in 0..Len(chat)
  BY DEF BuildInv, ChatOK
<1>2. /\ l.pc = "point"
      /\ after.pc = "file" /\ after.mode = l.mode /\ after.parent = l.parent
      /\ after.founding = l.founding /\ after.answers = l.answers
      /\ after.transcript = l.transcript /\ after.cursor = l.cursor
      /\ after.result = [l.result EXCEPT !.pointer = active]
      /\ after.crossed = l.crossed
  BY DEF BuildInv, Domains, Local, ReadPointer, Go, At
<1> HIDE DEF l, after
<1>3. /\ after.result \in [message : 0..Len(chat), pointer : 0..Len(chat)]
      /\ after.result.message = l.result.message
  BY <1>1, <1>2 DEF Sound, LocalTyped
<1>4. LocalTyped(after, chat)
  BY <1>1, <1>2, <1>3 DEF Sound, LocalTyped, Pcs, AfterPreflight, PublishedPc
<1>5. Founded(after, chat)
  BY <1>1, <1>2 DEF Sound, Founded
<1>6. Published(after, chat)
  BY <1>1, <1>2, <1>3 DEF Sound, Published, PublishedPc
<1>7. Replayed(after)
  BY <1>1, <1>2, <1>3 DEF Sound, Published, Replayed, Consumed, Played, AfterPreflight,
                          PublishedPc
<1> QED
  BY <1>4, <1>5, <1>6, <1>7, QuietBuild DEF after, Sound, Step, ReadPointer, store, files

(* A build that filed goes on, with its message, to a later place.         *)
LEMMA FiledSound ==
  ASSUME NEW l, NEW after, NEW ch, Sound(l, ch), l.result.message > 0,
         after.pc \in {"reconcile", "done", "refused"}, after.mode = l.mode,
         after.parent = l.parent, after.founding = l.founding, after.answers = l.answers,
         after.transcript = l.transcript, after.cursor = l.cursor,
         after.result = l.result, after.crossed = l.crossed
  PROVE  Sound(after, ch)
<1>1. LocalTyped(after, ch)
  BY DEF Sound, LocalTyped, Pcs, AfterPreflight, PublishedPc
<1>2. Founded(after, ch)
  BY DEF Sound, Founded
<1>3. Published(after, ch)
  BY DEF Sound, Published, PublishedPc
<1>4. Replayed(after)
  BY DEF Sound, Replayed, Consumed, Played, AfterPreflight, PublishedPc
<1> QED
  BY <1>1, <1>2, <1>3, <1>4 DEF Sound

(* The evidence is of the search whose message it names.                   *)
LEMMA FileEvidenceKeeps ==
  ASSUME BuildInv, NEW b \in Builder, FileEvidence(b)
  PROVE  BuildInv'
<1> DEFINE l == Local(b)
           after == Local(b)'
<1>1. Sound(l, chat)
  BY DEF BuildInv
<1>2. /\ l.pc = "file"
      /\ after.pc \in {"reconcile", "done"} /\ after.mode = l.mode
      /\ after.parent = l.parent
      /\ after.founding = l.founding /\ after.answers = l.answers
      /\ after.transcript = l.transcript /\ after.cursor = l.cursor
      /\ after.result = l.result /\ after.crossed = l.crossed
  BY DEF BuildInv, Domains, Local, FileEvidence, Go, At
<1>3. /\ evidence' = evidence \cup
           {[message |-> l.result.message, search |-> SearchRelease(l.founding, l.answers)]}
      /\ UNCHANGED store
  BY DEF FileEvidence, Local
<1> HIDE DEF l, after
<1>4. /\ l.result.message > 0 /\ l.result.message \in 0..Len(chat)
      /\ chat[l.result.message] = SearchRelease(l.founding, l.answers)
  BY <1>1, <1>2 DEF Sound, LocalTyped, Published, PublishedPc
<1>5. Sound(after, chat)
  BY <1>1, <1>2, <1>4, FiledSound
<1>6. ChatOK'
  <2>1. \A e \in evidence' : e.message \in 1..Len(chat) /\ chat[e.message] = e.search
    BY <1>3, <1>4 DEF BuildInv, ChatOK
  <2> QED
    BY <1>3, <2>1 DEF BuildInv, ChatOK, store
<1>7. chat' = chat /\ Extends(chat', chat)
  BY <1>3 DEF BuildInv, ChatOK, Extends, store
<1> QED
  BY <1>5, <1>6, <1>7, BuildStore DEF after, Step

(* The replay's provenance is filed, or refused.                           *)
LEMMA FileProvenanceKeeps ==
  ASSUME BuildInv, NEW b \in Builder, FileProvenance(b)
  PROVE  BuildInv'
<1> DEFINE l == Local(b)
           after == Local(b)'
<1>1. Sound(l, chat)
  BY DEF BuildInv
<1>2. /\ l.pc = "reconcile"
      /\ after.pc \in {"done", "refused"} /\ after.mode = l.mode
      /\ after.parent = l.parent
      /\ after.founding = l.founding /\ after.answers = l.answers
      /\ after.transcript = l.transcript /\ after.cursor = l.cursor
      /\ after.result = l.result /\ after.crossed = l.crossed
  BY DEF BuildInv, Domains, Local, FileProvenance, Go, At
<1> HIDE DEF l, after
<1>3. l.result.message > 0
  BY <1>1, <1>2 DEF Sound, Published, PublishedPc
<1>4. Sound(after, chat)
  BY <1>1, <1>2, <1>3, FiledSound
<1> QED
  BY <1>4, QuietBuild DEF after, Step, FileProvenance, store

-----------------------------------------------------------------------------
(* The invariant, and what follows from it.                                *)

LEMMA FactoryInitSound == ASSUME ServiceAssumption, FactoryInit PROVE BuildInv
<1>1. <<>> \in Seq(Answer) /\ IsSequence(<<>>) /\ Len(<<>>) = 0
  BY EmptySeq DEF IsSequence
<1>2. ChatOK
  BY <1>1 DEF FactoryInit, ChatOK, ServiceAssumption
<1>3. Domains
  BY DEF FactoryInit, Domains
<1>4. ASSUME NEW b \in Builder PROVE Sound(Local(b), chat)
  <2> DEFINE l == Local(b)
  <2>1. l = [pc |-> "idle", mode |-> "callbacks", parent |-> 0, founding |-> Seed,
             answers |-> <<>>, transcript |-> <<>>, cursor |-> 0,
             result |-> [message |-> 0, pointer |-> 0], crossed |-> FALSE]
    BY <1>4 DEF FactoryInit, Local
  <2>2. LocalTyped(l, chat)
    BY <1>1, <2>1 DEF FactoryInit, LocalTyped, Pcs
  <2>3. Founded(l, chat)
    BY <2>1 DEF Founded
  <2>4. Published(l, chat)
    BY <2>1 DEF Published, PublishedPc
  <2>5. Replayed(l)
    BY <2>1 DEF Replayed
  <2> QED
    BY <2>2, <2>3, <2>4, <2>5 DEF Sound
<1> QED
  BY <1>2, <1>3, <1>4 DEF BuildInv

LEMMA BuildKeeps == ASSUME ServiceAssumption, BuildInv, [FactoryNext]_factoryVars PROVE BuildInv'
<1>1. CASE FactoryNext
  <2>1. PICK b \in Builder : Step(b)
    BY <1>1 DEF FactoryNext
  <2>2. CASE Begin(b)
    BY <2>2, BeginKeeps
  <2>3. CASE RefuseAuthority(b) \/ RefuseRow(b)
    BY <2>1, <2>3, StopKeeps DEF RefuseAuthority, RefuseRow, At
  <2>4. CASE SearchStep(b)
    BY <2>4, SearchStepKeeps
  <2>5. CASE ReplayStep(b)
    BY <2>5, ReplayStepKeeps
  <2>6. CASE PreflightEnds(b)
    BY <2>6, PreflightEndsKeeps
  <2>7. CASE SearchEnds(b)
    BY <2>7, SearchEndsKeeps
  <2>8. CASE EnterStore(b)
    BY <2>8, EnterStoreKeeps
  <2>9. CASE WalkLog(b)
    BY <2>9, WalkLogKeeps
  <2>10. CASE Commit(b)
    BY <2>10, CommitKeeps
  <2>11. CASE ReadPointer(b)
    BY <2>11, ReadPointerKeeps
  <2>12. CASE FileEvidence(b)
    BY <2>12, FileEvidenceKeeps
  <2>13. CASE FileProvenance(b)
    BY <2>13, FileProvenanceKeeps
  <2> QED
    BY <2>1, <2>2, <2>3, <2>4, <2>5, <2>6, <2>7, <2>8, <2>9, <2>10, <2>11, <2>12, <2>13
    DEF Step
<1>2. CASE UNCHANGED factoryVars
  BY <1>2 DEF factoryVars, BuildInv, ChatOK, Domains, Local
<1> QED
  BY <1>1, <1>2

(* The service's state is always one that its builders can go on from:     *)
(* chat, locks, and every builder's search, transcript and result.         *)
THEOREM BuildInvariant == ASSUME ServiceAssumption PROVE FactorySpec => []BuildInv
<1>1. FactoryInit => BuildInv
  BY FactoryInitSound
<1>2. BuildInv /\ [FactoryNext]_factoryVars => BuildInv'
  BY BuildKeeps
<1> QED
  BY <1>1, <1>2, PTL DEF FactorySpec

(* The type invariant of the service.                                      *)
THEOREM BuildTypeCorrect == ASSUME ServiceAssumption PROVE FactorySpec => []FactoryTypeOK
<1>1. BuildInv => FactoryTypeOK
  <2> SUFFICES ASSUME BuildInv PROVE FactoryTypeOK
    OBVIOUS
  <2>1. Len(chat) <= MaxMessages /\ active \in 0..Len(chat) /\ lock \in Builder \cup {"free"}
    BY DEF BuildInv, ChatOK, ServiceAssumption
  <2>2. ASSUME NEW b \in Builder
        PROVE  /\ pc[b] \in Pcs /\ mode[b] \in {"callbacks", "replay"}
               /\ parent[b] \in 0..MaxMessages /\ answers[b] \in Seq(Answer)
               /\ cursor[b] \in 0..Len(transcript[b])
               /\ result[b].message \in 0..MaxMessages
               /\ result[b].pointer \in 0..MaxMessages
    <3>1. LocalTyped(Local(b), chat) /\ Len(chat) \in 0..MaxMessages /\ MaxMessages \in Nat
      BY <2>2 DEF BuildInv, ChatOK, Sound, ServiceAssumption
    <3> QED
      BY <3>1 DEF LocalTyped, Local
  <2> QED
    BY <2>1, <2>2 DEF FactoryTypeOK, Pcs, AfterPreflight, PublishedPc
<1> QED
  BY <1>1, BuildInvariant, PTL

(* What a build publishes and files is what its own search found, and what *)
(* it replayed: build_harness_factory_release and its _from_replay.        *)
THEOREM BuildsHold == ASSUME ServiceAssumption PROVE FactorySpec => []BuildsAreTraceable
<1>1. BuildInv => BuildsAreTraceable
  <2> SUFFICES ASSUME BuildInv PROVE MessagesAreFounded /\ ReplayIsExact
    BY DEF BuildsAreTraceable
  <2>1. \A b \in Builder : Sound(Local(b), chat)
    BY DEF BuildInv
  <2>2. MessagesAreFounded
    <3>1. DOMAIN chat = 1..Len(chat)
      BY SequenceFacts DEF BuildInv, ChatOK
    <3>2. ASSUME NEW b \in Builder, ~crossed[b]
          PROVE  founding[b] = IF parent[b] = 0 THEN Seed ELSE chat[parent[b]]
      BY <2>1, <3>2 DEF Sound, Founded, Local
    <3> QED
      BY <3>1, <3>2 DEF BuildInv, ChatOK, MessagesAreFounded
  <2>3. ReplayIsExact
    <3> SUFFICES ASSUME NEW b \in Builder, mode[b] = "replay", result[b].message > 0
                 PROVE  transcript[b] = Recorded(founding[b], chat[result[b].message].answers)
      BY DEF ReplayIsExact
    <3> DEFINE row(i) == [request |-> Request(founding[b], SubSeq(answers[b], 1, i - 1)),
                          answer |-> answers[b][i]]
    <3>1. /\ IsSequence(transcript[b]) /\ answers[b] \in Seq(Answer)
          /\ Len(answers[b]) = Length /\ Len(transcript[b]) = Length
          /\ \A i \in 1..Len(answers[b]) : transcript[b][i] = row(i)
          /\ chat[result[b].message] = SearchRelease(founding[b], answers[b])
      BY <2>1 DEF Sound, LocalTyped, Published, Replayed, Consumed, Played, Local
    <3>2. chat[result[b].message].answers = answers[b]
      BY <3>1 DEF SearchRelease
    <3>3. DOMAIN answers[b] = 1..Length /\ DOMAIN transcript[b] = 1..Length
      BY <3>1, SequenceFacts, LenProperties
    <3>4. PICK S : transcript[b] \in Seq(S)
      BY <3>1 DEF IsSequence
    <3>5. transcript[b] = [i \in 1..Length |-> transcript[b][i]]
      BY <3>1, <3>4, LenProperties
    <3>6. transcript[b] = [i \in DOMAIN answers[b] |-> row(i)]
      BY <3>1, <3>3, <3>5
    <3> QED
      BY <3>2, <3>6 DEF Recorded
  <2> QED
    BY <2>2, <2>3
<1> QED
  BY <1>1, BuildInvariant, PTL

-----------------------------------------------------------------------------
(***************************************************************************)
(* What holds of isolated evaluations for every set of evaluators, pieces  *)
(* of evidence, releases and commands, with evaluators killed at any step  *)
(* (evaluation/harness_service.py, storage/proof_records.py).              *)
(*                                                                         *)
(* What an evaluator has in hand carries its own history (InHand): whether *)
(* the public verification agreed, that its release was active, and which  *)
(* outcomes it knew. What it may rely on in the store (Sees) rests on the  *)
(* lock file: a killed evaluator leaves it behind, so whoever is in the    *)
(* store made the lock, and only who opened a record or a link fills it.   *)
(***************************************************************************)

(* The inductive invariant.                                                *)

WorkType ==
  [evidence : Evidence \union {None}, done : Nat, public : BOOLEAN, sealed : BOOLEAN,
   launched : BOOLEAN, clean : BOOLEAN, receipt : Receipt \union {None},
   known : SUBSET Evidence, active : SUBSET Release]

(* How far an evaluation is.                                               *)
StoreStages == {"record", "fill", "link", "filllink", "unlock", "drop"}
Issued == StoreStages \union {"lock", "answer"}
Scanned == Issued \union {"issue"}
Confirmed == Scanned \union {"rescan"}
Judged == Confirmed \union {"confirm"}
Prepared == Judged \union {"bind", "copy", "apply", "commands", "judge"}

(* No other outcome of the candidate was known.                            *)
FirstOf(ev, known) == \A x \in known : x # ev => x.candidate # ev.candidate

InHand(s, w) ==
  /\ s \in Prepared => w.evidence \in Evidence /\ w.evidence.sound
  /\ s \in {"bind", "copy", "apply"} => w.clean /\ w.done = 0
  /\ s = "commands" => w.clean /\ w.done < Commands
  /\ s \in Judged => w.public = w.evidence.passed
  /\ s \in Confirmed => w.evidence.release \in w.active
  /\ s \in Scanned => FirstOf(w.evidence, w.known)
  /\ s \in Issued =>
       /\ w.receipt \in Receipt /\ w.receipt.evidence = w.evidence
       /\ w.receipt.repaired => w.evidence.passed

Sees(e, s, w, o) ==
  /\ s = "confirm" => pointer \in w.active
  /\ s \in {"confirm", "rescan"} => w.known \subseteq Filed
  /\ s \in StoreStages => locked = e
  /\ s = "fill" => records[w.evidence] = Torn
  /\ s \in {"link", "filllink"} => records[w.evidence] = w.receipt
  /\ s \in {"unlock", "answer"} => w.receipt \in links
  /\ o # None => o \in links

Typed ==
  /\ pointer \in Release /\ source \in BOOLEAN
  /\ records \in [Evidence -> Receipt \union {None, Torn}]
  /\ links \subseteq Receipt /\ tornLinks \subseteq Receipt
  /\ locked \in Evaluator \union {None}
  /\ stage \in [Evaluator -> Stages]
  /\ work \in [Evaluator -> WorkType]
  /\ outcome \in [Evaluator -> Receipt \union {None}]
  /\ basis \in [Evidence -> [known : SUBSET Evidence, active : SUBSET Release]]

(* A filed outcome is the run's own, of a release that was active, and the *)
(* first of its candidate as far as its evaluator knew.                    *)
RecordsSound ==
  \A ev \in Filed :
    /\ records[ev].repaired => ev.passed
    /\ ev.sound /\ ev.release \in basis[ev].active
    /\ FirstOf(ev, basis[ev].known)

StoreInv == Typed /\ LinksResolve /\ RecordsSound

EvaluationInv ==
  /\ StoreInv
  /\ \A e \in Evaluator : InHand(stage[e], work[e]) /\ Sees(e, stage[e], work[e], outcome[e])

-----------------------------------------------------------------------------
(* Steps of an evaluator outside of the store.                             *)

LEMMA QuietStep ==
  ASSUME EvaluationInv, NEW e \in Evaluator,
         NEW s \in Stages, NEW w \in WorkType, NEW o \in Receipt \union {None},
         stage' = [stage EXCEPT ![e] = s], work' = [work EXCEPT ![e] = w],
         outcome' = [outcome EXCEPT ![e] = o],
         UNCHANGED <<World, Store>>, InHand(s, w), Sees(e, s, w, o)
  PROVE  EvaluationInv'
<1> USE DEF World, Store
<1>1. StoreInv'
  BY DEF EvaluationInv, StoreInv, Typed, LinksResolve, RecordsSound, Filed
<1>2. ASSUME NEW f \in Evaluator
      PROVE  InHand(stage'[f], work'[f]) /\ Sees(f, stage[f], work[f], outcome[f])'
  <2>1. CASE f = e
    <3>1. stage'[f] = s /\ work'[f] = w /\ outcome'[f] = o
      BY <2>1 DEF EvaluationInv, StoreInv, Typed
    <3> QED
      BY <2>1, <3>1 DEF Sees, Filed
  <2>2. CASE f # e
    <3>1. stage'[f] = stage[f] /\ work'[f] = work[f] /\ outcome'[f] = outcome[f]
      BY <2>2 DEF EvaluationInv, StoreInv, Typed
    <3>2. InHand(stage[f], work[f]) /\ Sees(f, stage[f], work[f], outcome[f])
      BY DEF EvaluationInv
    <3> QED
      BY <3>1, <3>2 DEF Sees, Filed
  <2> QED
    BY <2>1, <2>2
<1> QED
  BY <1>1, <1>2 DEF EvaluationInv

(* An evaluation that ends has nothing in hand and answered nothing.       *)
LEMMA IdleTyped == Idle \in WorkType
BY DEF Idle, WorkType

LEMMA EndKeeps ==
  ASSUME EvaluationInv, NEW e \in Evaluator, NEW s \in {"idle", "killed"},
         stage' = [stage EXCEPT ![e] = s], work' = [work EXCEPT ![e] = Idle],
         outcome' = [outcome EXCEPT ![e] = None],
         UNCHANGED <<World, Store>>
  PROVE  EvaluationInv'
<1>1. InHand(s, Idle)
  BY DEF InHand, Prepared, Judged, Confirmed, Scanned, Issued, StoreStages
<1>2. Sees(e, s, Idle, None)
  BY DEF Sees, StoreStages
<1>3. s \in Stages /\ None \in Receipt \union {None}
  BY DEF Stages
<1> HIDE DEF Idle
<1> QED
  BY <1>1, <1>2, <1>3, IdleTyped, QuietStep

LEMMA RefuseKeeps ==
  ASSUME EvaluationInv, NEW e \in Evaluator, Refuse(e), UNCHANGED <<World, Store>>
  PROVE  EvaluationInv'
BY EndKeeps DEF Refuse, Goes

(* A step that only goes on.                                               *)
LEMMA GoesKeeps ==
  ASSUME EvaluationInv, NEW e \in Evaluator, NEW s \in Stages, Goes(e, s),
         UNCHANGED <<work, outcome>>, UNCHANGED <<World, Store>>,
         InHand(s, work[e]), Sees(e, s, work[e], outcome[e])
  PROVE  EvaluationInv'
<1>1. /\ work[e] \in WorkType /\ outcome[e] \in Receipt \union {None}
      /\ work' = [work EXCEPT ![e] = work[e]]
      /\ outcome' = [outcome EXCEPT ![e] = outcome[e]]
  BY DEF EvaluationInv, StoreInv, Typed
<1> QED
  BY <1>1, QuietStep DEF Goes

-----------------------------------------------------------------------------
(* The actions up to the store.                                            *)

LEMMA PrepareKeeps ==
  ASSUME EvaluationInv, NEW e \in Evaluator, NEW ev \in Evidence, Prepare(e, ev)
  PROVE  EvaluationInv'
<1> DEFINE w == [Idle EXCEPT !.evidence = ev]
<1>1. /\ w \in WorkType /\ w.evidence = ev /\ w.clean = TRUE /\ w.done = 0
  BY DEF Idle, WorkType
<1>2. /\ outcome[e] \in Receipt \union {None} /\ outcome' = [outcome EXCEPT ![e] = outcome[e]]
      /\ outcome[e] # None => outcome[e] \in links
  BY DEF EvaluationInv, StoreInv, Typed, Prepare, Sees
<1>3. ev.sound /\ stage' = [stage EXCEPT ![e] = "bind"] /\ work' = [work EXCEPT ![e] = w]
  BY DEF Prepare, BoundTo, Goes
<1> HIDE DEF w
<1>4. InHand("bind", w)
  BY <1>1, <1>3 DEF InHand, Judged, Confirmed, Scanned, Issued, StoreStages
<1>5. Sees(e, "bind", w, outcome[e]) /\ "bind" \in Stages
  BY <1>2 DEF Sees, StoreStages, Stages
<1> QED
  BY <1>1, <1>2, <1>3, <1>4, <1>5, QuietStep DEF Prepare

(* Where a step finds what it has in hand, and what it sees.               *)
LEMMA AtHand ==
  ASSUME EvaluationInv, NEW e \in Evaluator
  PROVE  /\ work[e] \in WorkType /\ stage[e] \in Stages /\ outcome[e] \in Receipt \union {None}
         /\ InHand(stage[e], work[e]) /\ Sees(e, stage[e], work[e], outcome[e])
BY DEF EvaluationInv, StoreInv, Typed

LEMMA FirstScanKeeps ==
  ASSUME EvaluationInv, NEW e \in Evaluator, FirstScan(e)
  PROVE  EvaluationInv'
<1>1. CASE Readable /\ Unfiled(work[e].evidence)
  <2>1. stage[e] = "bind" /\ InHand("copy", work[e])
    BY AtHand DEF FirstScan, Scan, InHand, Prepared, Judged, Confirmed, Scanned, Issued,
                  StoreStages
  <2>2. Sees(e, "copy", work[e], outcome[e]) /\ "copy" \in Stages
    BY AtHand, <2>1 DEF Sees, StoreStages, Stages
  <2> QED
    BY <1>1, <2>1, <2>2, GoesKeeps DEF FirstScan, Scan
<1>2. CASE ~(Readable /\ Unfiled(work[e].evidence))
  BY <1>2, RefuseKeeps DEF FirstScan, Scan
<1> QED
  BY <1>1, <1>2

LEMMA CopyKeeps ==
  ASSUME EvaluationInv, NEW e \in Evaluator, Copy(e)
  PROVE  EvaluationInv'
<1>1. CASE source
  <2>1. stage[e] = "copy" /\ InHand("apply", work[e])
    BY AtHand DEF Copy, InHand, Prepared, Judged, Confirmed, Scanned, Issued, StoreStages
  <2>2. Sees(e, "apply", work[e], outcome[e]) /\ "apply" \in Stages
    BY AtHand, <2>1 DEF Sees, StoreStages, Stages
  <2> QED
    BY <1>1, <2>1, <2>2, GoesKeeps DEF Copy
<1>2. CASE ~source
  BY <1>2, RefuseKeeps DEF Copy
<1> QED
  BY <1>1, <1>2

LEMMA ApplyPatchKeeps ==
  ASSUME EvaluationAssumption, EvaluationInv, NEW e \in Evaluator, ApplyPatch(e)
  PROVE  EvaluationInv'
<1> DEFINE s == IF Commands = 0 THEN "judge" ELSE "commands"
<1>1. CASE Goes(e, s) /\ UNCHANGED <<work, outcome>>
  <2>1. Commands \in Nat
    BY DEF EvaluationAssumption, Commands
  <2>2. stage[e] = "apply" /\ work[e].clean /\ work[e].done = 0
        /\ work[e].evidence \in Evidence /\ work[e].evidence.sound
    BY AtHand DEF ApplyPatch, InHand, Prepared
  <2> HIDE DEF Commands
  <2>3. InHand(s, work[e])
    BY <2>1, <2>2 DEF InHand, Judged, Confirmed, Scanned, Issued, StoreStages
  <2>4. Sees(e, s, work[e], outcome[e]) /\ s \in Stages
    BY AtHand, <2>2 DEF Sees, StoreStages, Stages
  <2> QED
    BY <1>1, <2>3, <2>4, GoesKeeps DEF ApplyPatch
<1>2. CASE Refuse(e)
  BY <1>2, RefuseKeeps DEF ApplyPatch
<1> QED
  BY <1>1, <1>2 DEF ApplyPatch

(* A command is followed by the next one only in the copy as it was made.  *)
LEMMA RunCommandKeeps ==
  ASSUME EvaluationAssumption, EvaluationInv, NEW e \in Evaluator, NEW ran,
         NEW drift \in BOOLEAN, RunCommand(e, ran, drift)
  PROVE  EvaluationInv'
<1> DEFINE v == work[e]
           passed == ran = "pass"
           isPublic == v.done < Public
           pub == v.public /\ (isPublic => passed)
           seal == v.sealed /\ (isPublic \/ passed)
           started == v.launched /\ ran # "launch_failed"
           clean == v.clean /\ ~drift /\ source
           w == [v EXCEPT !.done = @ + 1, !.public = pub, !.sealed = seal,
                          !.launched = started, !.clean = clean]
           s == IF GoesOn(v, drift) THEN "commands" ELSE "judge"
<1>1. /\ stage[e] = "commands" /\ v.clean /\ v.done < Commands
      /\ v.evidence \in Evidence /\ v.evidence.sound
      /\ v \in WorkType
  BY AtHand DEF RunCommand, InHand, Prepared
<1>2. /\ stage' = [stage EXCEPT ![e] = s] /\ work' = [work EXCEPT ![e] = w]
      /\ outcome' = outcome /\ UNCHANGED <<World, Store>>
  BY DEF RunCommand, Goes
<1>3. outcome' = [outcome EXCEPT ![e] = outcome[e]]
  BY <1>2 DEF EvaluationInv, StoreInv, Typed
<1>4. pub \in BOOLEAN /\ seal \in BOOLEAN /\ started \in BOOLEAN /\ clean \in BOOLEAN
  OBVIOUS
<1> HIDE DEF v, pub, seal, started, clean
<1>5. w \in WorkType
  <2> DEFINE w1 == [v EXCEPT !.done = v.done + 1]
             w2 == [w1 EXCEPT !.public = pub]
             w3 == [w2 EXCEPT !.sealed = seal]
             w4 == [w3 EXCEPT !.launched = started]
             w5 == [w4 EXCEPT !.clean = clean]
  <2>1. w1 \in WorkType
    BY <1>1 DEF WorkType
  <2>2. w2 \in WorkType
    <3> HIDE DEF w1
    <3> QED
      BY <1>4, <2>1 DEF WorkType
  <2>3. w3 \in WorkType
    <3> HIDE DEF w2
    <3> QED
      BY <1>4, <2>2 DEF WorkType
  <2>4. w4 \in WorkType
    <3> HIDE DEF w3
    <3> QED
      BY <1>4, <2>3 DEF WorkType
  <2>5. w5 \in WorkType
    <3> HIDE DEF w4
    <3> QED
      BY <1>4, <2>4 DEF WorkType
  <2>6. w = w5
    OBVIOUS
  <2> QED
    BY <2>5, <2>6
<1>6. w.evidence = v.evidence /\ w.done = v.done + 1 /\ w.clean = clean
  BY <1>1, <1>4 DEF WorkType
<1> HIDE DEF w
<1>7. s = "commands" => w.clean /\ w.done < Commands
  BY <1>1, <1>6 DEF GoesOn, clean
<1>8. s \in {"commands", "judge"} /\ s \in Stages
  BY DEF Stages
<1> HIDE DEF s
<1>9. InHand(s, w)
  BY <1>1, <1>6, <1>7, <1>8 DEF InHand, Judged, Confirmed, Scanned, Issued, StoreStages
<1>10. Sees(e, s, w, outcome[e]) /\ outcome[e] \in Receipt \union {None}
  BY AtHand, <1>8 DEF Sees, StoreStages
<1> QED
  BY <1>2, <1>3, <1>5, <1>8, <1>9, <1>10, QuietStep

(* What is accepted says of the run's public verification what the         *)
(* evidence says; the outcomes on file by now are the ones it knows.       *)
LEMMA JudgeKeeps ==
  ASSUME EvaluationInv, NEW e \in Evaluator, Judge(e)
  PROVE  EvaluationInv'
<1>1. CASE source /\ Accepted(work[e])
  <2> DEFINE v == work[e]
             w == [v EXCEPT !.known = Filed, !.active = {pointer}]
  <2>1. /\ v \in WorkType /\ stage[e] = "judge" /\ v.evidence \in Evidence /\ v.evidence.sound
        /\ v.public = v.evidence.passed
    BY <1>1, AtHand DEF Judge, InHand, Prepared, Accepted
  <2>2. /\ stage' = [stage EXCEPT ![e] = "confirm"] /\ work' = [work EXCEPT ![e] = w]
        /\ outcome' = outcome /\ UNCHANGED <<World, Store>>
    BY <1>1 DEF Judge, Goes
  <2>3. outcome' = [outcome EXCEPT ![e] = outcome[e]]
    BY <2>2 DEF EvaluationInv, StoreInv, Typed
  <2>4. Filed \subseteq Evidence /\ {pointer} \subseteq Release
    BY DEF EvaluationInv, StoreInv, Typed, Filed
  <2> HIDE DEF v
  <2>5. w \in WorkType
    BY <2>1, <2>4 DEF WorkType
  <2>6. w.evidence = v.evidence /\ w.public = v.public /\ w.known = Filed /\ w.active = {pointer}
    BY <2>1 DEF WorkType
  <2> HIDE DEF w
  <2>7. InHand("confirm", w)
    BY <2>1, <2>6 DEF InHand, Confirmed, Scanned, Issued, StoreStages
  <2>8. Sees(e, "confirm", w, outcome[e]) /\ outcome[e] \in Receipt \union {None}
    BY AtHand, <2>6 DEF Sees, StoreStages
  <2>9. "confirm" \in Stages
    BY DEF Stages
  <2> QED
    BY <2>2, <2>3, <2>5, <2>7, <2>8, <2>9, QuietStep
<1>2. CASE ~(source /\ Accepted(work[e]))
  BY <1>2, RefuseKeeps DEF Judge
<1> QED
  BY <1>1, <1>2

LEMMA ConfirmKeeps ==
  ASSUME EvaluationInv, NEW e \in Evaluator, Confirm(e)
  PROVE  EvaluationInv'
<1>1. CASE work[e].evidence.release = pointer
  <2>1. stage[e] = "confirm" /\ pointer \in work[e].active /\ work[e].known \subseteq Filed
    BY AtHand DEF Confirm, Sees
  <2>2. InHand("rescan", work[e])
    BY AtHand, <1>1, <2>1 DEF InHand, Prepared, Judged, Confirmed, Scanned, Issued, StoreStages
  <2>3. Sees(e, "rescan", work[e], outcome[e]) /\ "rescan" \in Stages
    BY AtHand, <2>1 DEF Sees, StoreStages, Stages
  <2> QED
    BY <1>1, <2>2, <2>3, GoesKeeps DEF Confirm
<1>2. CASE work[e].evidence.release # pointer
  BY <1>2, RefuseKeeps DEF Confirm
<1> QED
  BY <1>1, <1>2

(* Nothing on file is of the candidate, so nothing known is.               *)
LEMMA SecondScanKeeps ==
  ASSUME EvaluationInv, NEW e \in Evaluator, SecondScan(e)
  PROVE  EvaluationInv'
<1>1. CASE Readable /\ Unfiled(work[e].evidence)
  <2>1. stage[e] = "rescan" /\ work[e].known \subseteq Filed
    BY AtHand DEF SecondScan, Scan, Sees
  <2>2. FirstOf(work[e].evidence, work[e].known)
    BY <1>1, <2>1 DEF FirstOf, Unfiled
  <2>3. InHand("issue", work[e])
    BY AtHand, <2>1, <2>2 DEF InHand, Prepared, Judged, Confirmed, Scanned, Issued, StoreStages
  <2>4. Sees(e, "issue", work[e], outcome[e]) /\ "issue" \in Stages
    BY AtHand, <2>1 DEF Sees, StoreStages, Stages
  <2> QED
    BY <1>1, <2>3, <2>4, GoesKeeps DEF SecondScan, Scan
<1>2. CASE ~(Readable /\ Unfiled(work[e].evidence))
  BY <1>2, RefuseKeeps DEF SecondScan, Scan
<1> QED
  BY <1>1, <1>2

(* A repair is what the public commands, too, said it was.                 *)
LEMMA IssueKeeps ==
  ASSUME EvaluationInv, NEW e \in Evaluator, NEW t \in Times, Issue(e, t)
  PROVE  EvaluationInv'
<1>1. CASE work[e].launched
  <2> DEFINE v == work[e]
             fixed == v.public /\ v.sealed
             r == [evidence |-> v.evidence, repaired |-> fixed, at |-> t]
             w == [v EXCEPT !.receipt = r]
  <2>1. /\ v \in WorkType /\ stage[e] = "issue" /\ InHand("issue", v)
        /\ v.evidence \in Evidence /\ v.public = v.evidence.passed
    BY AtHand DEF Issue, InHand, Prepared, Judged, Confirmed, Scanned
  <2>2. /\ stage' = [stage EXCEPT ![e] = "lock"] /\ work' = [work EXCEPT ![e] = w]
        /\ outcome' = outcome /\ UNCHANGED <<World, Store>>
    BY <1>1 DEF Issue, Goes
  <2>3. outcome' = [outcome EXCEPT ![e] = outcome[e]]
    BY <2>2 DEF EvaluationInv, StoreInv, Typed
  <2>4. fixed \in BOOLEAN /\ (fixed => v.evidence.passed)
    BY <2>1
  <2> HIDE DEF v, fixed
  <2>5. r \in Receipt /\ r.evidence = v.evidence /\ r.repaired = fixed
    BY <2>1, <2>4 DEF Receipt
  <2> HIDE DEF r
  <2>6. /\ w \in WorkType /\ w.evidence = v.evidence /\ w.public = v.public
        /\ w.known = v.known /\ w.active = v.active /\ w.receipt = r
    BY <2>1, <2>5 DEF WorkType
  <2> HIDE DEF w
  <2>7. InHand("lock", w)
    BY <2>1, <2>4, <2>5, <2>6 DEF InHand, Prepared, Judged, Confirmed, Scanned, Issued
  <2>8. Sees(e, "lock", w, outcome[e]) /\ outcome[e] \in Receipt \union {None}
    BY AtHand DEF Sees, StoreStages
  <2>9. "lock" \in Stages
    BY DEF Stages
  <2> QED
    BY <2>2, <2>3, <2>6, <2>7, <2>8, <2>9, QuietStep
<1>2. CASE ~work[e].launched
  BY <1>2, RefuseKeeps DEF Issue
<1> QED
  BY <1>1, <1>2

(* The caller is told what the link it wrote is.                           *)
LEMMA AnswerKeeps ==
  ASSUME EvaluationInv, NEW e \in Evaluator, AnswerCaller(e)
  PROVE  EvaluationInv'
<1>1. CASE Refuse(e)
  BY <1>1, RefuseKeeps DEF AnswerCaller
<1>2. CASE /\ Goes(e, "idle") /\ work' = [work EXCEPT ![e] = Idle]
           /\ outcome' = [outcome EXCEPT ![e] = work[e].receipt]
  <2>1. stage[e] = "answer" /\ work[e].receipt \in links /\ work[e].receipt \in Receipt
    BY AtHand DEF AnswerCaller, Sees, InHand, Issued
  <2>2. InHand("idle", Idle)
    BY DEF InHand, Prepared, Judged, Confirmed, Scanned, Issued, StoreStages
  <2>3. Sees(e, "idle", Idle, work[e].receipt) /\ "idle" \in Stages
    BY <2>1 DEF Sees, StoreStages, Stages
  <2> HIDE DEF Idle
  <2> QED
    BY <1>2, <2>1, <2>2, <2>3, IdleTyped, QuietStep DEF AnswerCaller, Goes
<1> QED
  BY <1>1, <1>2 DEF AnswerCaller

-----------------------------------------------------------------------------
(* Steps in the store: nobody else is there.                               *)

LEMMA StoreStep ==
  ASSUME EvaluationInv, NEW e \in Evaluator,
         NEW s \in Stages, NEW w \in WorkType, NEW o \in Receipt \union {None},
         stage' = [stage EXCEPT ![e] = s], work' = [work EXCEPT ![e] = w],
         outcome' = [outcome EXCEPT ![e] = o],
         pointer' = pointer, links \subseteq links', Filed \subseteq Filed', StoreInv',
         \A f \in Evaluator : f # e => stage[f] \notin StoreStages,
         InHand(s, w), Sees(e, s, w, o)'
  PROVE  EvaluationInv'
<1>1. ASSUME NEW f \in Evaluator
      PROVE  InHand(stage'[f], work'[f]) /\ Sees(f, stage[f], work[f], outcome[f])'
  <2>1. CASE f = e
    <3>1. stage'[f] = s /\ work'[f] = w /\ outcome'[f] = o
      BY <2>1 DEF EvaluationInv, StoreInv, Typed
    <3> QED
      BY <2>1, <3>1 DEF Sees
  <2>2. CASE f # e
    <3>1. stage'[f] = stage[f] /\ work'[f] = work[f] /\ outcome'[f] = outcome[f]
      BY <2>2 DEF EvaluationInv, StoreInv, Typed
    <3>2. InHand(stage[f], work[f]) /\ Sees(f, stage[f], work[f], outcome[f])
      BY DEF EvaluationInv
    <3>3. stage[f] \notin StoreStages
      BY <2>2
    <3> QED
      BY <3>1, <3>2, <3>3 DEF Sees, StoreStages
  <2> QED
    BY <2>1, <2>2
<1> QED
  BY <1>1 DEF EvaluationInv

(* Whoever is in the store made the lock.                                  *)
LEMMA AloneInStore ==
  ASSUME EvaluationInv, NEW e \in Evaluator, stage[e] \in StoreStages
  PROVE  \A f \in Evaluator : f # e => stage[f] \notin StoreStages
BY AtHand DEF Sees

LEMMA LockKeeps ==
  ASSUME EvaluationAssumption, EvaluationInv, NEW e \in Evaluator, Lock(e)
  PROVE  EvaluationInv'
<1>1. CASE locked = None
  <2>1. /\ stage[e] = "lock" /\ stage' = [stage EXCEPT ![e] = "record"] /\ locked' = e
        /\ work' = work /\ outcome' = outcome
        /\ UNCHANGED <<pointer, source, records, links, tornLinks, basis>>
    BY <1>1 DEF Lock, Goes, World
  <2>2. PICK w \in WorkType, o \in Receipt \union {None} : w = work[e] /\ o = outcome[e]
    BY AtHand
  <2>3. /\ work' = [work EXCEPT ![e] = w] /\ outcome' = [outcome EXCEPT ![e] = o]
        /\ InHand("lock", w) /\ (o # None => o \in links)
    BY AtHand, <2>1, <2>2 DEF EvaluationInv, StoreInv, Typed, Sees
  <2>4. \A f \in Evaluator : f # e => stage[f] \notin StoreStages
    BY <1>1, AtHand DEF Sees, EvaluationAssumption
  <2>5. Filed' = Filed
    BY <2>1 DEF Filed
  <2>6. StoreInv'
    <3>1. Typed'
      BY <2>1 DEF EvaluationInv, StoreInv, Typed, Stages
    <3>2. LinksResolve' /\ RecordsSound'
      BY <2>1, <2>5 DEF EvaluationInv, StoreInv, LinksResolve, RecordsSound
    <3> QED
      BY <3>1, <3>2 DEF StoreInv
  <2>7. InHand("record", w)
    BY <2>3 DEF InHand, Prepared, Judged, Confirmed, Scanned, Issued, StoreStages
  <2>8. Sees(e, "record", w, o)' /\ "record" \in Stages
    BY <2>1, <2>3 DEF Sees, Stages
  <2> QED
    BY <2>1, <2>3, <2>4, <2>5, <2>6, <2>7, <2>8, StoreStep
<1>2. CASE locked # None
  BY <1>2, RefuseKeeps DEF Lock, World, Store
<1> QED
  BY <1>1, <1>2

(* Opening the record: no link is of a record that was not there.          *)
LEMMA OpenRecordKeeps ==
  ASSUME EvaluationAssumption, EvaluationInv, NEW e \in Evaluator, OpenRecord(e)
  PROVE  EvaluationInv'
<1>1. PICK w \in WorkType, o \in Receipt \union {None} : w = work[e] /\ o = outcome[e]
  BY AtHand
<1>2. /\ stage[e] = "record" /\ locked' = locked /\ work' = work /\ outcome' = outcome
      /\ UNCHANGED <<pointer, source, links, tornLinks, basis>>
  BY DEF OpenRecord, World
<1>3. /\ work' = [work EXCEPT ![e] = w] /\ outcome' = [outcome EXCEPT ![e] = o]
      /\ InHand("record", w) /\ (o # None => o \in links) /\ locked = e
      /\ w.evidence \in Evidence
  BY AtHand, <1>1, <1>2 DEF EvaluationInv, StoreInv, Typed, Sees, StoreStages, InHand,
                           Prepared, Judged, Confirmed, Scanned, Issued
<1>4. \A f \in Evaluator : f # e => stage[f] \notin StoreStages
  BY <1>2, AloneInStore DEF StoreStages
<1>5. \A s \in {"fill", "link", "drop"} : InHand(s, w) /\ s \in Stages
  BY <1>3 DEF InHand, Prepared, Judged, Confirmed, Scanned, Issued, StoreStages, Stages
<1>6. CASE records[w.evidence] = None
  <2> w.receipt \in Receipt /\ None \notin Receipt
    BY <1>3 DEF InHand, Issued, StoreStages, EvaluationAssumption
  <2>1. /\ records' = [records EXCEPT ![w.evidence] = Torn]
        /\ stage' = [stage EXCEPT ![e] = "fill"]
    BY <1>1, <1>6 DEF OpenRecord, Goes
  <2>2. /\ records \in [Evidence -> Receipt \union {None, Torn}]
        /\ links \union tornLinks \subseteq Receipt
    BY DEF EvaluationInv, StoreInv, Typed
  <2>3. None \notin Receipt /\ Torn \notin Receipt
    BY DEF EvaluationAssumption
  <2>4. Filed' = Filed
    BY <1>3, <1>6, <2>1, <2>2, <2>3 DEF Filed
  <2>5. Typed'
    BY <1>2, <1>3, <2>1 DEF EvaluationInv, StoreInv, Typed, Stages
  <2>6. LinksResolve'
    <3>1. ASSUME NEW r \in links \union tornLinks PROVE records'[r.evidence] = r
      <4>1. r \in Receipt /\ r.evidence \in Evidence /\ records[r.evidence] = r
        BY <2>2 DEF EvaluationInv, StoreInv, LinksResolve, Receipt
      <4>2. r.evidence # w.evidence
        BY <1>6, <2>3, <4>1
      <4> QED
        BY <2>1, <2>2, <4>1, <4>2
    <3> QED
      BY <1>2, <3>1 DEF LinksResolve, EvaluationInv, StoreInv
  <2>7. RecordsSound'
    <3>1. ASSUME NEW ev \in Filed PROVE records'[ev] = records[ev]
      BY <1>6, <2>1, <2>2, <2>3 DEF Filed
    <3> QED
      BY <1>2, <2>4, <3>1 DEF EvaluationInv, StoreInv, RecordsSound
  <2>8. Sees(e, "fill", w, o)'
    BY <1>2, <1>3, <2>1, <2>2 DEF Sees
  <2> QED
    BY <1>2, <1>3, <1>4, <1>5, <2>1, <2>4, <2>5, <2>6, <2>7, <2>8, StoreStep DEF StoreInv
<1>7. ASSUME records' = records, NEW s \in {"link", "drop"}, stage' = [stage EXCEPT ![e] = s],
             s = "link" => records[w.evidence] = w.receipt
      PROVE  EvaluationInv'
  <2>1. Filed' = Filed
    BY <1>7 DEF Filed
  <2>2. Typed'
    BY <1>2, <1>5, <1>7 DEF EvaluationInv, StoreInv, Typed
  <2>3. LinksResolve' /\ RecordsSound'
    BY <1>2, <1>7, <2>1 DEF EvaluationInv, StoreInv, LinksResolve, RecordsSound
  <2>4. Sees(e, s, w, o)'
    BY <1>2, <1>3, <1>7 DEF Sees
  <2> QED
    BY <1>2, <1>3, <1>4, <1>5, <1>7, <2>1, <2>2, <2>3, <2>4, StoreStep DEF StoreInv
<1>8. CASE records[w.evidence] # None /\ records[w.evidence] = w.receipt
  <2>1. records' = records /\ stage' = [stage EXCEPT ![e] = "link"]
    BY <1>1, <1>8 DEF OpenRecord, Goes
  <2> QED
    BY <1>7, <1>8, <2>1
<1>9. CASE records[w.evidence] # None /\ records[w.evidence] # w.receipt
  <2>1. records' = records /\ stage' = [stage EXCEPT ![e] = "drop"]
    BY <1>1, <1>9 DEF OpenRecord, Goes
  <2> QED
    BY <1>7, <2>1
<1> QED
  BY <1>6, <1>8, <1>9

(* Filling it: nothing but what is in hand, with what was known of it.     *)
LEMMA FillRecordKeeps ==
  ASSUME EvaluationAssumption, EvaluationInv, NEW e \in Evaluator, FillRecord(e)
  PROVE  EvaluationInv'
<1>1. PICK w \in WorkType, o \in Receipt \union {None} : w = work[e] /\ o = outcome[e]
  BY AtHand
<1>2. /\ stage[e] = "fill" /\ locked' = locked /\ work' = work /\ outcome' = outcome
      /\ UNCHANGED <<pointer, source, links, tornLinks>>
      /\ records' = [records EXCEPT ![w.evidence] = w.receipt]
      /\ basis' = [basis EXCEPT ![w.evidence] = [known |-> w.known, active |-> w.active]]
  BY <1>1 DEF FillRecord, World
<1> PICK s \in {"link", "drop"} : stage' = [stage EXCEPT ![e] = s]
  BY DEF FillRecord, Goes
<1>3. /\ work' = [work EXCEPT ![e] = w] /\ outcome' = [outcome EXCEPT ![e] = o]
      /\ InHand("fill", w) /\ (o # None => o \in links) /\ locked = e
      /\ records[w.evidence] = Torn
  BY AtHand, <1>1, <1>2 DEF EvaluationInv, StoreInv, Typed, Sees, StoreStages
<1>4. /\ w.evidence \in Evidence /\ w.evidence.sound
      /\ w.evidence.release \in w.active /\ FirstOf(w.evidence, w.known)
      /\ w.receipt \in Receipt /\ (w.receipt.repaired => w.evidence.passed)
      /\ w.known \in SUBSET Evidence /\ w.active \in SUBSET Release
  BY <1>3 DEF InHand, Prepared, Judged, Confirmed, Scanned, Issued, StoreStages, WorkType
<1>5. \A f \in Evaluator : f # e => stage[f] \notin StoreStages
  BY <1>2, AloneInStore DEF StoreStages
<1>6. InHand(s, w) /\ s \in Stages
  BY <1>3 DEF InHand, Prepared, Judged, Confirmed, Scanned, Issued, StoreStages, Stages
<1>7. /\ records \in [Evidence -> Receipt \union {None, Torn}]
      /\ links \union tornLinks \subseteq Receipt
      /\ basis \in [Evidence -> [known : SUBSET Evidence, active : SUBSET Release]]
      /\ Torn \notin Receipt
  BY DEF EvaluationInv, StoreInv, Typed, EvaluationAssumption
<1> DEFINE entry == [known |-> w.known, active |-> w.active]
<1>8. entry \in [known : SUBSET Evidence, active : SUBSET Release]
      /\ entry.known = w.known /\ entry.active = w.active
  BY <1>4
<1>9. basis' = [basis EXCEPT ![w.evidence] = entry]
  BY <1>2
<1> HIDE DEF entry
<1>10. Filed' = Filed \union {w.evidence}
  BY <1>2, <1>4, <1>7 DEF Filed
<1>11. Typed'
  <2>1. /\ basis' \in [Evidence -> [known : SUBSET Evidence, active : SUBSET Release]]
        /\ records' \in [Evidence -> Receipt \union {None, Torn}]
    BY <1>2, <1>4, <1>7, <1>8, <1>9
  <2> QED
    BY <1>2, <1>6, <2>1 DEF EvaluationInv, StoreInv, Typed
<1>12. LinksResolve'
  <2>1. ASSUME NEW r \in links \union tornLinks PROVE records'[r.evidence] = r
    <3>1. r \in Receipt /\ r.evidence \in Evidence /\ records[r.evidence] = r
      BY <1>7 DEF EvaluationInv, StoreInv, LinksResolve, Receipt
    <3>2. r.evidence # w.evidence
      BY <1>3, <1>7, <3>1
    <3> QED
      BY <1>2, <1>7, <3>1, <3>2
  <2> QED
    BY <1>2, <2>1 DEF LinksResolve, EvaluationInv, StoreInv
<1>13. RecordsSound'
  <2>1. ASSUME NEW ev \in Filed'
        PROVE  /\ records'[ev].repaired => ev.passed
               /\ ev.sound /\ ev.release \in basis'[ev].active
               /\ FirstOf(ev, basis'[ev].known)
    <3>1. CASE ev = w.evidence
      <4>1. records'[ev] = w.receipt /\ basis'[ev] = entry
        BY <1>2, <1>4, <1>7, <1>9, <3>1
      <4> QED
        BY <1>4, <1>8, <3>1, <4>1
    <3>2. CASE ev # w.evidence
      <4>1. ev \in Filed /\ records'[ev] = records[ev] /\ basis'[ev] = basis[ev]
        BY <1>2, <1>7, <1>9, <1>10, <3>2 DEF Filed
      <4> QED
        BY <4>1 DEF EvaluationInv, StoreInv, RecordsSound
    <3> QED
      BY <3>1, <3>2
  <2> QED
    BY <2>1 DEF RecordsSound
<1>14. Sees(e, s, w, o)'
  BY <1>2, <1>3, <1>4, <1>7 DEF Sees
<1> QED
  BY <1>2, <1>3, <1>5, <1>6, <1>10, <1>11, <1>12, <1>13, <1>14, StoreStep DEF StoreInv

(* Opening and filling the link: it is of the record as it is.             *)
LEMMA LinkKeeps ==
  ASSUME EvaluationInv, NEW e \in Evaluator, OpenLink(e) \/ FillLink(e)
  PROVE  EvaluationInv'
<1>1. PICK w \in WorkType, o \in Receipt \union {None} : w = work[e] /\ o = outcome[e]
  BY AtHand
<1>2. /\ stage[e] \in {"link", "filllink"} /\ locked' = locked /\ work' = work
      /\ outcome' = outcome /\ UNCHANGED <<pointer, source, records, basis>>
  BY DEF OpenLink, FillLink, World
<1>3. /\ work' = [work EXCEPT ![e] = w] /\ outcome' = [outcome EXCEPT ![e] = o]
      /\ InHand("link", w) /\ (o # None => o \in links) /\ locked = e
      /\ records[w.evidence] = w.receipt
  BY AtHand, <1>1, <1>2 DEF EvaluationInv, StoreInv, Typed, Sees, InHand, Prepared, Judged,
     Confirmed, Scanned, Issued, StoreStages
<1>4. w.receipt \in Receipt /\ w.receipt.evidence = w.evidence
  BY <1>3 DEF InHand, Issued, StoreStages
<1>5. PICK s \in {"filllink", "unlock", "drop"} :
        stage' = [stage EXCEPT ![e] = s] /\ (s = "unlock" => w.receipt \in links')
  BY <1>1 DEF OpenLink, FillLink, Goes
<1>6. /\ links \subseteq links' /\ links' \intersect tornLinks' = {}
      /\ links' \union tornLinks' \subseteq links \union tornLinks \union {w.receipt}
  BY <1>1 DEF OpenLink, FillLink, EvaluationInv, StoreInv, LinksResolve
<1>7. \A f \in Evaluator : f # e => stage[f] \notin StoreStages
  BY <1>2, AloneInStore DEF StoreStages
<1>8. InHand(s, w) /\ s \in Stages
  BY <1>3 DEF InHand, Prepared, Judged, Confirmed, Scanned, Issued, StoreStages, Stages
<1>9. Filed' = Filed
  BY <1>2 DEF Filed
<1>10. Typed'
  BY <1>2, <1>4, <1>5, <1>6, <1>8 DEF EvaluationInv, StoreInv, Typed
<1>11. LinksResolve' /\ RecordsSound'
  BY <1>2, <1>3, <1>4, <1>6, <1>9 DEF EvaluationInv, StoreInv, LinksResolve, RecordsSound
<1>12. Sees(e, s, w, o)'
  BY <1>2, <1>3, <1>5, <1>6 DEF Sees
<1> QED
  BY <1>2, <1>3, <1>5, <1>6, <1>7, <1>8, <1>9, <1>10, <1>11, <1>12, StoreStep DEF StoreInv

(* A failed write leaves the store as it is and ends the append.           *)
LEMMA WriteFailsKeeps ==
  ASSUME EvaluationInv, NEW e \in Evaluator, WriteFails(e)
  PROVE  EvaluationInv'
<1>1. PICK w \in WorkType, o \in Receipt \union {None} : w = work[e] /\ o = outcome[e]
  BY AtHand
<1>2. /\ stage[e] \in StoreStages /\ stage' = [stage EXCEPT ![e] = "drop"]
      /\ work' = work /\ outcome' = outcome /\ UNCHANGED <<World, Store>>
  BY DEF WriteFails, Goes, StoreStages
<1>3. /\ work' = [work EXCEPT ![e] = w] /\ outcome' = [outcome EXCEPT ![e] = o]
      /\ InHand(stage[e], w) /\ (o # None => o \in links) /\ locked = e
  BY AtHand, <1>1, <1>2 DEF EvaluationInv, StoreInv, Typed, Sees
<1>4. InHand("drop", w) /\ "drop" \in Stages
  BY <1>2, <1>3 DEF InHand, Prepared, Judged, Confirmed, Scanned, Issued, StoreStages, Stages
<1>5. Sees(e, "drop", w, o)
  BY <1>3 DEF Sees
<1> QED
  BY <1>2, <1>3, <1>4, <1>5, QuietStep

(* The lock goes; a dropped append ends the evaluation.                    *)
LEMMA UnlockKeeps ==
  ASSUME EvaluationInv, NEW e \in Evaluator, Unlock(e)
  PROVE  EvaluationInv'
<1>1. /\ stage[e] \in {"unlock", "drop"} /\ locked' = None
      /\ UNCHANGED <<pointer, source, records, links, tornLinks, basis>>
  BY DEF Unlock, World
<1>2. \A f \in Evaluator : f # e => stage[f] \notin StoreStages
  BY <1>1, AloneInStore DEF StoreStages
<1>3. Filed' = Filed
  BY <1>1 DEF Filed
<1>4. ASSUME NEW s \in {"idle", "answer"}, NEW w \in WorkType,
             NEW o \in Receipt \union {None},
             stage' = [stage EXCEPT ![e] = s], work' = [work EXCEPT ![e] = w],
             outcome' = [outcome EXCEPT ![e] = o], InHand(s, w), Sees(e, s, w, o)'
      PROVE  EvaluationInv'
  <2>1. Typed'
    BY <1>1, <1>4 DEF EvaluationInv, StoreInv, Typed, Stages
  <2>2. LinksResolve' /\ RecordsSound'
    BY <1>1, <1>3 DEF EvaluationInv, StoreInv, LinksResolve, RecordsSound
  <2>3. s \in Stages
    BY DEF Stages
  <2> QED
    BY <1>1, <1>2, <1>3, <1>4, <2>1, <2>2, <2>3, StoreStep DEF StoreInv
<1>5. CASE stage[e] = "drop"
  <2>1. /\ stage' = [stage EXCEPT ![e] = "idle"] /\ work' = [work EXCEPT ![e] = Idle]
        /\ outcome' = [outcome EXCEPT ![e] = None]
    BY <1>5 DEF Unlock, Refuse, Goes
  <2>2. InHand("idle", Idle)
    BY DEF InHand, Prepared, Judged, Confirmed, Scanned, Issued, StoreStages
  <2>3. Sees(e, "idle", Idle, None)'
    BY DEF Sees, StoreStages
  <2> HIDE DEF Idle
  <2> QED
    BY <1>4, <2>1, <2>2, <2>3, IdleTyped
<1>6. CASE stage[e] = "unlock"
  <2>1. PICK w \in WorkType, o \in Receipt \union {None} : w = work[e] /\ o = outcome[e]
    BY AtHand
  <2>2. /\ stage' = [stage EXCEPT ![e] = "answer"] /\ work' = [work EXCEPT ![e] = w]
        /\ outcome' = [outcome EXCEPT ![e] = o]
        /\ InHand("unlock", w) /\ w.receipt \in links /\ (o # None => o \in links)
    BY <1>6, <2>1, AtHand DEF Unlock, Goes, EvaluationInv, StoreInv, Typed, Sees
  <2>3. InHand("answer", w)
    BY <2>2 DEF InHand, Prepared, Judged, Confirmed, Scanned, Issued, StoreStages
  <2>4. Sees(e, "answer", w, o)'
    BY <1>1, <2>2 DEF Sees, StoreStages
  <2> QED
    BY <1>4, <2>2, <2>3, <2>4
<1> QED
  BY <1>1, <1>5, <1>6

-----------------------------------------------------------------------------
(* What the evaluators do not control.                                     *)

(* An activation: whoever has judged its commands has that release among   *)
(* those that were active since.                                           *)
LEMMA ActivateKeeps ==
  ASSUME EvaluationInv, NEW r \in Release, Activate(r)
  PROVE  EvaluationInv'
<1> DEFINE since == {"confirm", "rescan", "issue", "lock", "record", "fill"}
           with(f) == IF stage[f] \in since
                        THEN [work[f] EXCEPT !.active = @ \union {r}] ELSE work[f]
<1>1. /\ pointer' = r /\ UNCHANGED <<source, records, links, tornLinks, locked, basis, stage, outcome>>
      /\ work' = [f \in Evaluator |-> with(f)]
  BY DEF Activate, Store
<1>2. Filed' = Filed
  BY <1>1 DEF Filed
<1>3. ASSUME NEW f \in Evaluator
      PROVE  /\ work'[f] \in WorkType
             /\ work'[f].evidence = work[f].evidence /\ work'[f].done = work[f].done
             /\ work'[f].clean = work[f].clean /\ work'[f].public = work[f].public
             /\ work'[f].known = work[f].known /\ work'[f].receipt = work[f].receipt
             /\ work[f].active \subseteq work'[f].active
             /\ stage[f] = "confirm" => r \in work'[f].active
  <2> DEFINE v == work[f]
             u == [v EXCEPT !.active = v.active \union {r}]
  <2>1. v \in WorkType
    BY AtHand
  <2>2. work'[f] = IF stage[f] \in since THEN u ELSE v
    BY <1>1
  <2> HIDE DEF v
  <2>3. /\ u \in WorkType /\ u.evidence = v.evidence /\ u.done = v.done /\ u.clean = v.clean
        /\ u.public = v.public /\ u.known = v.known /\ u.receipt = v.receipt
        /\ u.active = v.active \union {r}
    BY <2>1 DEF WorkType
  <2> HIDE DEF u
  <2>4. CASE stage[f] \in since
    BY <2>2, <2>3, <2>4 DEF v
  <2>5. CASE stage[f] \notin since
    BY <2>1, <2>2, <2>5 DEF v
  <2> QED
    BY <2>4, <2>5
<1>4. Typed'
  <2>1. work' \in [Evaluator -> WorkType]
    BY <1>1, <1>3
  <2> QED
    BY <1>1, <2>1 DEF EvaluationInv, StoreInv, Typed
<1>5. LinksResolve' /\ RecordsSound'
  BY <1>1, <1>2 DEF EvaluationInv, StoreInv, LinksResolve, RecordsSound
<1>6. ASSUME NEW f \in Evaluator
      PROVE  InHand(stage'[f], work'[f]) /\ Sees(f, stage[f], work[f], outcome[f])'
  <2>1. InHand(stage[f], work[f]) /\ Sees(f, stage[f], work[f], outcome[f])
    BY DEF EvaluationInv
  <2>2. InHand(stage[f], work'[f])
    BY <1>3, <2>1 DEF InHand
  <2>3. Sees(f, stage[f], work[f], outcome[f])'
    BY <1>1, <1>2, <1>3, <2>1 DEF Sees
  <2> QED
    BY <1>1, <2>2, <2>3
<1> QED
  BY <1>4, <1>5, <1>6 DEF EvaluationInv, StoreInv

LEMMA SourceChangesKeeps ==
  ASSUME EvaluationInv, SourceChanges
  PROVE  EvaluationInv'
BY DEF SourceChanges, Store, EvaluationInv, StoreInv, Typed, LinksResolve, RecordsSound,
       Filed, Sees

-----------------------------------------------------------------------------
(* The invariant, and what follows from it.                                *)

LEMMA InitSound == ASSUME EvaluationAssumption, Init PROVE EvaluationInv
<1>1. Typed
  BY IdleTyped DEF Init, Typed, Stages
<1>2. LinksResolve
  BY DEF Init, LinksResolve
<1>3. Filed = {}
  BY DEF Init, Filed, EvaluationAssumption
<1>4. RecordsSound
  BY <1>3 DEF RecordsSound
<1>5. ASSUME NEW e \in Evaluator
      PROVE  InHand(stage[e], work[e]) /\ Sees(e, stage[e], work[e], outcome[e])
  BY DEF Init, InHand, Sees, Prepared, Judged, Confirmed, Scanned, Issued, StoreStages
<1> QED
  BY <1>1, <1>2, <1>4, <1>5 DEF EvaluationInv, StoreInv

LEMMA EvaluatorKeeps ==
  ASSUME EvaluationAssumption, EvaluationInv, NEW e \in Evaluator, EvaluatorStep(e)
  PROVE  EvaluationInv'
<1>1. ASSUME NEW ev \in Evidence, Prepare(e, ev) PROVE EvaluationInv'
  BY <1>1, PrepareKeeps
<1>2. ASSUME NEW ev \in Evidence, RefuseInputs(e, ev) PROVE EvaluationInv'
  BY <1>2, RefuseKeeps DEF RefuseInputs
<1>3. ASSUME NEW ran, NEW drift \in BOOLEAN, RunCommand(e, ran, drift)
      PROVE  EvaluationInv'
  BY <1>3, RunCommandKeeps
<1>4. ASSUME NEW t \in Times, Issue(e, t) PROVE EvaluationInv'
  BY <1>4, IssueKeeps
<1>5. ASSUME Kill(e) PROVE EvaluationInv'
  BY <1>5, EndKeeps DEF Kill, Goes
<1>6. ASSUME FirstScan(e) \/ Copy(e) \/ ApplyPatch(e) \/ Judge(e) \/ Confirm(e)
             \/ SecondScan(e)
      PROVE  EvaluationInv'
  BY <1>6, FirstScanKeeps, CopyKeeps, ApplyPatchKeeps, JudgeKeeps, ConfirmKeeps,
     SecondScanKeeps
<1>7. ASSUME Lock(e) \/ OpenRecord(e) \/ FillRecord(e) \/ OpenLink(e) \/ FillLink(e)
             \/ WriteFails(e) \/ Unlock(e) \/ AnswerCaller(e)
      PROVE  EvaluationInv'
  BY <1>7, LockKeeps, OpenRecordKeeps, FillRecordKeeps, LinkKeeps, WriteFailsKeeps,
     UnlockKeeps, AnswerKeeps
<1> QED
  BY <1>1, <1>2, <1>3, <1>4, <1>5, <1>6, <1>7 DEF EvaluatorStep

LEMMA StepKeeps == ASSUME EvaluationAssumption, EvaluationInv, [Next]_vars PROVE EvaluationInv'
<1>1. CASE Next
  BY <1>1, EvaluatorKeeps, ActivateKeeps, SourceChangesKeeps DEF Next
<1>2. CASE UNCHANGED vars
  BY <1>2 DEF vars, EvaluationInv, StoreInv, Typed, LinksResolve, RecordsSound, Filed, Sees
<1> QED
  BY <1>1, <1>2

(* The invariant holds of every behaviour, killed evaluators included.     *)
THEOREM EvaluationInvariant ==
  ASSUME EvaluationAssumption PROVE Spec => []EvaluationInv
<1>1. Init => EvaluationInv
  BY InitSound
<1>2. EvaluationInv /\ [Next]_vars => EvaluationInv'
  BY StepKeeps
<1> QED
  BY <1>1, <1>2, PTL DEF Spec

(* The type invariant; commands are only run in an unchanged copy.         *)
THEOREM TypeCorrect == ASSUME EvaluationAssumption PROVE Spec => []TypeOK
<1>1. EvaluationInv => TypeOK
  <2> SUFFICES ASSUME EvaluationInv PROVE TypeOK
    OBVIOUS
  <2>1. ASSUME NEW e \in Evaluator
        PROVE  /\ stage[e] \in Stages
               /\ stage[e] = "commands" => work[e].clean /\ work[e].done < Commands
               /\ work[e].evidence \in Evidence \union {None}
               /\ work[e].receipt \in Receipt \union {None}
               /\ outcome[e] \in Receipt \union {None}
    BY AtHand DEF InHand, WorkType
  <2> QED
    BY <2>1 DEF EvaluationInv, StoreInv, Typed, TypeOK
<1> QED
  BY <1>1, EvaluationInvariant, PTL

(* Evaluators that race, die in the store, fail to write or lose their     *)
(* release never answer with an outcome that cannot be looked up, link one *)
(* that is not filed, or file one that the run denies (append,             *)
(* lookup_outcome). It is not said that a filed outcome is linked: an      *)
(* append that is cut short leaves it with a torn link or with none.       *)
THEOREM OutcomesHold == ASSUME EvaluationAssumption PROVE Spec => []OutcomesAreSound
<1>1. EvaluationInv => OutcomesAreSound
  <2> SUFFICES ASSUME EvaluationInv PROVE OutcomesAreSound
    OBVIOUS
  <2>1. LinksResolve /\ RecordsSound
    BY DEF EvaluationInv, StoreInv
  <2>2. AnswersAreFiled
    BY DEF EvaluationInv, Sees, AnswersAreFiled
  <2>3. OutcomesReproduce
    BY <2>1 DEF RecordsSound, OutcomesReproduce
  <2>4. OutcomesAreSingle
    BY <2>1 DEF RecordsSound, FirstOf, OutcomesAreSingle
  <2> QED
    BY <2>1, <2>2, <2>3, <2>4 DEF OutcomesAreSound
<1> QED
  BY <1>1, EvaluationInvariant, PTL

(* Whole links stay, and so does what is filed.                            *)
Kept == links \subseteq links' /\ \A ev \in Filed : records'[ev] = records[ev]

(* No step of any evaluator, no kill and no failed write rewrites a filed  *)
(* outcome or a whole link (_write_once).                                  *)
THEOREM OutcomesArePermanent ==
  ASSUME EvaluationAssumption PROVE Spec => [][Kept]_vars
<1>1. ASSUME EvaluationInv, Next, NEW ev \in Filed PROVE records'[ev] = records[ev]
  <2>1. CASE records' = records
    BY <2>1
  <2>2. CASE records' # records
    <3>1. PICK e \in Evaluator : OpenRecord(e) \/ FillRecord(e)
      BY <1>1, <2>2 DEF Next, EvaluatorStep, Prepare, RefuseInputs, FirstScan, SecondScan, Scan,
         Copy, ApplyPatch, RunCommand, Judge, Confirm, Issue, Lock, OpenLink, FillLink,
         WriteFails, Unlock, AnswerCaller, Kill, Activate, SourceChanges, Store
    <3>2. /\ records \in [Evidence -> Receipt \union {None, Torn}] /\ records[ev] \in Receipt
          /\ None \notin Receipt /\ Torn \notin Receipt
      BY <1>1 DEF EvaluationInv, StoreInv, Typed, Filed, EvaluationAssumption
    <3>3. CASE FillRecord(e)
      <4>1. records[work[e].evidence] = Torn
        BY <1>1, <3>3, AtHand DEF FillRecord, Sees
      <4> QED
        BY <3>2, <3>3, <4>1 DEF FillRecord, Filed
    <3>4. CASE OpenRecord(e)
      <4>1. records[work[e].evidence] = None
        BY <2>2, <3>4 DEF OpenRecord
      <4>2. records' = [records EXCEPT ![work[e].evidence] = Torn]
        BY <2>2, <3>4 DEF OpenRecord
      <4> QED
        BY <3>2, <4>1, <4>2
    <3> QED
      BY <3>1, <3>3, <3>4
  <2> QED
    BY <2>1, <2>2
<1>2. ASSUME Next PROVE links \subseteq links'
  BY <1>2 DEF Next, EvaluatorStep, Prepare, RefuseInputs, FirstScan, SecondScan, Scan, Copy,
     ApplyPatch, RunCommand, Judge, Confirm, Issue, Lock, OpenRecord, FillRecord, OpenLink,
     FillLink, WriteFails, Unlock, AnswerCaller, Kill, Activate, SourceChanges, Store
<1>3. EvaluationInv /\ [Next]_vars => [Kept]_vars
  BY <1>1, <1>2 DEF Kept
<1> QED
  BY <1>3, EvaluationInvariant, PTL DEF Spec

(* An outcome that a caller was told can be looked up ever after, whatever *)
(* is killed or fails to write later: its link is whole and names a record *)
(* that holds it (evaluate, lookup_outcome).                               *)
THEOREM AnswersStayFound ==
  ASSUME EvaluationAssumption, NEW e \in Evaluator, NEW r \in Receipt
  PROVE  Spec => [](outcome[e] = r => [](r \in links /\ records[r.evidence] = r))
<1>1. EvaluationInv => (outcome[e] = r => r \in links)
  BY DEF EvaluationInv, Sees, EvaluationAssumption
<1>2. EvaluationInv => (r \in links => records[r.evidence] = r)
  BY DEF EvaluationInv, StoreInv, LinksResolve
<1>3. [Kept]_vars /\ r \in links => (r \in links)'
  BY DEF Kept, vars
<1>4. Spec => []EvaluationInv
  BY EvaluationInvariant
<1>5. Spec => [][Kept]_vars
  BY OutcomesArePermanent
<1> QED
  BY <1>1, <1>2, <1>3, <1>4, <1>5, PTL
=============================================================================
