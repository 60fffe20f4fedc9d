----------------------------- MODULE AppendLog ------------------------------
(***************************************************************************)
(* What the two write-ahead-logged stores promise, whatever happens to the *)
(* processes that use them: one linear log.  An entry becomes durable in   *)
(* one step, is shown to readers afterwards, in order, and is never        *)
(* dropped or replaced; a call that adds an entry returns only when        *)
(* everything that is durable is shown.                                    *)
(***************************************************************************)
EXTENDS Integers, Sequences

CONSTANT Entries

VARIABLES
  log,    \* the committed entries, oldest first
  shown,  \* how many of them readers are shown
  acked   \* the length of the log at the latest successful return

logVars == <<log, shown, acked>>

Init == log = <<>> /\ shown = 0 /\ acked = 0

Commit(e) ==
  /\ shown = Len(log)
  /\ log' = Append(log, e)
  /\ UNCHANGED <<shown, acked>>

Show ==
  /\ shown < Len(log)
  /\ shown' = shown + 1
  /\ UNCHANGED <<log, acked>>

Acknowledge ==
  /\ shown = Len(log)
  /\ acked' = Len(log)
  /\ UNCHANGED <<log, shown>>

Next == Show \/ Acknowledge \/ \E e \in Entries : Commit(e)

Spec == Init /\ [][Next]_logVars
=============================================================================
