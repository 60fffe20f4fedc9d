---------------------------- MODULE ProviderCall ----------------------------
(***************************************************************************)
(* CompositeProviderController.call (runtime/kernel/composite_provider.py) *)
(* run by several threads against one budget ledger.  A call reserves,     *)
(* hands the request to a daemon worker thread, and polls three things in  *)
(* turn until one of them ends it: the caller's cancellation event, its    *)
(* own deadline, and the one-slot queue on which the worker answers.       *)
(*                                                                         *)
(* Any two ledger operations of a call, and the polls between them, are    *)
(* separate steps, so other calls, the clock, the worker and whoever sets  *)
(* the cancellation event may act in between.                              *)
(***************************************************************************)
EXTENDS BudgetLedger

CONSTANTS
  Calls,             \* the calls made during the run, each on some thread
  RequestOf,         \* what each call reserves
  ProviderDeadline,  \* TaskCeilings.provider_deadline_ms
  Answers            \* what a worker may leave in the queue

(* An answer is the provider's result (with its usage report), a payload   *)
(* that ProviderInvocation.model_validate refuses, a ProviderInvocation-   *)
(* Error, or any other exception.                                          *)
IsAnswer(a) ==
  /\ a.kind \in {"result", "invalid", "error", "exception"}
  /\ a.sent \in BOOLEAN
  /\ a.usage \in Reports
  /\ a.ends \in {"failed", "cancelled", "deadline"}

ASSUME CallsAssumption ==
  /\ IsFiniteSet(Calls)
  /\ RequestOf \in [Calls -> Requests]
  /\ \A c \in Calls : RequestOf[c].kind = "provider"
  /\ ProviderDeadline \in Nat
  /\ UnknownReport \in Reports
  /\ \A a \in Answers : IsAnswer(a)

VARIABLES
  phase,      \* where each call's thread is
  ticket,     \* the reservation id it was granted, 0 before that
  timeout,    \* the timeout_ms it computed
  deadline,   \* control.deadline_monotonic, on the ledger's clock
  cancelled,  \* the caller's cancellation_event is set
  worker,     \* the worker thread: none, running, or done
  queue,      \* the answers in the call's queue (maxsize 1)
  taken,      \* the answer the call took from the queue
  result      \* the ProviderCallResult: its status, and whether it was sent

callVars == <<phase, ticket, timeout, deadline, cancelled, worker, queue, taken, result>>
vars == <<ledgerVars, callVars>>

Phases ==
  {"idle", "checked", "reserved", "armed", "polling", "answered", "returned", "raised"}
Statuses == {"pending", "succeeded", "failed", "cancelled", "deadline", "rejected"}
Pending == [status |-> "pending", sent |-> FALSE]

-----------------------------------------------------------------------------
Goto(c, from, to) == phase[c] = from /\ phase' = [phase EXCEPT ![c] = to]

Return(c, from, status, sent) ==
  /\ Goto(c, from, "returned")
  /\ result' = [result EXCEPT ![c] = [status |-> status, sent |-> sent]]

Init ==
  /\ LedgerInit
  /\ phase = [c \in Calls |-> "idle"]
  /\ ticket = [c \in Calls |-> 0]
  /\ timeout = [c \in Calls |-> 0]
  /\ deadline = [c \in Calls |-> 0]
  /\ cancelled = [c \in Calls |-> FALSE]
  /\ worker = [c \in Calls |-> "none"]
  /\ queue = [c \in Calls |-> <<>>]
  /\ taken = [c \in Calls |-> <<>>]
  /\ result = [c \in Calls |-> Pending]

(* A cancellation event that is already set ends the call before it        *)
(* reserves anything.                                                      *)
CheckCancelled(c) ==
  /\ IF cancelled[c] THEN Return(c, "idle", "cancelled", FALSE)
                     ELSE Goto(c, "idle", "checked") /\ UNCHANGED result
  /\ UNCHANGED <<ledgerVars, ticket, timeout, deadline, cancelled, worker, queue, taken>>

ReserveCall(c) ==
  /\ Goto(c, "checked", "reserved")
  /\ Reserve(RequestOf[c])
  /\ ticket' = [ticket EXCEPT ![c] = sequence']
  /\ UNCHANGED <<timeout, deadline, cancelled, worker, queue, taken, result>>

(* BudgetExhaustedError.                                                   *)
RefuseCall(c) ==
  /\ ~CanReserve(RequestOf[c])
  /\ Return(c, "checked", "rejected", FALSE)
  /\ UNCHANGED <<ledgerVars, ticket, timeout, deadline, cancelled, worker, queue, taken>>

(* provider_timeout_ms: the time left, read after the reservation, may     *)
(* have run out; the reservation is then given back.                       *)
(* Faulty variant: the time left is not clamped at zero.                   *)
TimeLeftUnclamped == MaxWall - now

TimeLeft == IF now < MaxWall THEN MaxWall - now ELSE 0
ProviderTimeout == IF ProviderDeadline < TimeLeft THEN ProviderDeadline ELSE TimeLeft

ReadTimeout(c) ==
  /\ ProviderTimeout > 0
  /\ Goto(c, "reserved", "armed")
  /\ timeout' = [timeout EXCEPT ![c] = ProviderTimeout]
  /\ UNCHANGED <<ledgerVars, ticket, deadline, cancelled, worker, queue, taken, result>>

(* Faulty variant: returns without giving the reservation back.            *)
OutOfTimeLeaking(c) ==
  /\ ProviderTimeout = 0
  /\ Return(c, "reserved", "deadline", FALSE)
  /\ UNCHANGED <<ledgerVars, ticket, timeout, deadline, cancelled, worker, queue, taken>>

OutOfTime(c) ==
  /\ phase[c] = "reserved"
  /\ ProviderTimeout = 0
  /\ CancelReservation(ticket[c])
  /\ Return(c, "reserved", "deadline", FALSE)
  /\ UNCHANGED <<ticket, timeout, deadline, cancelled, worker, queue, taken>>

(* started_at is read only now, so the deadline can lie past MaxWall.  The *)
(* bounded clock saturates: MaxNow stands for every time from there on.    *)
OnClock(t) == IF t < MaxNow THEN t ELSE MaxNow

StartWorker(c) ==
  /\ Goto(c, "armed", "polling")
  /\ deadline' = [deadline EXCEPT ![c] = OnClock(now + timeout[c])]
  /\ worker' = [worker EXCEPT ![c] = "running"]
  /\ UNCHANGED <<ledgerVars, ticket, timeout, cancelled, queue, taken, result>>

(* The operating system refuses a new thread: Thread.start raises out of   *)
(* call, and nothing settles the reservation.                              *)
StartFails(c) ==
  /\ Goto(c, "armed", "raised")
  /\ UNCHANGED <<ledgerVars, ticket, timeout, deadline, cancelled, worker, queue, taken, result>>

(* invoke_provider: the worker leaves one answer and ends.  It may do so   *)
(* after the call returned; nobody reads the queue then.                   *)
WorkerAnswers(c, a) ==
  /\ worker[c] = "running"
  /\ worker' = [worker EXCEPT ![c] = "done"]
  /\ queue' = [queue EXCEPT ![c] = <<a>>]
  /\ UNCHANGED <<ledgerVars, phase, ticket, timeout, deadline, cancelled, taken, result>>

(* Faulty variants: an abandoned call is settled as if it was never sent,  *)
(* or its reservation is simply given back.                                *)
AbandonAsUnsent(c, status) ==
  /\ SettleUnsent(ticket[c])
  /\ Return(c, "polling", status, TRUE)
  /\ UNCHANGED <<ticket, timeout, deadline, cancelled, worker, queue, taken>>

AbandonAndCancel(c, status) ==
  /\ CancelReservation(ticket[c])
  /\ Return(c, "polling", status, TRUE)
  /\ UNCHANGED <<ticket, timeout, deadline, cancelled, worker, queue, taken>>

(* A call ended while its worker may still be talking to the provider: it  *)
(* is charged as sent, with unknown usage and cost.                        *)
Abandon(c, status) ==
  /\ phase[c] = "polling"
  /\ SettleSent(ticket[c], UnknownReport)
  /\ Return(c, "polling", status, TRUE)
  /\ UNCHANGED <<ticket, timeout, deadline, cancelled, worker, queue, taken>>

PollCancelled(c) == cancelled[c] /\ Abandon(c, "cancelled")

PollDeadline(c) == now >= deadline[c] /\ Abandon(c, "deadline")

TakeAnswer(c) ==
  /\ Goto(c, "polling", "answered")
  /\ queue[c] # <<>>
  /\ taken' = [taken EXCEPT ![c] = queue[c]]
  /\ queue' = [queue EXCEPT ![c] = <<>>]
  /\ UNCHANGED <<ledgerVars, ticket, timeout, deadline, cancelled, worker, result>>

(* Faulty variant: the ledger's health is read before the settlement.      *)
SettleResultStale(c) ==
  /\ taken[c] # <<>> /\ taken[c][1].kind = "result"
  /\ Return(c, "answered", IF Healthy /\ ~DeadlineExceeded THEN "succeeded" ELSE "failed", TRUE)
  /\ SettleSent(ticket[c], taken[c][1].usage)
  /\ UNCHANGED <<ticket, timeout, deadline, cancelled, worker, queue, taken>>

(* A valid result is a success only if the ledger is healthy and in time   *)
(* once the call is charged.                                               *)
SettleResult(c) ==
  /\ phase[c] = "answered"
  /\ taken[c][1].kind = "result"
  /\ SettleSent(ticket[c], taken[c][1].usage)
  /\ Return(c, "answered", IF Healthy' /\ ~DeadlineExceeded THEN "succeeded" ELSE "failed", TRUE)
  /\ UNCHANGED <<ticket, timeout, deadline, cancelled, worker, queue, taken>>

SettleError(c) ==
  LET a == taken[c][1] IN
  /\ phase[c] = "answered"
  /\ a.kind = "error"
  /\ IF a.sent THEN SettleSent(ticket[c], a.usage) ELSE SettleUnsent(ticket[c])
  /\ Return(c, "answered", a.ends, a.sent)
  /\ UNCHANGED <<ticket, timeout, deadline, cancelled, worker, queue, taken>>

(* An invalid payload, or an exception that says nothing about usage.      *)
SettleOther(c) ==
  /\ phase[c] = "answered"
  /\ taken[c][1].kind \in {"invalid", "exception"}
  /\ SettleSent(ticket[c], UnknownReport)
  /\ Return(c, "answered", "failed", TRUE)
  /\ UNCHANGED <<ticket, timeout, deadline, cancelled, worker, queue, taken>>

Cancel(c) ==
  /\ ~cancelled[c]
  /\ cancelled' = [cancelled EXCEPT ![c] = TRUE]
  /\ UNCHANGED <<ledgerVars, phase, ticket, timeout, deadline, worker, queue, taken, result>>

TimePasses == Tick /\ UNCHANGED callVars

Controller(c) ==
  \/ CheckCancelled(c) \/ ReserveCall(c) \/ RefuseCall(c)
  \/ ReadTimeout(c) \/ OutOfTime(c) \/ StartWorker(c) \/ StartFails(c)
  \/ PollCancelled(c) \/ PollDeadline(c) \/ TakeAnswer(c)
  \/ SettleResult(c) \/ SettleError(c) \/ SettleOther(c)

Next ==
  \/ TimePasses
  \/ \E c \in Calls : \/ Controller(c) \/ Cancel(c)
                      \/ \E a \in Answers : WorkerAnswers(c, a)

Spec == Init /\ [][Next]_vars

(* Time passes and a controller thread keeps polling; nothing is assumed   *)
(* of the worker, which may never answer, or of the cancelling caller.     *)
FairSpec == Spec /\ WF_vars(TimePasses) /\ \A c \in Calls : WF_vars(Controller(c))

-----------------------------------------------------------------------------
(* A slot holds at most one answer: the queue's maxsize is 1.              *)
Slots == {<<>>} \cup {<<a>> : a \in Answers}

CallsTypeOK ==
  /\ phase \in [Calls -> Phases]
  /\ ticket \in [Calls -> Nat] /\ timeout \in [Calls -> Nat] /\ deadline \in [Calls -> Nat]
  /\ cancelled \in [Calls -> BOOLEAN]
  /\ worker \in [Calls -> {"none", "running", "done"}]
  /\ queue \in [Calls -> Slots] /\ taken \in [Calls -> Slots]
  /\ \A c \in Calls : phase[c] = "answered" => taken[c] # <<>>
  /\ result \in [Calls -> [status : Statuses, sent : BOOLEAN]]

(* The ledger's types, and those of the calls' threads, workers and queues.*)
TypeOK == LedgerTypeOK /\ CallsTypeOK

Holding(c) == phase[c] \in {"reserved", "armed", "polling", "answered", "raised"}

(* The open reservations are exactly those of the calls that hold one, and *)
(* no two calls hold the same: none is leaked by a return, none is settled *)
(* under a call that still needs it.  Only a thread that could not be      *)
(* started leaves one behind.                                              *)
ReservationsHaveOwners ==
  /\ DOMAIN reservations = {ticket[c] : c \in {d \in Calls : Holding(d)}}
  /\ \A c, d \in Calls : Holding(c) /\ Holding(d) /\ c # d => ticket[c] # ticket[d]

Charged(c) == phase[c] = "returned" /\ result[c].sent

(* Every call that reported itself sent is charged as exactly one model    *)
(* call, however its worker, its deadline and its cancellation raced, and  *)
(* an answer that comes late is charged to nobody.                         *)
ChargedExactlyOnce == totals["model_calls"] = Cardinality({c \in Calls : Charged(c)})

(* A call that was abandoned after dispatch leaves the accounting unknown, *)
(* so no later state of the ledger is reconciled or eligible for           *)
(* promotion.                                                              *)
AmbiguityIsRemembered ==
  (\E c \in Calls : /\ phase[c] = "returned" /\ worker[c] # "none"
                    /\ result[c].sent /\ taken[c] = <<>>)
    => ~PromotionEligible /\ ~Reconciled

(* A call reports success only from a healthy ledger before the wall-time  *)
(* limit; none succeeds after another call made the accounting invalid,    *)
(* even when it was dispatched, or answered, before.                       *)
SuccessIsHealthy ==
  \A c \in Calls : result'[c].status = "succeeded" /\ result[c].status # "succeeded"
    => Healthy /\ Healthy' /\ now < MaxWall

SuccessNeedsHealth == [][SuccessIsHealthy]_vars

(* Every call that starts ends, even if its provider never answers.        *)
CallsEnd == \A c \in Calls : phase[c] # "idle" ~> phase[c] \in {"returned", "raised"}
=============================================================================
