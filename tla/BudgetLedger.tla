---------------------------- MODULE BudgetLedger ----------------------------
(***************************************************************************)
(* The AggregateBudgetLedger of runtime/kernel/composite_budget.py: the    *)
(* account that every provider call and every tool call of a composite run *)
(* is charged to.  A caller reserves capacity before it dispatches and     *)
(* settles the reservation afterwards; every method holds the ledger's     *)
(* lock from its first read to its last write, so each is one action.      *)
(*                                                                         *)
(* Amounts are natural numbers (the code adds floats for money and allows  *)
(* 1e-12 of slack).  The two unknown-event counters, which the code only   *)
(* compares with zero, are the set `unknown`.  The latency total, which no *)
(* ceiling reads, is left out.                                             *)
(***************************************************************************)
EXTENDS Integers, FiniteSets

CONSTANTS
  TokenMeters,   \* the token counters a usage report may carry
  Limit,         \* TaskCeilings: the ceiling of every meter
  MaxWall,       \* TaskCeilings.max_wall_time_ms
  MaxNow,        \* bound: the clock stops here, past MaxWall
  MaxSequence,   \* bound: the number of reservations ever granted
  Requests,      \* the reservations that callers ask for
  Reports,       \* the usage reports that providers return
  OutputSizes    \* the tool output sizes, in bytes, that are settled

CallMeters == {"model_calls", "retries", "tool_calls"}
CountMeters == TokenMeters \cup CallMeters \cup {"tool_output_bytes"}
CostMeters == {"known_cost_usd", "estimated_cost_usd"}
Meters == CountMeters \cup CostMeters

(* A BudgetReservation.  Its only cost field is estimated_cost_usd.        *)
Reservation ==
  [kind : {"provider", "tool"},
   status : {"known", "estimated", "none"},
   need : [CountMeters \cup {"estimated_cost_usd"} -> Nat]]

(* A ProviderUsageReport: `tokens` maps the counts that are present; they  *)
(* are all present unless the usage is unknown.                            *)
IsReport(u) ==
  /\ u.usage \in {"known", "unknown"}
  /\ u.cost \in {"known", "estimated", "unknown"}
  /\ u.usd \in Nat
  /\ u.cost = "unknown" => u.usd = 0
  /\ u.tokens \in [DOMAIN u.tokens -> Nat]
  /\ DOMAIN u.tokens \subseteq TokenMeters
  /\ u.usage # "unknown" => DOMAIN u.tokens = TokenMeters

UnknownReport ==
  [usage |-> "unknown", cost |-> "unknown", usd |-> 0,
   tokens |-> [m \in {} |-> 0]]

ASSUME LedgerAssumption ==
  /\ TokenMeters \cap (CallMeters \cup CostMeters \cup {"tool_output_bytes"}) = {}
  /\ Limit \in [Meters -> Nat]
  /\ MaxWall \in Nat /\ MaxNow \in Nat /\ MaxSequence \in Nat
  /\ OutputSizes \subseteq Nat

ASSUME RequestsAssumption ==
  \A r \in Requests :
    /\ r \in Reservation
    /\ r.kind = "provider" =>
         /\ r.status # "none"
         /\ r.need["model_calls"] = 1 /\ r.need["retries"] \in {0, 1}
         /\ r.need["tool_calls"] = 0 /\ r.need["tool_output_bytes"] = 0
    /\ r.kind = "tool" =>
         /\ r.need["tool_calls"] = 1
         /\ \A m \in CountMeters \ {"tool_calls", "tool_output_bytes"} : r.need[m] = 0
         /\ r.status = "none" /\ r.need["estimated_cost_usd"] = 0

ASSUME ReportsAssumption == \A u \in Reports : IsReport(u)

VARIABLES
  now,           \* milliseconds since the ledger was built
  totals,        \* _totals
  reservations,  \* _reservations, by reservation id
  sequence,      \* _sequence, the last reservation id
  violations,    \* _violations: <<meter, "reservation" or "ceiling">>
  unknown        \* which of the two unknown-event counters are above zero

ledgerVars == <<now, totals, reservations, sequence, violations, unknown>>

-----------------------------------------------------------------------------
(* What a reservation holds of a meter: only a KNOWN cost estimate counts  *)
(* against the known-cost ceiling.                                         *)
NeedOf(r, m) ==
  IF m # "known_cost_usd" THEN r.need[m]
  ELSE IF r.status = "known" THEN r.need["estimated_cost_usd"] ELSE 0

(* The open reservations' total, counted unit by unit: the pairs of a      *)
(* reservation and one unit it holds are as many as the sum of the needs.  *)
ReservedUnits(rs, m) ==
  UNION {{i} \X (1 .. NeedOf(rs[i], m)) : i \in DOMAIN rs}

Reserved(m) == Cardinality(ReservedUnits(reservations, m))

Granted(rs, i, r) == [j \in DOMAIN rs \cup {i} |-> IF j = i THEN r ELSE rs[j]]
Without(rs, i) == [j \in DOMAIN rs \ {i} |-> rs[j]]

(* The estimated-cost ceiling bounds known and estimated cost together.    *)
Spent(t, m) ==
  IF m = "estimated_cost_usd" THEN t["known_cost_usd"] + t[m] ELSE t[m]

(* Faulty variant: open reservations are not subtracted.                   *)
HasRoomWithoutReserved(r, m) ==
  NeedOf(r, m) = 0 \/ NeedOf(r, m) <= Limit[m] - Spent(totals, m)

HasRoom(r, m) ==
  LET left == Limit[m] - Spent(totals, m) - Reserved(m)
  IN  NeedOf(r, m) = 0 \/ NeedOf(r, m) <= left

DeadlineExceeded == now >= MaxWall
Healthy == violations = {} /\ unknown = {}
Reconciled == DOMAIN reservations = {} /\ unknown = {}
PromotionEligible == Healthy /\ ~DeadlineExceeded

-----------------------------------------------------------------------------
LedgerInit ==
  /\ now = 0
  /\ totals = [m \in Meters |-> 0]
  /\ reservations = [i \in {} |-> {}]
  /\ sequence = 0
  /\ violations = {}
  /\ unknown = {}

(* Faulty variant: unknown usage does not block new reservations.          *)
CanReserveWhenUnknown(r) ==
  /\ ~DeadlineExceeded
  /\ violations = {}
  /\ \A m \in Meters : HasRoom(r, m)

CanReserve(r) ==
  /\ ~DeadlineExceeded
  /\ unknown = {}
  /\ violations = {}
  /\ \A m \in Meters : HasRoom(r, m)

(* Faulty variant: the reservation is filed before the counter moves.      *)
ReserveAtOldSequence(r) ==
  /\ sequence < MaxSequence
  /\ CanReserve(r)
  /\ sequence' = sequence + 1
  /\ reservations' = Granted(reservations, sequence, r)
  /\ UNCHANGED <<now, totals, violations, unknown>>

(* A granted reserve_provider_call or reserve_tool_call.  A refused one    *)
(* raises BudgetExhaustedError and changes nothing.                        *)
Reserve(r) ==
  /\ sequence < MaxSequence
  /\ CanReserve(r)
  /\ sequence' = sequence + 1
  /\ reservations' = Granted(reservations, sequence + 1, r)
  /\ UNCHANGED <<now, totals, violations, unknown>>

(* Faulty variant: the reservation is looked up and stays.                 *)
PopLeaving(i) ==
  /\ i \in DOMAIN reservations
  /\ UNCHANGED reservations

Pop(i) ==
  /\ i \in DOMAIN reservations
  /\ reservations' = Without(reservations, i)

CancelReservation(i) ==
  /\ Pop(i)
  /\ UNCHANGED <<now, totals, sequence, violations, unknown>>

(* Faulty variant: only the counters are compared with their ceilings.     *)
CeilingsBrokenButMoney(t) ==
  {m \in CountMeters : Spent(t, m) > Limit[m]} \X {"ceiling"}

CeilingsBroken(t) == {m \in Meters : Spent(t, m) > Limit[m]} \X {"ceiling"}

Observed(u, m) == IF m \in DOMAIN u.tokens THEN u.tokens[m] ELSE 0

ProviderCharge(r, u, m) ==
  CASE m \in TokenMeters -> Observed(u, m)
    [] m = "model_calls" -> 1
    [] m = "retries" -> r.need["retries"]
    [] m = "known_cost_usd" -> IF u.cost = "known" THEN u.usd ELSE 0
    [] m = "estimated_cost_usd" -> IF u.cost = "estimated" THEN u.usd ELSE 0
    [] OTHER -> 0

Overrun(r, u) ==
  {m \in TokenMeters : Observed(u, m) > r.need[m]}
    \cup {m \in {"estimated_cost_usd"} : u.usd > r.need[m]}

(* complete_provider_call of a request that was sent.                      *)
SettleSent(i, u) ==
  LET r == reservations[i] IN
  /\ Pop(i)
  /\ r.kind = "provider"
  /\ totals' = [m \in Meters |-> totals[m] + ProviderCharge(r, u, m)]
  /\ violations' = violations \cup (Overrun(r, u) \X {"reservation"})
                              \cup CeilingsBroken(totals')
  /\ unknown' = unknown \cup {k \in {"usage"} : u.usage = "unknown"}
                        \cup {k \in {"cost"} : u.cost = "unknown"}
  /\ UNCHANGED <<now, sequence>>

(* complete_provider_call with request_sent false: the attempt counts as a *)
(* retry, nothing else is charged and no ceiling is looked at.             *)
SettleUnsent(i) ==
  LET r == reservations[i] IN
  /\ Pop(i)
  /\ r.kind = "provider"
  /\ totals' = [totals EXCEPT !["retries"] = @ + r.need["retries"]]
  /\ UNCHANGED <<now, sequence, violations, unknown>>

(* complete_tool_call.                                                     *)
SettleTool(i, bytes) ==
  LET r == reservations[i] IN
  /\ Pop(i)
  /\ r.kind = "tool"
  /\ totals' = [totals EXCEPT !["tool_calls"] = @ + 1,
                              !["tool_output_bytes"] = @ + bytes]
  /\ violations' = violations
       \cup ({m \in {"tool_output_bytes"} : bytes > r.need[m]} \X {"reservation"})
       \cup CeilingsBroken(totals')
  /\ UNCHANGED <<now, sequence, unknown>>

Tick ==
  /\ now < MaxNow
  /\ now' = now + 1
  /\ UNCHANGED <<totals, reservations, sequence, violations, unknown>>

LedgerNext ==
  \/ Tick
  \/ \E r \in Requests : Reserve(r)
  \/ \E i \in DOMAIN reservations :
       \/ CancelReservation(i)
       \/ SettleUnsent(i)
       \/ \E u \in Reports : SettleSent(i, u)
       \/ \E bytes \in OutputSizes : SettleTool(i, bytes)

LedgerSpec == LedgerInit /\ [][LedgerNext]_ledgerVars

-----------------------------------------------------------------------------
(* The ledger's variables keep their types, and reservation ids are below  *)
(* the sequence counter that numbers them.                                 *)
LedgerTypeOK ==
  /\ now \in Nat /\ sequence \in Nat
  /\ totals \in [Meters -> Nat]
  /\ DOMAIN reservations \subseteq 1 .. sequence
  /\ reservations \in [DOMAIN reservations -> Requests]
  /\ violations \subseteq Meters \X {"reservation", "ceiling"}
  /\ unknown \subseteq {"usage", "cost"}

(* What is spent and what is reserved stay together within the ceiling.    *)
Covered(m) == Spent(totals, m) + Reserved(m) <= Limit[m]

(* reserve-before-dispatch: until a provider or a tool overruns what it    *)
(* reserved of a meter, spending plus every open reservation fits that     *)
(* meter's ceiling, whatever callers do concurrently.  (The known-cost     *)
(* meter is weaker, see KnownCostCovered.)                                 *)
OnlyOverrunsBreakCeilings ==
  \A m \in Meters \ {"known_cost_usd"} :
    <<m, "reservation">> \notin violations => Covered(m)

(* Calls, retries and tool calls are hard limits: even after accounting    *)
(* went wrong, no interleaving of open reservations settles into more of   *)
(* them than the task allows.                                              *)
CallLimitsAreHard == \A m \in CallMeters : Covered(m)

(* A ledger that calls itself healthy is within every ceiling, known cost  *)
(* included, although an ESTIMATED reservation may be settled with a KNOWN *)
(* cost that was never reserved against the known-cost ceiling.            *)
HealthyWithinCeilings ==
  Healthy => \A m \in Meters : Spent(totals, m) <= Limit[m]

(* Accounting that has gone wrong is never forgiven: the totals, the       *)
(* violations and the unknown events only grow, and once the ledger is     *)
(* unhealthy no reservation is ever granted again.                         *)
AccountingOnlyGrows ==
  /\ \A m \in Meters : totals'[m] >= totals[m]
  /\ violations \subseteq violations' /\ unknown \subseteq unknown'
  /\ ~Healthy => DOMAIN reservations' \subseteq DOMAIN reservations

AccountingIsMonotone == [][AccountingOnlyGrows]_ledgerVars
=============================================================================
