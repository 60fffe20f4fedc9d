------------------------- MODULE ProviderCallProofs -------------------------
(***************************************************************************)
(* Proofs about the budget ledger and the provider calls that use it.      *)
(*   The ledger: it never overcommits a ceiling, for every set of meters,  *)
(*   ceilings, requests and reports, and every number of concurrent        *)
(*   reservations.                                                         *)
(*   The calls, any number of them at once: they drive the ledger only     *)
(*   through its operations, so what is proved of the ledger holds of      *)
(*   every run; they leak no reservation; none succeeds on bad accounting. *)
(***************************************************************************)
EXTENDS ProviderCall, FiniteSetTheorems, TLAPS

(***************************************************************************)
(* The ledger.                                                             *)
(***************************************************************************)
(* What one reservation holds of a meter is a natural number.              *)
LEMMA NeedIsNat ==
  ASSUME NEW r \in Requests, NEW m \in Meters
  PROVE  NeedOf(r, m) \in Nat
<1>1. r \in Reservation
  BY RequestsAssumption
<1>2. r.need \in [CountMeters \cup {"estimated_cost_usd"} -> Nat]
  BY <1>1 DEF Reservation
<1>3. m # "known_cost_usd" => m \in CountMeters \cup {"estimated_cost_usd"}
  BY DEF Meters, CostMeters
<1> QED
  BY <1>2, <1>3 DEF NeedOf

(* The units of a single reservation are as many as its need.              *)
LEMMA UnitsOfOne ==
  ASSUME NEW i, NEW n \in Nat
  PROVE  /\ IsFiniteSet({i} \X (1 .. n))
         /\ Cardinality({i} \X (1 .. n)) = n
<1>1. IsFiniteSet({i}) /\ Cardinality({i}) = 1
  BY FS_Singleton
<1>2. IsFiniteSet(1 .. n) /\ Cardinality(1 .. n) = n
  BY FS_Interval
<1>3. /\ IsFiniteSet({i} \X (1 .. n))
      /\ Cardinality({i} \X (1 .. n)) = Cardinality({i}) * Cardinality(1 .. n)
  BY <1>1, <1>2, FS_Product
<1> QED
  BY <1>1, <1>2, <1>3

(* Disjoint finite sets add up.                                            *)
LEMMA DisjointUnion ==
  ASSUME NEW S, NEW T, IsFiniteSet(S), IsFiniteSet(T), S \cap T = {}
  PROVE  /\ IsFiniteSet(S \cup T)
         /\ Cardinality(S \cup T) = Cardinality(S) + Cardinality(T)
<1>1. Cardinality(S \cap T) = 0
  BY FS_EmptySet
<1>2. Cardinality(S) \in Nat /\ Cardinality(T) \in Nat
  BY FS_CardinalityType
<1>3. /\ IsFiniteSet(S \cup T)
      /\ Cardinality(S \cup T) = Cardinality(S) + Cardinality(T) - Cardinality(S \cap T)
  BY FS_Union
<1> QED
  BY <1>1, <1>2, <1>3

(* Granting a reservation adds exactly its need to the reserved total.     *)
LEMMA GrantAddsNeed ==
  ASSUME NEW rs, NEW m, NEW i, i \notin DOMAIN rs, NEW r, NeedOf(r, m) \in Nat,
         IsFiniteSet(ReservedUnits(rs, m))
  PROVE  /\ IsFiniteSet(ReservedUnits(Granted(rs, i, r), m))
         /\ Cardinality(ReservedUnits(Granted(rs, i, r), m))
              = Cardinality(ReservedUnits(rs, m)) + NeedOf(r, m)
<1> DEFINE own == {i} \X (1 .. NeedOf(r, m))
           grown == Granted(rs, i, r)
<1>1. IsFiniteSet(own) /\ Cardinality(own) = NeedOf(r, m)
  BY UnitsOfOne
<1>2. /\ DOMAIN grown = DOMAIN rs \cup {i} /\ grown[i] = r
      /\ \A j \in DOMAIN rs : grown[j] = rs[j]
  BY DEF Granted
<1> HIDE DEF grown
<1>3. ReservedUnits(grown, m) = ReservedUnits(rs, m) \cup own
  BY <1>2 DEF ReservedUnits
<1>4. ReservedUnits(rs, m) \cap own = {}
  BY DEF ReservedUnits
<1> HIDE DEF own
<1>5. /\ IsFiniteSet(ReservedUnits(grown, m))
      /\ Cardinality(ReservedUnits(grown, m))
           = Cardinality(ReservedUnits(rs, m)) + NeedOf(r, m)
  BY <1>1, <1>3, <1>4, DisjointUnion
<1> QED
  BY <1>5 DEF grown

(* Settling or cancelling a reservation frees exactly its need.            *)
LEMMA PopFreesNeed ==
  ASSUME NEW rs, NEW m, NEW i \in DOMAIN rs, NeedOf(rs[i], m) \in Nat,
         IsFiniteSet(ReservedUnits(rs, m))
  PROVE  /\ IsFiniteSet(ReservedUnits(Without(rs, i), m))
         /\ Cardinality(ReservedUnits(rs, m))
              = Cardinality(ReservedUnits(Without(rs, i), m)) + NeedOf(rs[i], m)
         /\ Cardinality(ReservedUnits(Without(rs, i), m)) \in Nat
<1> DEFINE rest == Without(rs, i)
           back == Granted(rest, i, rs[i])
<1>1. /\ DOMAIN rest = DOMAIN rs \ {i}
      /\ \A j \in DOMAIN rest : rest[j] = rs[j]
  BY DEF Without
<1>2. /\ DOMAIN back = DOMAIN rs
      /\ \A j \in DOMAIN rs : back[j] = rs[j]
  BY <1>1 DEF Granted
<1> HIDE DEF rest
<1>3. IsFiniteSet(ReservedUnits(rest, m))
  <2>1. ReservedUnits(rest, m) \subseteq ReservedUnits(rs, m)
    BY <1>1 DEF ReservedUnits
  <2> QED
    BY <2>1, FS_Subset
<1>4. Cardinality(ReservedUnits(rest, m)) \in Nat
  BY <1>3, FS_CardinalityType
<1>5. Cardinality(ReservedUnits(back, m))
        = Cardinality(ReservedUnits(rest, m)) + NeedOf(rs[i], m)
  BY <1>1, <1>3, GrantAddsNeed
<1> HIDE DEF back
<1>6. ReservedUnits(back, m) = ReservedUnits(rs, m)
  BY <1>2 DEF ReservedUnits
<1> QED
  BY <1>3, <1>4, <1>5, <1>6 DEF rest

-----------------------------------------------------------------------------
(* The strengthening.  Sums are only meaningful over finite sets, the      *)
(* reservations that overran name the meters that can overrun, and the     *)
(* known-cost total is checked at every settlement that adds to it.        *)
FiniteReserve == \A m \in Meters : IsFiniteSet(ReservedUnits(reservations, m))

OverrunMeters == TokenMeters \cup {"estimated_cost_usd", "tool_output_bytes"}

OverrunsAreCharged ==
  \A m \in Meters : <<m, "reservation">> \in violations => m \in OverrunMeters

KnownCostChecked ==
  violations = {} => totals["known_cost_usd"] <= Limit["known_cost_usd"]

LedgerInv ==
  /\ LedgerTypeOK
  /\ FiniteReserve
  /\ OverrunsAreCharged
  /\ KnownCostChecked
  /\ OnlyOverrunsBreakCeilings

-----------------------------------------------------------------------------
(* A new ledger, with nothing spent and nothing reserved, satisfies it.    *)
LEMMA InitEstablishes == LedgerInit => LedgerInv
<1> SUFFICES ASSUME LedgerInit PROVE LedgerInv
  OBVIOUS
<1>1. \A m \in Meters : ReservedUnits(reservations, m) = {}
  BY DEF LedgerInit, ReservedUnits
<1>2. \A m \in Meters : IsFiniteSet(ReservedUnits(reservations, m)) /\ Reserved(m) = 0
  BY <1>1, FS_EmptySet DEF Reserved
<1>3. \A m \in Meters : Spent(totals, m) = 0
  BY DEF LedgerInit, Spent, Meters, CostMeters
<1>4. LedgerTypeOK
  BY DEF LedgerInit, LedgerTypeOK
<1>5. Limit \in [Meters -> Nat]
  BY LedgerAssumption
<1> QED
  BY <1>2, <1>3, <1>4, <1>5
  DEF LedgerInv, FiniteReserve, OverrunsAreCharged, KnownCostChecked,
      OnlyOverrunsBreakCeilings, Covered, LedgerInit, Meters, CostMeters

(* Any step that removes one reservation frees its need of every meter.    *)
LEMMA PopStep ==
  ASSUME LedgerInv, NEW i, Pop(i), sequence' = sequence
  PROVE  /\ reservations[i] \in Requests
         /\ DOMAIN reservations' \subseteq 1 .. sequence'
         /\ reservations' \in [DOMAIN reservations' -> Requests]
         /\ FiniteReserve'
         /\ \A m \in Meters : /\ Reserved(m) \in Nat /\ Reserved(m)' \in Nat
                              /\ NeedOf(reservations[i], m) \in Nat
                              /\ Reserved(m) = Reserved(m)' + NeedOf(reservations[i], m)
<1>1. i \in DOMAIN reservations /\ reservations' = Without(reservations, i)
  BY DEF Pop
<1>2. reservations[i] \in Requests
  BY <1>1 DEF LedgerInv, LedgerTypeOK
<1>3. /\ DOMAIN reservations' \subseteq 1 .. sequence'
      /\ reservations' \in [DOMAIN reservations' -> Requests]
  BY <1>1 DEF LedgerInv, LedgerTypeOK, Without
<1>4. ASSUME NEW m \in Meters
      PROVE  /\ IsFiniteSet(ReservedUnits(reservations', m))
             /\ Reserved(m)' \in Nat
             /\ NeedOf(reservations[i], m) \in Nat
             /\ Reserved(m) = Reserved(m)' + NeedOf(reservations[i], m)
  <2>1. NeedOf(reservations[i], m) \in Nat
    BY <1>2, NeedIsNat
  <2>2. IsFiniteSet(ReservedUnits(reservations, m))
    BY DEF LedgerInv, FiniteReserve
  <2> QED
    BY <1>1, <2>1, <2>2, PopFreesNeed DEF Reserved
<1> QED
  BY <1>2, <1>3, <1>4 DEF FiniteReserve

(* A settlement that spends no more of a meter than it frees, unless it    *)
(* records an overrun, keeps the meter covered.                            *)
LEMMA SettlementCovers ==
  ASSUME LedgerInv, NEW i, Pop(i), sequence' = sequence,
         totals \in [Meters -> Nat], totals' \in [Meters -> Nat],
         violations \subseteq violations',
         \A m \in Meters \ {"known_cost_usd"} :
            <<m, "reservation">> \notin violations'
              => Spent(totals', m) <= Spent(totals, m) + NeedOf(reservations[i], m)
  PROVE  OnlyOverrunsBreakCeilings'
<1> SUFFICES ASSUME NEW m \in Meters \ {"known_cost_usd"},
                    <<m, "reservation">> \notin violations'
             PROVE  Spent(totals', m) + Reserved(m)' <= Limit[m]
  BY DEF OnlyOverrunsBreakCeilings, Covered
<1>1. Spent(totals, m) + Reserved(m) <= Limit[m]
  BY DEF LedgerInv, OnlyOverrunsBreakCeilings, Covered
<1>2. Spent(totals', m) <= Spent(totals, m) + NeedOf(reservations[i], m)
  OBVIOUS
<1>3. /\ Reserved(m)' \in Nat /\ NeedOf(reservations[i], m) \in Nat
      /\ Reserved(m) = Reserved(m)' + NeedOf(reservations[i], m)
  BY PopStep
<1>4. Spent(totals, m) \in Nat /\ Spent(totals', m) \in Nat /\ Limit[m] \in Nat
  BY LedgerAssumption DEF Spent, Meters, CostMeters
<1> QED
  BY <1>1, <1>2, <1>3, <1>4

-----------------------------------------------------------------------------
(* The facts about a meter's value that arithmetic steps need.             *)
LEMMA MeterFacts ==
  ASSUME LedgerTypeOK
  PROVE  /\ totals \in [Meters -> Nat] /\ Limit \in [Meters -> Nat]
         /\ \A m \in Meters : Spent(totals, m) \in Nat
BY LedgerAssumption DEF LedgerTypeOK, Spent, Meters, CostMeters

(* A granted reservation fits what HasRoom left of every meter.            *)
LEMMA ReservePreserves ==
  ASSUME LedgerInv, NEW r \in Requests, Reserve(r)
  PROVE  LedgerInv'
<1> DEFINE next == sequence + 1
<1>1. /\ reservations' = Granted(reservations, next, r) /\ sequence' = next
      /\ UNCHANGED <<now, totals, violations, unknown>>
      /\ violations = {} /\ \A m \in Meters : HasRoom(r, m)
  BY DEF Reserve, CanReserve
<1>2. sequence \in Nat /\ next \notin DOMAIN reservations
  BY DEF LedgerInv, LedgerTypeOK
<1>3. LedgerTypeOK'
  BY <1>1, <1>2 DEF LedgerInv, LedgerTypeOK, Granted
<1>4. ASSUME NEW m \in Meters
      PROVE  /\ IsFiniteSet(ReservedUnits(reservations', m))
             /\ Reserved(m) \in Nat /\ NeedOf(r, m) \in Nat
             /\ Reserved(m)' = Reserved(m) + NeedOf(r, m)
  <2>1. NeedOf(r, m) \in Nat
    BY NeedIsNat
  <2>2. IsFiniteSet(ReservedUnits(reservations, m))
    BY DEF LedgerInv, FiniteReserve
  <2>3. Cardinality(ReservedUnits(reservations, m)) \in Nat
    BY <2>2, FS_CardinalityType
  <2> HIDE DEF next
  <2> QED
    BY <1>1, <1>2, <2>1, <2>2, <2>3, GrantAddsNeed DEF Reserved
<1>5. OnlyOverrunsBreakCeilings'
  <2> SUFFICES ASSUME NEW m \in Meters \ {"known_cost_usd"}
               PROVE  Spent(totals, m) + Reserved(m)' <= Limit[m]
    BY <1>1 DEF OnlyOverrunsBreakCeilings, Covered
  <2>1. Spent(totals, m) + Reserved(m) <= Limit[m]
    BY <1>1 DEF LedgerInv, OnlyOverrunsBreakCeilings, Covered
  <2>2. NeedOf(r, m) = 0 \/ NeedOf(r, m) <= Limit[m] - Spent(totals, m) - Reserved(m)
    BY <1>1 DEF HasRoom
  <2>3. Spent(totals, m) \in Nat /\ Limit[m] \in Nat
    BY MeterFacts DEF LedgerInv
  <2> QED
    BY <1>4, <2>1, <2>2, <2>3
<1>6. FiniteReserve'
  BY <1>4 DEF FiniteReserve
<1>7. OverrunsAreCharged' /\ KnownCostChecked'
  BY <1>1 DEF LedgerInv, OverrunsAreCharged, KnownCostChecked
<1> QED
  BY <1>3, <1>5, <1>6, <1>7 DEF LedgerInv

(* A cancelled reservation frees its need and charges nothing.             *)
LEMMA CancelPreserves ==
  ASSUME LedgerInv, NEW i, CancelReservation(i)
  PROVE  LedgerInv'
<1>1. Pop(i) /\ UNCHANGED <<now, totals, sequence, violations, unknown>>
  BY DEF CancelReservation
<1>2. totals \in [Meters -> Nat] /\ \A m \in Meters : Spent(totals, m) \in Nat
  BY MeterFacts DEF LedgerInv
<1>3. \A m \in Meters : NeedOf(reservations[i], m) \in Nat
  BY <1>1, PopStep
<1>4. OnlyOverrunsBreakCeilings'
  BY <1>1, <1>2, <1>3, SettlementCovers
<1>5. LedgerTypeOK' /\ FiniteReserve'
  BY <1>1, PopStep DEF LedgerInv, LedgerTypeOK
<1> QED
  BY <1>1, <1>4, <1>5 DEF LedgerInv, OverrunsAreCharged, KnownCostChecked

(* A call that was never sent charges at most the retry it reserved.       *)
LEMMA UnsentPreserves ==
  ASSUME LedgerInv, NEW i, SettleUnsent(i)
  PROVE  LedgerInv'
<1> DEFINE r == reservations[i]
<1>1. /\ Pop(i) /\ r.kind = "provider"
      /\ totals' = [totals EXCEPT !["retries"] = @ + r.need["retries"]]
      /\ UNCHANGED <<now, sequence, violations, unknown>>
  BY DEF SettleUnsent
<1>2. /\ totals \in [Meters -> Nat] /\ \A m \in Meters : Spent(totals, m) \in Nat
  BY MeterFacts DEF LedgerInv
<1>3. r \in Requests /\ \A m \in Meters : NeedOf(r, m) \in Nat
  BY <1>1, PopStep
<1>4. r.need["retries"] \in Nat /\ NeedOf(r, "retries") = r.need["retries"]
  BY <1>1, <1>3, RequestsAssumption DEF NeedOf
<1>5. totals' \in [Meters -> Nat]
  <2>1. "retries" \in Meters
    BY DEF Meters, CountMeters, CallMeters
  <2>2. totals["retries"] + r.need["retries"] \in Nat
    BY <1>2, <1>4, <2>1
  <2> QED
    BY <1>1, <1>2, <2>2
<1>6. ASSUME NEW m \in Meters
      PROVE  Spent(totals', m) <= Spent(totals, m) + NeedOf(r, m)
  BY <1>1, <1>2, <1>3, <1>4 DEF Spent, Meters, CostMeters, CountMeters, CallMeters
<1>7. OnlyOverrunsBreakCeilings'
  BY <1>1, <1>2, <1>5, <1>6, SettlementCovers
<1>8. LedgerTypeOK' /\ FiniteReserve'
  BY <1>1, <1>5, PopStep DEF LedgerInv, LedgerTypeOK
<1>9. totals'["known_cost_usd"] = totals["known_cost_usd"]
  BY <1>1, <1>2 DEF Meters, CostMeters
<1> QED
  BY <1>1, <1>7, <1>8, <1>9 DEF LedgerInv, OverrunsAreCharged, KnownCostChecked

-----------------------------------------------------------------------------
(* A settled tool call charges what it reserved or records an overrun.     *)
LEMMA ToolPreserves ==
  ASSUME LedgerInv, NEW i, NEW bytes \in OutputSizes, SettleTool(i, bytes)
  PROVE  LedgerInv'
<1> DEFINE r == reservations[i]
           over == {m \in {"tool_output_bytes"} : bytes > r.need[m]}
<1>1. /\ Pop(i) /\ r.kind = "tool" /\ UNCHANGED <<now, sequence, unknown>>
      /\ totals' = [totals EXCEPT !["tool_calls"] = @ + 1,
                                  !["tool_output_bytes"] = @ + bytes]
      /\ violations' = violations \cup (over \X {"reservation"}) \cup CeilingsBroken(totals')
  BY DEF SettleTool
<1>2. totals \in [Meters -> Nat] /\ \A m \in Meters : Spent(totals, m) \in Nat
  BY MeterFacts DEF LedgerInv
<1>3. bytes \in Nat
  BY LedgerAssumption
<1>4. r \in Requests /\ \A m \in Meters : NeedOf(r, m) \in Nat
  BY <1>1, PopStep
<1>5. NeedOf(r, "tool_calls") = 1 /\ NeedOf(r, "tool_output_bytes") = r.need["tool_output_bytes"]
  BY <1>1, <1>4, RequestsAssumption DEF NeedOf
<1>6. /\ "tool_calls" \in Meters /\ "tool_output_bytes" \in Meters
      /\ "tool_calls" \notin CostMeters /\ "tool_output_bytes" \notin CostMeters
  BY DEF Meters, CountMeters, CallMeters, CostMeters
<1> HIDE DEF r
<1>7. /\ totals' \in [Meters -> Nat]
      /\ totals'["tool_calls"] = totals["tool_calls"] + 1
      /\ totals'["tool_output_bytes"] = totals["tool_output_bytes"] + bytes
      /\ \A m \in Meters \ {"tool_calls", "tool_output_bytes"} : totals'[m] = totals[m]
  BY <1>1, <1>2, <1>3, <1>6
<1>8. ASSUME NEW m \in Meters, <<m, "reservation">> \notin violations'
      PROVE  Spent(totals', m) <= Spent(totals, m) + NeedOf(r, m)
  <2>1. CASE m = "tool_calls"
    BY <1>2, <1>5, <1>7, <2>1 DEF Spent
  <2>2. CASE m = "tool_output_bytes"
    <3>1. bytes <= r.need["tool_output_bytes"]
      BY <1>1, <1>3, <1>4, <1>5, <1>6, <1>8, <2>2
    <3> QED
      BY <1>2, <1>3, <1>4, <1>5, <1>6, <1>7, <2>2, <3>1 DEF Spent
  <2>3. CASE m \notin {"tool_calls", "tool_output_bytes"}
    <3>1. Spent(totals', m) = Spent(totals, m)
      BY <1>6, <1>7, <2>3 DEF Spent, Meters, CostMeters
    <3> QED
      BY <1>2, <1>4, <3>1
  <2> QED
    BY <2>1, <2>2, <2>3
<1>9. OnlyOverrunsBreakCeilings'
  BY <1>1, <1>2, <1>7, <1>8, SettlementCovers DEF r
<1>10. violations' \subseteq Meters \X {"reservation", "ceiling"} /\ OverrunsAreCharged'
  BY <1>1, <1>6
  DEF LedgerInv, LedgerTypeOK, OverrunsAreCharged, OverrunMeters, CeilingsBroken
<1>11. LedgerTypeOK' /\ FiniteReserve'
  BY <1>1, <1>7, <1>10, PopStep DEF LedgerInv, LedgerTypeOK
<1>12. KnownCostChecked'
  BY <1>1, <1>6, <1>7 DEF LedgerInv, KnownCostChecked, Meters, CostMeters
<1> QED
  BY <1>9, <1>10, <1>11, <1>12 DEF LedgerInv

(* A settled provider call charges, meter by meter, what it reserved, or   *)
(* records an overrun; known cost is compared with its ceiling.            *)
LEMMA SentPreserves ==
  ASSUME LedgerInv, NEW i, NEW u, IsReport(u), SettleSent(i, u)
  PROVE  LedgerInv'
<1> DEFINE r == reservations[i]
<1>1. /\ Pop(i) /\ r.kind = "provider" /\ UNCHANGED <<now, sequence>>
      /\ totals' = [m \in Meters |-> totals[m] + ProviderCharge(r, u, m)]
      /\ violations' = violations \cup (Overrun(r, u) \X {"reservation"})
                                  \cup CeilingsBroken(totals')
      /\ unknown' = unknown \cup {k \in {"usage"} : u.usage = "unknown"}
                            \cup {k \in {"cost"} : u.cost = "unknown"}
  BY DEF SettleSent
<1>2. totals \in [Meters -> Nat] /\ Limit \in [Meters -> Nat]
  BY MeterFacts DEF LedgerInv
<1>3. r \in Requests /\ \A m \in Meters : NeedOf(r, m) \in Nat
  BY <1>1, PopStep
<1>4. r.need["model_calls"] = 1 /\ r.need["retries"] \in {0, 1}
  BY <1>1, <1>3, RequestsAssumption
<1>5. \A m \in Meters \ {"known_cost_usd"} : NeedOf(r, m) = r.need[m]
  BY DEF NeedOf
<1> HIDE DEF r
<1>6. \A m \in TokenMeters : m \notin CallMeters \cup CostMeters \cup {"tool_output_bytes"}
  BY LedgerAssumption
<1>7. /\ \A m \in Meters : ProviderCharge(r, u, m) \in Nat
      /\ \A m \in TokenMeters : ProviderCharge(r, u, m) = Observed(u, m)
      /\ ProviderCharge(r, u, "model_calls") = 1
      /\ ProviderCharge(r, u, "retries") = r.need["retries"]
      /\ ProviderCharge(r, u, "tool_calls") = 0
      /\ ProviderCharge(r, u, "tool_output_bytes") = 0
      /\ ProviderCharge(r, u, "known_cost_usd")
          + ProviderCharge(r, u, "estimated_cost_usd") = u.usd
  <2>1. u.usd \in Nat /\ \A m \in TokenMeters : Observed(u, m) \in Nat
    BY DEF IsReport, Observed
  <2>2. u.cost \in {"known", "estimated", "unknown"} /\ (u.cost = "unknown" => u.usd = 0)
    BY DEF IsReport
  <2> QED
    BY <1>4, <1>6, <2>1, <2>2
    DEF ProviderCharge, Meters, CountMeters, CallMeters, CostMeters
<1>8. totals' \in [Meters -> Nat] /\ \A m \in Meters : totals'[m] = totals[m] + ProviderCharge(r, u, m)
  BY <1>1, <1>2, <1>7
<1>9. ASSUME NEW m \in Meters \ {"known_cost_usd"}, <<m, "reservation">> \notin violations'
      PROVE  Spent(totals', m) <= Spent(totals, m) + NeedOf(r, m)
  <2>1. m \notin Overrun(r, u)
    BY <1>1, <1>9
  <2>2. CASE m \in TokenMeters
    <3>1. Observed(u, m) <= r.need[m]
      BY <1>3, <1>5, <1>7, <2>1, <2>2 DEF Overrun
    <3> QED
      BY <1>2, <1>3, <1>5, <1>6, <1>7, <1>8, <2>2, <3>1 DEF Spent, CostMeters
  <2>3. CASE m \in CallMeters \cup {"tool_output_bytes"}
    BY <1>2, <1>3, <1>4, <1>5, <1>7, <1>8, <2>3 DEF Spent, CallMeters
  <2>4. CASE m = "estimated_cost_usd"
    <3>1. u.usd <= r.need[m]
      BY <1>3, <1>5, <1>7, <2>1, <2>4 DEF Overrun, IsReport
    <3> DEFINE k == ProviderCharge(r, u, "known_cost_usd")
               e == ProviderCharge(r, u, "estimated_cost_usd")
    <3>2. /\ k \in Nat /\ e \in Nat /\ k + e = u.usd
          /\ totals'["known_cost_usd"] = totals["known_cost_usd"] + k
          /\ totals'["estimated_cost_usd"] = totals["estimated_cost_usd"] + e
          /\ totals["known_cost_usd"] \in Nat /\ totals["estimated_cost_usd"] \in Nat
      BY <1>2, <1>7, <1>8 DEF Meters, CostMeters
    <3> HIDE DEF k, e
    <3> QED
      BY <1>3, <1>5, <2>4, <3>1, <3>2 DEF Spent
  <2> QED
    BY <2>2, <2>3, <2>4 DEF Meters, CountMeters, CostMeters
<1>10. OnlyOverrunsBreakCeilings'
  BY <1>1, <1>2, <1>8, <1>9, SettlementCovers DEF r
<1>11. violations' \subseteq Meters \X {"reservation", "ceiling"} /\ OverrunsAreCharged'
  BY <1>1
  DEF LedgerInv, LedgerTypeOK, OverrunsAreCharged, OverrunMeters, CeilingsBroken, Overrun,
      Meters, CountMeters, CostMeters
<1>12. LedgerTypeOK' /\ FiniteReserve'
  BY <1>1, <1>8, <1>11, PopStep DEF LedgerInv, LedgerTypeOK
<1>13. KnownCostChecked'
  <2>1. "known_cost_usd" \in Meters
    BY DEF Meters, CostMeters
  <2>2. Spent(totals', "known_cost_usd") = totals'["known_cost_usd"]
    BY DEF Spent
  <2>3. Spent(totals', "known_cost_usd") > Limit["known_cost_usd"]
          => <<"known_cost_usd", "ceiling">> \in violations'
    BY <1>1, <2>1 DEF CeilingsBroken
  <2>4. totals'["known_cost_usd"] \in Nat /\ Limit["known_cost_usd"] \in Nat
    BY <1>2, <1>8, <2>1
  <2> QED
    BY <2>2, <2>3, <2>4 DEF KnownCostChecked
<1> QED
  BY <1>10, <1>11, <1>12, <1>13 DEF LedgerInv

-----------------------------------------------------------------------------
(* Every operation of the ledger preserves the invariant.                  *)
LEMMA StepPreserves == LedgerInv /\ [LedgerNext]_ledgerVars => LedgerInv'
<1> SUFFICES ASSUME LedgerInv, [LedgerNext]_ledgerVars PROVE LedgerInv'
  OBVIOUS
<1>1. CASE Tick
  BY <1>1 DEF Tick, LedgerInv, LedgerTypeOK, FiniteReserve, OverrunsAreCharged,
              KnownCostChecked, OnlyOverrunsBreakCeilings, Covered, Reserved
<1>2. ASSUME NEW r \in Requests, Reserve(r) PROVE LedgerInv'
  BY <1>2, ReservePreserves
<1>3. ASSUME NEW i \in DOMAIN reservations, CancelReservation(i) PROVE LedgerInv'
  BY <1>3, CancelPreserves
<1>4. ASSUME NEW i \in DOMAIN reservations, SettleUnsent(i) PROVE LedgerInv'
  BY <1>4, UnsentPreserves
<1>5. ASSUME NEW i \in DOMAIN reservations, NEW u \in Reports, SettleSent(i, u)
      PROVE  LedgerInv'
  BY <1>5, ReportsAssumption, SentPreserves
<1>6. ASSUME NEW i \in DOMAIN reservations, NEW bytes \in OutputSizes, SettleTool(i, bytes)
      PROVE  LedgerInv'
  BY <1>6, ToolPreserves
<1>7. CASE UNCHANGED ledgerVars
  BY <1>7 DEF ledgerVars, LedgerInv, LedgerTypeOK, FiniteReserve, OverrunsAreCharged,
              KnownCostChecked, OnlyOverrunsBreakCeilings, Covered, Reserved
<1> QED
  BY <1>1, <1>2, <1>3, <1>4, <1>5, <1>6, <1>7 DEF LedgerNext

(* The inductive invariant holds of the ledger under any use of it.        *)
THEOREM LedgerInvariant == LedgerSpec => []LedgerInv
<1> QED
  BY InitEstablishes, StepPreserves, PTL DEF LedgerSpec

(* The ledger's variables keep their types.                                *)
THEOREM LedgerTypeCorrect == LedgerSpec => []LedgerTypeOK
<1>1. LedgerInv => LedgerTypeOK
  BY DEF LedgerInv
<1> QED
  BY <1>1, LedgerInvariant, PTL

(* reserve_provider_call and reserve_tool_call never overcommit a meter    *)
(* that no settlement has overrun, for any ceilings and any callers.       *)
THEOREM ReserveBeforeDispatch == LedgerSpec => []OnlyOverrunsBreakCeilings
<1>1. LedgerInv => OnlyOverrunsBreakCeilings
  BY DEF LedgerInv
<1> QED
  BY <1>1, LedgerInvariant, PTL

(* No accounting failure lets more calls, retries or tool calls through.   *)
THEOREM CallLimits == LedgerSpec => []CallLimitsAreHard
<1>1. LedgerInv => CallLimitsAreHard
  BY LedgerAssumption
  DEF LedgerInv, CallLimitsAreHard, OnlyOverrunsBreakCeilings, OverrunsAreCharged,
      OverrunMeters, CallMeters, Meters, CountMeters, CostMeters
<1> QED
  BY <1>1, LedgerInvariant, PTL

(* The snapshot's healthy flag can be believed: every total is within its  *)
(* ceiling, known cost included.                                           *)
THEOREM HealthyIsWithin == LedgerSpec => []HealthyWithinCeilings
<1>1. LedgerInv => HealthyWithinCeilings
  <2> SUFFICES ASSUME LedgerInv, Healthy, NEW m \in Meters
               PROVE  Spent(totals, m) <= Limit[m]
    BY DEF HealthyWithinCeilings
  <2>1. CASE m = "known_cost_usd"
    BY <2>1 DEF LedgerInv, KnownCostChecked, Healthy, Spent
  <2>2. CASE m # "known_cost_usd"
    <3>1. Spent(totals, m) + Reserved(m) <= Limit[m]
      BY <2>2 DEF LedgerInv, OnlyOverrunsBreakCeilings, Covered, Healthy
    <3>2. Reserved(m) \in Nat
      BY FS_CardinalityType DEF LedgerInv, FiniteReserve, Reserved
    <3>3. Spent(totals, m) \in Nat /\ Limit[m] \in Nat
      BY MeterFacts DEF LedgerInv
    <3> QED
      BY <3>1, <3>2, <3>3
  <2> QED
    BY <2>1, <2>2
<1> QED
  BY <1>1, LedgerInvariant, PTL

-----------------------------------------------------------------------------
(* No settlement charges a negative amount to any meter.                   *)
LEMMA ChargeIsNat ==
  ASSUME NEW r \in Requests, r.kind = "provider", NEW u, IsReport(u), NEW m \in Meters
  PROVE  ProviderCharge(r, u, m) \in Nat
<1>1. r.need["retries"] \in {0, 1}
  BY RequestsAssumption
<1>2. u.usd \in Nat /\ (m \in TokenMeters => Observed(u, m) \in Nat)
  BY DEF IsReport, Observed
<1> QED
  BY <1>1, <1>2 DEF ProviderCharge

(* No operation of the ledger takes back what was spent or recorded, and   *)
(* an unhealthy ledger grants nothing.                                     *)
LEMMA StepOnlyGrows ==
  ASSUME LedgerInv, LedgerNext
  PROVE  AccountingOnlyGrows
<1>1. /\ totals \in [Meters -> Nat]
      /\ reservations \in [DOMAIN reservations -> Requests]
  BY DEF LedgerInv, LedgerTypeOK
<1>2. CASE Tick
  BY <1>1, <1>2 DEF Tick, AccountingOnlyGrows
<1>3. ASSUME NEW r \in Requests, Reserve(r) PROVE AccountingOnlyGrows
  BY <1>1, <1>3 DEF Reserve, CanReserve, Healthy, AccountingOnlyGrows
<1>4. ASSUME NEW i, Pop(i) PROVE DOMAIN reservations' \subseteq DOMAIN reservations
  BY <1>4 DEF Pop, Without
<1>5. ASSUME NEW i \in DOMAIN reservations, CancelReservation(i) PROVE AccountingOnlyGrows
  BY <1>1, <1>4, <1>5 DEF CancelReservation, AccountingOnlyGrows
<1>6. ASSUME NEW i \in DOMAIN reservations, SettleUnsent(i) PROVE AccountingOnlyGrows
  <2> DEFINE r == reservations[i]
  <2>1. r \in Requests /\ r.kind = "provider"
    BY <1>1, <1>6 DEF SettleUnsent
  <2>2. r.need["retries"] \in {0, 1}
    BY <2>1, RequestsAssumption
  <2>3. totals' = [totals EXCEPT !["retries"] = @ + r.need["retries"]]
    BY <1>6 DEF SettleUnsent
  <2> HIDE DEF r
  <2>4. \A m \in Meters : totals'[m] >= totals[m]
    BY <1>1, <2>2, <2>3
  <2> QED
    BY <1>4, <1>6, <2>4 DEF SettleUnsent, AccountingOnlyGrows
<1>7. ASSUME NEW i \in DOMAIN reservations, NEW u \in Reports, SettleSent(i, u)
      PROVE  AccountingOnlyGrows
  <2> DEFINE r == reservations[i]
  <2>1. r \in Requests /\ r.kind = "provider" /\ IsReport(u)
    BY <1>1, <1>7, ReportsAssumption DEF SettleSent
  <2>2. totals' = [m \in Meters |-> totals[m] + ProviderCharge(r, u, m)]
    BY <1>7 DEF SettleSent
  <2> HIDE DEF r
  <2>3. \A m \in Meters : ProviderCharge(r, u, m) \in Nat
    BY <2>1, ChargeIsNat
  <2>4. \A m \in Meters : totals'[m] >= totals[m]
    BY <1>1, <2>2, <2>3
  <2> QED
    BY <1>4, <1>7, <2>4 DEF SettleSent, AccountingOnlyGrows
<1>8. ASSUME NEW i \in DOMAIN reservations, NEW bytes \in OutputSizes, SettleTool(i, bytes)
      PROVE  AccountingOnlyGrows
  <2>1. bytes \in Nat
    BY LedgerAssumption
  <2>2. totals' = [totals EXCEPT !["tool_calls"] = @ + 1, !["tool_output_bytes"] = @ + bytes]
    BY <1>8 DEF SettleTool
  <2>3. \A m \in Meters : totals'[m] >= totals[m]
    BY <1>1, <2>1, <2>2
  <2> QED
    BY <1>4, <1>8, <2>3 DEF SettleTool, AccountingOnlyGrows
<1> QED
  BY <1>2, <1>3, <1>5, <1>6, <1>7, <1>8 DEF LedgerNext

(* Accounting that went wrong is never forgiven.                           *)
THEOREM MonotoneAccounting == LedgerSpec => AccountingIsMonotone
<1>1. LedgerInv /\ [LedgerNext]_ledgerVars => [AccountingOnlyGrows]_ledgerVars
  BY StepOnlyGrows
<1> QED
  BY <1>1, LedgerInvariant, PTL DEF LedgerSpec, AccountingIsMonotone

(***************************************************************************)
(* The calls.                                                              *)
(***************************************************************************)
(* Every thread starts idle, with empty slots and no result.               *)
LEMMA InitTyped == Init => CallsTypeOK
BY DEF Init, CallsTypeOK, Phases, Slots, Statuses, Pending

(* What a call finds in its slot is an answer with a known kind of report. *)
LEMMA TakenIsAnswer ==
  ASSUME CallsTypeOK, NEW c \in Calls, phase[c] = "answered"
  PROVE  /\ taken[c][1] \in Answers
         /\ IsAnswer(taken[c][1])
<1>1. taken[c] \in {<<a>> : a \in Answers}
  BY DEF CallsTypeOK, Slots
<1>2. taken[c][1] \in Answers
  BY <1>1
<1> QED
  BY <1>2, CallsAssumption

(* Every step of a call is an operation of the ledger or leaves it alone.  *)
LEMMA StepUsesLedger ==
  ASSUME CallsTypeOK, [Next]_vars
  PROVE  [LedgerNext]_ledgerVars
<1>1. CASE TimePasses
  BY <1>1 DEF TimePasses, LedgerNext
<1>2. ASSUME NEW c \in Calls, Controller(c)
      PROVE  [LedgerNext]_ledgerVars
  <2>1. ASSUME NEW i, CancelReservation(i)
        PROVE  LedgerNext
    BY <2>1 DEF CancelReservation, Pop, LedgerNext
  <2>2. ASSUME NEW i, SettleUnsent(i)
        PROVE  LedgerNext
    BY <2>2 DEF SettleUnsent, Pop, LedgerNext
  <2>3. ASSUME NEW i, NEW u \in Reports, SettleSent(i, u)
        PROVE  LedgerNext
    BY <2>3 DEF SettleSent, Pop, LedgerNext
  <2>4. UnknownReport \in Reports /\ RequestOf[c] \in Requests
    BY CallsAssumption
  <2>5. phase[c] = "answered" => taken[c][1].usage \in Reports
    BY TakenIsAnswer DEF IsAnswer
  <2>6. CASE ReserveCall(c)
    BY <2>4, <2>6 DEF ReserveCall, LedgerNext
  <2>7. CASE OutOfTime(c)
    BY <2>1, <2>7 DEF OutOfTime
  <2>8. CASE PollCancelled(c) \/ PollDeadline(c)
    BY <2>3, <2>4, <2>8 DEF PollCancelled, PollDeadline, Abandon
  <2>9. CASE SettleResult(c)
    BY <2>3, <2>5, <2>9 DEF SettleResult
  <2>10. CASE SettleError(c)
    BY <2>2, <2>3, <2>5, <2>10 DEF SettleError
  <2>11. CASE SettleOther(c)
    BY <2>3, <2>4, <2>11 DEF SettleOther
  <2>12. CASE CheckCancelled(c) \/ RefuseCall(c) \/ ReadTimeout(c) \/ StartWorker(c)
              \/ StartFails(c) \/ TakeAnswer(c)
    BY <2>12 DEF CheckCancelled, RefuseCall, ReadTimeout, StartWorker, StartFails, TakeAnswer
  <2> QED
    BY <1>2, <2>6, <2>7, <2>8, <2>9, <2>10, <2>11, <2>12 DEF Controller
<1>3. ASSUME NEW c \in Calls, Cancel(c) \/ \E a \in Answers : WorkerAnswers(c, a)
      PROVE  UNCHANGED ledgerVars
  BY <1>3 DEF Cancel, WorkerAnswers
<1>4. CASE UNCHANGED vars
  BY <1>4 DEF vars
<1> QED
  BY <1>1, <1>2, <1>3, <1>4 DEF Next

-----------------------------------------------------------------------------
(* A call that returns leaves its result and its program counter typed.    *)
LEMMA ReturnTyped ==
  ASSUME CallsTypeOK, NEW c \in Calls, NEW from, from # "returned",
         NEW status \in Statuses, NEW sent \in BOOLEAN, Return(c, from, status, sent)
  PROVE  /\ phase' \in [Calls -> Phases]
         /\ result' \in [Calls -> [status : Statuses, sent : BOOLEAN]]
         /\ \A d \in Calls : phase'[d] = "answered" => phase[d] = "answered"
BY DEF CallsTypeOK, Return, Goto, Phases

(* Every step keeps the types of threads, workers, queues and results.     *)
LEMMA StepTyped ==
  ASSUME LedgerInv, CallsTypeOK, [Next]_vars
  PROVE  CallsTypeOK'
<1>1. CASE TimePasses \/ UNCHANGED vars
  BY <1>1 DEF TimePasses, vars, callVars, CallsTypeOK
<1>2. ASSUME NEW c \in Calls, Controller(c)
      PROVE  CallsTypeOK'
  <2>1. now \in Nat /\ sequence \in Nat /\ MaxWall \in Nat /\ MaxNow \in Nat
    BY LedgerAssumption DEF LedgerInv, LedgerTypeOK
  <2>2. ProviderDeadline \in Nat
    BY CallsAssumption
  <2>3. {"succeeded", "failed", "cancelled", "deadline", "rejected"} \subseteq Statuses
    BY DEF Statuses
  <2>4. CASE CheckCancelled(c)
    <3>1. CASE cancelled[c]
      BY <2>3, <2>4, <3>1, ReturnTyped DEF CheckCancelled, CallsTypeOK
    <3>2. CASE ~cancelled[c]
      BY <2>4, <3>2 DEF CheckCancelled, CallsTypeOK, Goto, Phases
    <3> QED
      BY <3>1, <3>2
  <2>5. CASE ReserveCall(c)
    <3>1. sequence' \in Nat
      BY <2>1, <2>5 DEF ReserveCall, Reserve
    <3> QED
      BY <2>5, <3>1 DEF ReserveCall, CallsTypeOK, Goto, Phases
  <2>6. CASE RefuseCall(c)
    BY <2>3, <2>6, ReturnTyped DEF RefuseCall, CallsTypeOK
  <2>7. CASE ReadTimeout(c)
    <3>1. ProviderTimeout \in Nat
      BY <2>1, <2>2 DEF ProviderTimeout, TimeLeft
    <3> QED
      BY <2>7, <3>1 DEF ReadTimeout, CallsTypeOK, Goto, Phases
  <2>8. CASE OutOfTime(c)
    BY <2>3, <2>8, ReturnTyped DEF OutOfTime, CallsTypeOK
  <2>9. CASE StartWorker(c)
    <3>1. OnClock(now + timeout[c]) \in Nat
      BY <2>1 DEF OnClock, CallsTypeOK
    <3> QED
      BY <2>9, <3>1 DEF StartWorker, CallsTypeOK, Goto, Phases
  <2>10. CASE StartFails(c)
    BY <2>10 DEF StartFails, CallsTypeOK, Goto, Phases
  <2>11. CASE PollCancelled(c) \/ PollDeadline(c)
    BY <2>3, <2>11, ReturnTyped DEF PollCancelled, PollDeadline, Abandon, CallsTypeOK
  <2>12. CASE TakeAnswer(c)
    BY <2>12 DEF TakeAnswer, CallsTypeOK, Goto, Phases, Slots
  <2>13. CASE SettleResult(c)
    BY <2>3, <2>13, ReturnTyped DEF SettleResult, CallsTypeOK
  <2>14. CASE SettleError(c)
    <3>1. taken[c][1].ends \in Statuses /\ taken[c][1].sent \in BOOLEAN
      BY <2>3, <2>14, TakenIsAnswer DEF SettleError, IsAnswer
    <3> DEFINE ends == taken[c][1].ends
               sent == taken[c][1].sent
    <3>2. /\ Return(c, "answered", ends, sent)
          /\ UNCHANGED <<ticket, timeout, deadline, cancelled, worker, queue, taken>>
      BY <2>14 DEF SettleError
    <3> HIDE DEF ends, sent
    <3>3. ends \in Statuses /\ sent \in BOOLEAN
      BY <3>1 DEF ends, sent
    <3>4. /\ phase' \in [Calls -> Phases]
          /\ result' \in [Calls -> [status : Statuses, sent : BOOLEAN]]
          /\ \A d \in Calls : phase'[d] = "answered" => phase[d] = "answered"
      BY <3>2, <3>3, ReturnTyped
    <3> QED
      BY <3>2, <3>4 DEF CallsTypeOK
  <2>15. CASE SettleOther(c)
    BY <2>3, <2>15, ReturnTyped DEF SettleOther, CallsTypeOK
  <2> QED
    BY <1>2, <2>4, <2>5, <2>6, <2>7, <2>8, <2>9, <2>10, <2>11, <2>12, <2>13, <2>14, <2>15
    DEF Controller
<1>3. ASSUME NEW c \in Calls, Cancel(c)
      PROVE  CallsTypeOK'
  BY <1>3 DEF Cancel, CallsTypeOK
<1>4. ASSUME NEW c \in Calls, NEW a \in Answers, WorkerAnswers(c, a)
      PROVE  CallsTypeOK'
  BY <1>4 DEF WorkerAnswers, CallsTypeOK, Slots
<1> QED
  BY <1>1, <1>2, <1>3, <1>4 DEF Next

(* The ledger's inductive invariant holds under the calls, and the calls   *)
(* are typed.                                                              *)
THEOREM CallsInvariant == Spec => [](LedgerInv /\ CallsTypeOK)
<1>1. Init => LedgerInv /\ CallsTypeOK
  BY InitTyped, InitEstablishes DEF Init
<1>2. LedgerInv /\ CallsTypeOK /\ [Next]_vars => (LedgerInv /\ CallsTypeOK)'
  BY StepTyped, StepUsesLedger, StepPreserves
<1> QED
  BY <1>1, <1>2, PTL DEF Spec

(* Any number of calls, with their workers, deadlines and cancellations,   *)
(* implements the ledger's specification.                                  *)
THEOREM CallsUseTheLedger == Spec => LedgerSpec
<1>1. Init => LedgerInit
  BY DEF Init
<1>2. CallsTypeOK /\ [Next]_vars => [LedgerNext]_ledgerVars
  BY StepUsesLedger
<1> QED
  BY <1>1, <1>2, CallsInvariant, PTL DEF Spec, LedgerSpec

(* Types of the ledger and of the calls.                                   *)
THEOREM CallsTypeCorrect == Spec => []TypeOK
<1>1. LedgerInv /\ CallsTypeOK => TypeOK
  BY DEF LedgerInv, TypeOK
<1> QED
  BY <1>1, CallsInvariant, PTL

(* No interleaving of calls spends more model calls or retries than the    *)
(* task allows.                                                            *)
THEOREM CallsStayWithinLimits == Spec => []CallLimitsAreHard
BY CallsUseTheLedger, CallLimits, PTL

-----------------------------------------------------------------------------
(* A call that gives its reservation up, and returns, takes exactly its    *)
(* own reservation out of the ledger.                                      *)
LEMMA GivingUpKeepsOwners ==
  ASSUME CallsTypeOK, ReservationsHaveOwners, NEW c \in Calls, NEW from, Holding(c),
         Pop(ticket[c]), Goto(c, from, "returned"), UNCHANGED ticket
  PROVE  ReservationsHaveOwners'
<1>1. \A d \in Calls : Holding(d)' <=> (Holding(d) /\ d # c)
  BY DEF Holding, Goto, CallsTypeOK
<1>2. DOMAIN reservations' = DOMAIN reservations \ {ticket[c]}
  BY DEF Pop, Without
<1>3. DOMAIN reservations' = {ticket[d] : d \in {e \in Calls : Holding(e)'}}
  BY <1>1, <1>2 DEF ReservationsHaveOwners
<1> QED
  BY <1>1, <1>3 DEF ReservationsHaveOwners, Holding

(* A step that changes neither the reservations nor who holds one.         *)
LEMMA SameHoldersKeepOwners ==
  ASSUME ReservationsHaveOwners, UNCHANGED <<reservations, ticket>>,
         \A d \in Calls : Holding(d)' <=> Holding(d)
  PROVE  ReservationsHaveOwners'
<1>1. {d \in Calls : Holding(d)'} = {d \in Calls : Holding(d)}
  OBVIOUS
<1>2. DOMAIN reservations' = {ticket'[d] : d \in {e \in Calls : Holding(e)'}}
  BY <1>1 DEF ReservationsHaveOwners
<1>3. \A d, e \in Calls : Holding(d)' /\ Holding(e)' /\ d # e => ticket'[d] # ticket'[e]
  BY DEF ReservationsHaveOwners
<1> QED
  BY <1>2, <1>3 DEF ReservationsHaveOwners, Holding

(* A granted reservation has a new number, so it collides with nobody's.   *)
LEMMA ReserveKeepsOwners ==
  ASSUME LedgerInv, CallsTypeOK, ReservationsHaveOwners, NEW c \in Calls, ReserveCall(c)
  PROVE  ReservationsHaveOwners'
<1>1. /\ sequence \in Nat /\ sequence + 1 \notin DOMAIN reservations
      /\ sequence' = sequence + 1
      /\ DOMAIN reservations' = DOMAIN reservations \cup {sequence + 1}
  BY DEF LedgerInv, LedgerTypeOK, ReserveCall, Reserve, Granted
<1>2. /\ ticket'[c] = sequence + 1
      /\ \A d \in Calls : d # c => ticket'[d] = ticket[d]
  BY <1>1 DEF ReserveCall, CallsTypeOK
<1>3. /\ ~Holding(c) /\ Holding(c)'
      /\ \A d \in Calls : d # c => (Holding(d)' <=> Holding(d))
  BY DEF ReserveCall, Goto, Holding, CallsTypeOK
<1>4. \A d \in Calls : Holding(d) => ticket[d] \in DOMAIN reservations
  BY DEF ReservationsHaveOwners
<1>5. DOMAIN reservations' = {ticket'[d] : d \in {e \in Calls : Holding(e)'}}
  BY <1>1, <1>2, <1>3 DEF ReservationsHaveOwners
<1>6. \A d, e \in Calls : Holding(d)' /\ Holding(e)' /\ d # e => ticket'[d] # ticket'[e]
  BY <1>1, <1>2, <1>3, <1>4 DEF ReservationsHaveOwners
<1> QED
  BY <1>5, <1>6 DEF ReservationsHaveOwners, Holding

(* Every step keeps open reservations and their holders in step.           *)
LEMMA StepKeepsOwners ==
  ASSUME LedgerInv, CallsTypeOK, ReservationsHaveOwners, [Next]_vars
  PROVE  ReservationsHaveOwners'
<1>1. CASE TimePasses \/ UNCHANGED vars
  BY <1>1, SameHoldersKeepOwners DEF TimePasses, Tick, vars, ledgerVars, callVars, Holding
<1>2. ASSUME NEW c \in Calls, Cancel(c) \/ \E a \in Answers : WorkerAnswers(c, a)
      PROVE  ReservationsHaveOwners'
  BY <1>2, SameHoldersKeepOwners DEF Cancel, WorkerAnswers, ledgerVars, Holding
<1>3. ASSUME NEW c \in Calls, Controller(c)
      PROVE  ReservationsHaveOwners'
  <2>1. CASE ReserveCall(c)
    BY <2>1, ReserveKeepsOwners
  <2>2. CASE CheckCancelled(c) \/ RefuseCall(c)
    <3>1. \A d \in Calls : Holding(d)' <=> Holding(d)
      BY <2>2 DEF CheckCancelled, RefuseCall, Return, Goto, Holding, CallsTypeOK
    <3> QED
      BY <2>2, <3>1, SameHoldersKeepOwners DEF CheckCancelled, RefuseCall, ledgerVars
  <2>3. CASE ReadTimeout(c) \/ StartWorker(c) \/ StartFails(c) \/ TakeAnswer(c)
    <3>1. \A d \in Calls : Holding(d)' <=> Holding(d)
      BY <2>3 DEF ReadTimeout, StartWorker, StartFails, TakeAnswer, Goto, Holding, CallsTypeOK
    <3> QED
      BY <2>3, <3>1, SameHoldersKeepOwners
      DEF ReadTimeout, StartWorker, StartFails, TakeAnswer, ledgerVars
  <2>4. CASE OutOfTime(c)
    BY <2>4, GivingUpKeepsOwners DEF OutOfTime, CancelReservation, Return, Goto, Holding
  <2>5. CASE PollCancelled(c) \/ PollDeadline(c)
    BY <2>5, GivingUpKeepsOwners
    DEF PollCancelled, PollDeadline, Abandon, SettleSent, Return, Holding
  <2>6. CASE SettleResult(c) \/ SettleError(c) \/ SettleOther(c)
    BY <2>6, GivingUpKeepsOwners
    DEF SettleResult, SettleError, SettleOther, SettleSent, SettleUnsent, Return, Holding
  <2> QED
    BY <1>3, <2>1, <2>2, <2>3, <2>4, <2>5, <2>6 DEF Controller
<1> QED
  BY <1>1, <1>2, <1>3 DEF Next

(* No call leaks its reservation, and none settles another's, but for a    *)
(* thread that could not be started.                                       *)
THEOREM ReservationsOwned == Spec => []ReservationsHaveOwners
<1>1. Init => ReservationsHaveOwners
  BY DEF Init, LedgerInit, ReservationsHaveOwners, Holding
<1>2. /\ LedgerInv /\ CallsTypeOK /\ ReservationsHaveOwners /\ [Next]_vars
      => ReservationsHaveOwners'
  BY StepKeepsOwners
<1> QED
  BY <1>1, <1>2, CallsInvariant, PTL DEF Spec

-----------------------------------------------------------------------------
(* Only the settlement of a valid result makes a call succeed.             *)
LEMMA StepSuccessIsHealthy ==
  ASSUME LedgerInv, CallsTypeOK, Next
  PROVE  SuccessIsHealthy
<1> SUFFICES ASSUME NEW c \in Calls,
                    result'[c].status = "succeeded", result[c].status # "succeeded"
             PROVE  Healthy /\ Healthy' /\ now < MaxWall
  BY DEF SuccessIsHealthy
<1>1. PICK d \in Calls : Controller(d)
  BY DEF Next, TimePasses, callVars, Cancel, WorkerAnswers
<1>2. ASSUME NEW status, NEW sent, NEW from, Return(d, from, status, sent)
      PROVE  status = "succeeded"
  BY <1>2 DEF Return, CallsTypeOK
<1>3. SettleResult(d)
  <2>1. phase[d] = "answered" => taken[d][1].ends # "succeeded"
    BY TakenIsAnswer DEF IsAnswer
  <2>2. ~SettleError(d)
    BY <1>2, <2>1 DEF SettleError
  <2>3. ~(CheckCancelled(d) \/ RefuseCall(d) \/ OutOfTime(d) \/ SettleOther(d))
    BY <1>2 DEF CheckCancelled, RefuseCall, OutOfTime, SettleOther
  <2>4. ~(PollCancelled(d) \/ PollDeadline(d))
    BY <1>2 DEF PollCancelled, PollDeadline, Abandon
  <2>5. ~(ReserveCall(d) \/ ReadTimeout(d) \/ StartWorker(d) \/ StartFails(d) \/ TakeAnswer(d))
    BY DEF ReserveCall, ReadTimeout, StartWorker, StartFails, TakeAnswer
  <2> QED
    BY <1>1, <2>2, <2>3, <2>4, <2>5 DEF Controller
<1>4. Healthy' /\ ~DeadlineExceeded
  <2> DEFINE status == IF Healthy' /\ ~DeadlineExceeded THEN "succeeded" ELSE "failed"
  <2>1. Return(d, "answered", status, TRUE)
    BY <1>3 DEF SettleResult
  <2>2. status = "succeeded"
    BY <1>2, <2>1
  <2> QED
    BY <2>2
<1>5. violations \subseteq violations' /\ unknown \subseteq unknown'
  BY <1>3 DEF SettleResult, SettleSent
<1>6. Healthy
  BY <1>4, <1>5 DEF Healthy
<1>7. now \in Nat /\ MaxWall \in Nat
  BY LedgerAssumption DEF LedgerInv, LedgerTypeOK
<1> QED
  BY <1>4, <1>6, <1>7 DEF DeadlineExceeded

(* No call succeeds once any call made the accounting invalid or unknown.  *)
THEOREM SuccessIsEarned == Spec => SuccessNeedsHealth
<1>1. LedgerInv /\ CallsTypeOK /\ [Next]_vars => [SuccessIsHealthy]_vars
  BY StepSuccessIsHealthy
<1> QED
  BY <1>1, CallsInvariant, PTL DEF Spec, SuccessNeedsHealth

-----------------------------------------------------------------------------
ChargedCalls == {c \in Calls : Charged(c)}

(* A settled sent call adds one model call and itself to the charged ones. *)
LEMMA ChargeOne ==
  ASSUME LedgerInv, CallsTypeOK, ChargedExactlyOnce, NEW c \in Calls, NEW from,
         from # "returned", NEW status, NEW i, NEW u,
         SettleSent(i, u), Return(c, from, status, TRUE)
  PROVE  ChargedExactlyOnce'
<1>1. c \notin ChargedCalls
  BY DEF ChargedCalls, Charged, Return, Goto
<1>2. ChargedCalls' = ChargedCalls \cup {c}
  BY DEF ChargedCalls, Charged, Return, Goto, CallsTypeOK
<1>3. IsFiniteSet(ChargedCalls)
  BY CallsAssumption, FS_Subset DEF ChargedCalls
<1>4. Cardinality(ChargedCalls') = Cardinality(ChargedCalls) + 1
  BY <1>1, <1>2, <1>3, FS_AddElement
<1>5. "model_calls" \in Meters /\ "model_calls" \notin TokenMeters
  BY LedgerAssumption DEF Meters, CountMeters, CallMeters
<1>6. totals'["model_calls"] = totals["model_calls"] + 1
  BY <1>5 DEF SettleSent, ProviderCharge
<1> QED
  BY <1>4, <1>6 DEF ChargedExactlyOnce, ChargedCalls

(* A step that charges no model call and returns nobody as sent.           *)
LEMMA ChargeNobody ==
  ASSUME ChargedExactlyOnce, totals'["model_calls"] = totals["model_calls"],
         \A c \in Calls : Charged(c)' <=> Charged(c)
  PROVE  ChargedExactlyOnce'
<1>1. {c \in Calls : Charged(c)'} = {c \in Calls : Charged(c)}
  OBVIOUS
<1> QED
  BY <1>1 DEF ChargedExactlyOnce, Charged

(* Every step keeps the model calls and the charged calls in step.         *)
LEMMA StepChargesOnce ==
  ASSUME LedgerInv, CallsTypeOK, ChargedExactlyOnce, [Next]_vars
  PROVE  ChargedExactlyOnce'
<1>1. CASE TimePasses \/ UNCHANGED vars
  BY <1>1, ChargeNobody DEF TimePasses, Tick, vars, ledgerVars, callVars, Charged
<1>2. ASSUME NEW c \in Calls, Cancel(c) \/ \E a \in Answers : WorkerAnswers(c, a)
      PROVE  ChargedExactlyOnce'
  BY <1>2, ChargeNobody DEF Cancel, WorkerAnswers, ledgerVars, Charged
<1>3. ASSUME NEW c \in Calls, Controller(c)
      PROVE  ChargedExactlyOnce'
  <2>1. ASSUME NEW from, from # "returned", NEW status, Return(c, from, status, FALSE)
        PROVE  \A d \in Calls : Charged(d)' <=> Charged(d)
    BY <2>1 DEF Return, Goto, Charged, CallsTypeOK
  <2>2. ASSUME NEW from, from # "returned", NEW to, to # "returned", Goto(c, from, to),
               UNCHANGED result
        PROVE  \A d \in Calls : Charged(d)' <=> Charged(d)
    BY <2>2 DEF Goto, Charged, CallsTypeOK
  <2>3. CASE CheckCancelled(c)
    BY <2>1, <2>2, <2>3, ChargeNobody DEF CheckCancelled, ledgerVars
  <2>4. CASE ReserveCall(c)
    BY <2>2, <2>4, ChargeNobody DEF ReserveCall, Reserve
  <2>5. CASE RefuseCall(c)
    BY <2>1, <2>5, ChargeNobody DEF RefuseCall, ledgerVars
  <2>6. CASE ReadTimeout(c) \/ StartWorker(c) \/ StartFails(c) \/ TakeAnswer(c)
    BY <2>2, <2>6, ChargeNobody DEF ReadTimeout, StartWorker, StartFails, TakeAnswer, ledgerVars
  <2>7. CASE OutOfTime(c)
    BY <2>1, <2>7, ChargeNobody DEF OutOfTime, CancelReservation
  <2>8. CASE PollCancelled(c) \/ PollDeadline(c)
    BY <2>8, ChargeOne DEF PollCancelled, PollDeadline, Abandon
  <2>9. CASE SettleResult(c)
    BY <2>9, ChargeOne DEF SettleResult
  <2>10. CASE SettleError(c)
    <3> DEFINE a == taken[c][1]
    <3>1. CASE a.sent
      <4>1. a.sent = TRUE
        BY <2>10, <3>1, TakenIsAnswer DEF SettleError, IsAnswer
      <4> QED
        BY <2>10, <4>1, ChargeOne DEF SettleError
    <3>2. CASE ~a.sent
      <4>1. a.sent = FALSE
        BY <2>10, <3>2, TakenIsAnswer DEF SettleError, IsAnswer
      <4>2. SettleUnsent(ticket[c]) /\ Return(c, "answered", a.ends, FALSE)
        BY <2>10, <4>1 DEF SettleError
      <4>3. totals'["model_calls"] = totals["model_calls"]
        <5>1. "model_calls" \in Meters /\ totals \in [Meters -> Nat]
          BY DEF Meters, CountMeters, CallMeters, LedgerInv, LedgerTypeOK
        <5> QED
          BY <4>2, <5>1 DEF SettleUnsent
      <4> QED
        BY <2>1, <4>2, <4>3, ChargeNobody
    <3> QED
      BY <3>1, <3>2
  <2>11. CASE SettleOther(c)
    BY <2>11, ChargeOne DEF SettleOther
  <2> QED
    BY <1>3, <2>3, <2>4, <2>5, <2>6, <2>7, <2>8, <2>9, <2>10, <2>11 DEF Controller
<1> QED
  BY <1>1, <1>2, <1>3 DEF Next

(* However workers, deadlines and cancellations race, the model calls are  *)
(* as many as the calls that returned as sent.                             *)
THEOREM EveryCallChargedOnce == Spec => []ChargedExactlyOnce
<1>1. Init => ChargedExactlyOnce
  <2> SUFFICES ASSUME Init PROVE ChargedExactlyOnce
    OBVIOUS
  <2>1. {c \in Calls : Charged(c)} = {}
    BY DEF Init, Charged
  <2>2. totals["model_calls"] = 0
    BY DEF Init, LedgerInit, Meters, CountMeters, CallMeters
  <2> QED
    BY <2>1, <2>2, FS_EmptySet DEF ChargedExactlyOnce
<1>2. LedgerInv /\ CallsTypeOK /\ ChargedExactlyOnce /\ [Next]_vars => ChargedExactlyOnce'
  BY StepChargesOnce
<1> QED
  BY <1>1, <1>2, CallsInvariant, PTL DEF Spec

-----------------------------------------------------------------------------
(* The strengthening: an abandoned call leaves an unknown event behind.    *)
Abandoned(c) ==
  phase[c] = "returned" /\ worker[c] # "none" /\ result[c].sent /\ taken[c] = <<>>

AbandonedIsUnknown == (\E c \in Calls : Abandoned(c)) => unknown # {}

(* Only Abandon makes a call abandoned, and nothing forgets the event.     *)
LEMMA StepRemembersAmbiguity ==
  ASSUME LedgerInv, CallsTypeOK, AbandonedIsUnknown, [Next]_vars
  PROVE  AbandonedIsUnknown'
<1>1. unknown \subseteq unknown'
  BY StepUsesLedger, StepOnlyGrows DEF AccountingOnlyGrows, ledgerVars
<1>2. SUFFICES ASSUME NEW d \in Calls, Abandoned(d)', ~Abandoned(d)
               PROVE  unknown' # {}
  BY <1>1 DEF AbandonedIsUnknown, Abandoned
<1>3. ~(TimePasses \/ UNCHANGED vars)
  BY <1>2 DEF TimePasses, callVars, vars, Abandoned
<1>4. ASSUME NEW c \in Calls, Cancel(c) \/ \E a \in Answers : WorkerAnswers(c, a)
      PROVE  FALSE
  BY <1>2, <1>4 DEF Cancel, WorkerAnswers, Abandoned, CallsTypeOK
<1>5. PICK c \in Calls : Controller(c)
  BY <1>3, <1>4 DEF Next
<1>6. CASE PollCancelled(c) \/ PollDeadline(c)
  BY <1>6 DEF PollCancelled, PollDeadline, Abandon, SettleSent, UnknownReport
<1>7. CASE CheckCancelled(c) \/ RefuseCall(c) \/ OutOfTime(c)
  BY <1>2, <1>7 DEF CheckCancelled, RefuseCall, OutOfTime, Return, Goto, Abandoned, CallsTypeOK
<1>8. CASE ReserveCall(c) \/ ReadTimeout(c) \/ StartWorker(c) \/ StartFails(c) \/ TakeAnswer(c)
  BY <1>2, <1>8
  DEF ReserveCall, ReadTimeout, StartWorker, StartFails, TakeAnswer, Goto, Abandoned, CallsTypeOK
<1>9. CASE SettleResult(c) \/ SettleError(c) \/ SettleOther(c)
  <2>1. phase[c] = "answered" /\ UNCHANGED <<taken, worker>>
    BY <1>9 DEF SettleResult, SettleError, SettleOther
  <2>2. \A e \in Calls : e # c => phase'[e] = phase[e] /\ result'[e] = result[e]
    BY <1>9 DEF SettleResult, SettleError, SettleOther, Return, Goto, CallsTypeOK
  <2>3. taken[c] # <<>>
    BY <2>1 DEF CallsTypeOK
  <2> QED
    BY <1>2, <2>1, <2>2, <2>3 DEF Abandoned
<1> QED
  BY <1>5, <1>6, <1>7, <1>8, <1>9 DEF Controller

(* The ledger of a run in which a call was abandoned is never reconciled   *)
(* nor eligible for promotion again.                                       *)
THEOREM AmbiguityRemembered == Spec => []AmbiguityIsRemembered
<1>1. Init => AbandonedIsUnknown
  BY DEF Init, AbandonedIsUnknown, Abandoned
<1>2. LedgerInv /\ CallsTypeOK /\ AbandonedIsUnknown /\ [Next]_vars => AbandonedIsUnknown'
  BY StepRemembersAmbiguity
<1>3. AbandonedIsUnknown => AmbiguityIsRemembered
  BY DEF AbandonedIsUnknown, Abandoned, AmbiguityIsRemembered, PromotionEligible, Healthy,
         Reconciled
<1> QED
  BY <1>1, <1>2, <1>3, CallsInvariant, PTL DEF Spec
=============================================================================
