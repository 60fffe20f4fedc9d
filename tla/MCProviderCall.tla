--------------------------- MODULE MCProviderCall ---------------------------
(* Two calls, one of them a retry with an estimated cost, on a ledger that *)
(* has room for both only if the first stays within its reservation.       *)
EXTENDS ProviderCall

CONSTANTS first, second

MCLimit ==
  [m \in Meters |-> CASE m \in {"model_calls", "output_tokens", "estimated_cost_usd"} -> 2
                      [] OTHER -> 1]

Need(retry) ==
  [m \in CountMeters \cup {"estimated_cost_usd"} |->
     CASE m = "retries" -> retry
       [] m \in {"tool_calls", "tool_output_bytes"} -> 0
       [] OTHER -> 1]

MCRequestOf ==
  [c \in Calls |-> IF c = second
     THEN [kind |-> "provider", status |-> "estimated", need |-> Need(1)]
     ELSE [kind |-> "provider", status |-> "known", need |-> Need(0)]]

MCRequests == {MCRequestOf[c] : c \in Calls}

Used(n, cost) ==
  [usage |-> "known", cost |-> cost, usd |-> 1, tokens |-> [m \in TokenMeters |-> n]]

MCReports == {Used(1, "known"), Used(2, "estimated"), UnknownReport}

Answer(kind, sent, usage, ends) ==
  [kind |-> kind, sent |-> sent, usage |-> usage, ends |-> ends]

MCAnswers ==
  {Answer("result", TRUE, u, "failed") : u \in MCReports \ {UnknownReport}}
  \cup {Answer("error", TRUE, Used(1, "known"), "failed"),
        Answer("error", FALSE, UnknownReport, "cancelled"),
        Answer("invalid", TRUE, Used(1, "known"), "failed"),
        Answer("exception", TRUE, UnknownReport, "failed")}
=============================================================================
