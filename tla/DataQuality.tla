---------------------------- MODULE DataQuality ----------------------------
(***************************************************************************)
(* The data quality gate (src/core/pipeline/data_quality.py): of each      *)
(* metric asked for how good its value is, and the quality of the whole,   *)
(* which is shown to the user and decides nothing.                         *)
(*                                                                         *)
(* What can be known of a fund is [stored, live, age]: whether funds has   *)
(* it, the metrics the provider answers with a value, and the age in days  *)
(* of its last history row (None without rows).                            *)
(***************************************************************************)
EXTENDS Bands, FiniteSets

\* The live metrics the gate knows; the book asks for fields a quote has not got.
Live == {"price", "nav", "volume", "value", "change_pct", "change_last_pct", "transactions",
         "shareholders", "candlestick", "codal"}

\* Against the policy's time to live of history, one day.
Assessed(age) ==
  [quality |-> IF age <= 1 THEN "fresh" ELSE "stale",
   confidence |-> IF age <= 1 THEN "high" ELSE IF age <= 2 THEN "medium" ELSE "low"]

\* The live value, unless a refresh was forced, then the tables, then nothing.
\* Nothing writes the keys that the lookup in request_cache uses.
CheckMetric(metric, known, force) ==
  CASE metric \in Live \cap known.live /\ ~force -> Assessed(0)
    [] metric = "history" /\ known.age # None -> Assessed(known.age)
    [] OTHER -> [quality |-> "missing", confidence |-> "low"]

Check(required, known, force) ==
  IF ~known.stored THEN [m \in {} |-> {}]
  ELSE [m \in required |-> CheckMetric(m, known, force)]

Overall(report) ==
  LET Of(quality) == {m \in DOMAIN report : report[m].quality = quality}
  IN  CASE Of("missing") = DOMAIN report -> "unavailable"
        [] Of("missing") # DOMAIN report /\ Of("missing") # {} -> "partial"
        [] Of("missing") # DOMAIN report /\ Of("missing") = {} /\ Of("stale") # {} -> "stale"
        [] OTHER -> "complete"

OverallConfidence(report) ==
  LET At(level) == Cardinality({m \in DOMAIN report : report[m].confidence = level})
      all == Cardinality(DOMAIN report)
  IN  CASE 10 * At("high") > 7 * all -> "high"
        [] 10 * At("high") <= 7 * all /\ 2 * (At("high") + At("medium")) > all -> "medium"
        [] OTHER -> "low"
=============================================================================
