------------------------------ MODULE Decision ------------------------------
(***************************************************************************)
(* manager/internal/ai, rules and decision: a closed window's features,    *)
(* the risk rules, the label of the model and the decision.  The pure part *)
(* of the manager.  Rates are compared by cross-multiplication: the code's *)
(* float32 rounding at the exact thresholds is left out, as is the         *)
(* destination port, which only the model reads.                           *)
(***************************************************************************)
EXTENDS Integers

CONSTANT usPerTick    \* microseconds in a tick of the aggregator's clock

ASSUME TickAssumption == usPerTick \in Nat \ {0}

(* What toFeatures computes of a result: packets, bytes, the duration, and *)
(* the divisor of the two rates, which is at least 1 ms.                   *)
toFeatures(r) ==
  LET us == r.span * usPerTick
  IN [packets |-> r.packets, bytes |-> r.bytes, duration |-> us,
      rateUs |-> IF us <= 0 THEN 1000 ELSE us]

thresholdTotalFwdPackets == 500
thresholdAveragePacketSize == 1400

(* More than 1,000,000 bytes/s, 1,000 packets/s: a byte per microsecond, a *)
(* packet per millisecond.                                                 *)
HighFlowBytesPerSecond(f)   == f.bytes > f.rateUs
HighFlowPacketsPerSecond(f) == f.packets * 1000 > f.rateUs
HighTotalFwdBytes(f)        == f.bytes > thresholdTotalFwdPackets \* mutant
HighTotalFwdPackets(f)      == f.packets > thresholdTotalFwdPackets
LargeAveragePacketSize(f)   == f.bytes > thresholdAveragePacketSize * f.packets

Score(f) ==
    (IF HighFlowBytesPerSecond(f) THEN 20 ELSE 0)
  + (IF HighFlowPacketsPerSecond(f) THEN 20 ELSE 0)
  + (IF HighTotalFwdPackets(f) THEN 15 ELSE 0)
  + (IF LargeAveragePacketSize(f) THEN 10 ELSE 0)

(* The model's label; NoLabel when inference failed.                       *)
NoLabel == 0
Labels == {1, -1, NoLabel}

mapLabelToRiskBenign(label) == IF label = 1 THEN 10 ELSE 50 \* mutant
mapLabelToRisk(label) == IF label = 1 THEN 0 ELSE 50
aiRisk(label) == IF label = NoLabel THEN 0 ELSE mapLabelToRisk(label)

thresholdRateLimit == 30
thresholdBlockLow == 50 \* mutant
thresholdBlock == 60

classify(risk) ==
  CASE risk >= thresholdBlock -> "BLOCK"
    [] risk >= thresholdRateLimit /\ risk < thresholdBlock -> "RATE_LIMIT"
    [] OTHER -> "ALLOW"

(* Engine.EvaluateFlow: the decision, the risk it rests on and the model's *)
(* part of it, and whether the error of a failed inference comes with them.*)
EvaluateFlow(f, label) ==
  LET risk == aiRisk(label) + Score(f)
  IN [action |-> classify(risk), risk |-> risk, ai |-> aiRisk(label),
      err |-> label = NoLabel]

(* The package-level EvaluateFlow before a successful Init.                *)
NotInitialised == [action |-> "ALLOW", risk |-> 0, ai |-> 0, err |-> TRUE]
=============================================================================
