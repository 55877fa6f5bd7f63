--------------------------- MODULE MCScanPipeline ---------------------------
(***************************************************************************)
(* Instances of ScanPipeline for TLC.  Of the four possible findings, 1 and *)
(* 2 tie on severity and confidence, so the id decides; 3 has the higher    *)
(* confidence but the lower severity; 4 has a fingerprint of its own.       *)
(***************************************************************************)
EXTENDS ScanInvariant, TLC

CONSTANTS r1, a, b, ruleA, ruleB

Table(column) == [f \in Finding |-> column[f]]

MCFingerprint == Table(<<a, a, a, b>>)
MCSeverity    == Table(<<55, 55, 30, 75>>)
MCConfidence  == Table(<<"medium", "medium", "high", "low">>)
MCRuleId      == Table(<<ruleA, ruleB, ruleA, ruleB>>)

\* r1 runs two detectors, the others one.
MCDetectorCount == [r \in Run |-> IF r = r1 THEN 2 ELSE 1]

\* r1's rule for ruleB has expired; the other runs have no rules.
MCSuppress ==
    [r \in Run |-> IF r = r1 THEN {[rule_id |-> ruleA, expired |-> FALSE],
                                   [rule_id |-> ruleB, expired |-> TRUE]}
                             ELSE {}]
=============================================================================
