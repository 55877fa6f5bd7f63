--------------------------- MODULE MCCliProcesses ---------------------------
(***************************************************************************)
(* Instances of CliProcesses for TLC, over the findings of MCScanPipeline.  *)
(***************************************************************************)
EXTENDS CliProcesses, TLC

CONSTANTS a, b, ruleA, ruleB

Table(column) == [f \in Finding |-> column[f]]

MCFingerprint == Table(<<a, a, b>>)
MCSeverity    == Table(<<55, 55, 30>>)
MCConfidence  == Table(<<"medium", "medium", "high">>)
MCRuleId      == Table(<<ruleA, ruleB, ruleA>>)

MCDetectorCount == [r \in Run |-> 1]
MCSuppress == [r \in Run |-> {[rule_id |-> ruleA, expired |-> FALSE]}]
=============================================================================
