------------------------------- MODULE MCBench -------------------------------
(* TLC instances of BenchRun: two configurations that differ in their sweep;  *)
(* both ask for the service s1, and somebody else may occupy the container    *)
(* with s2.  Valid and Options tell the runs apart.                           *)
EXTENDS BenchRun

CONSTANTS c1, c2, s1, s2

MCConfigs  == {c1, c2}
MCServices == {s1, s2}
MCSvc      == [c \in MCConfigs |-> s1]
MCRounds   == [c \in MCConfigs |-> IF c = c1 THEN 2 ELSE 1]
MCFlags    == (SUBSET {"reload", "accept", "retry"}) \cup {{"modify"}}
=============================================================================
