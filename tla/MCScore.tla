------------------------------ MODULE MCScore ------------------------------
(* Every small report, and every small change of a report of ten critical   *)
(* passes, in which one control is a small part of the points.              *)
EXTENDS Score
CONSTANTS Small, Large

MCInit ==
  \E passes \in {0, Large} :
    n = [s \in Severities |-> [r \in Results |->
           IF s = "critical" /\ r = "durable" THEN passes ELSE 0]]

MCNext == (Total < Small \/ n["critical"]["durable"] >= Large) /\ NextScore

MCSpec == MCInit /\ [][MCNext]_n
=============================================================================
