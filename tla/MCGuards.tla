----------------------------- MODULE MCGuards ------------------------------
(* The access rules on one host, the firewall rule on another: one run     *)
(* checks both, and neither moves while the other does.                    *)
EXTENDS Lockout, Firewall
CONSTANTS root, u1, ssh, web, call
VARIABLE rule

AccessAtRest ==
  /\ shell = {} /\ key = {} /\ password = {} /\ sudo = {} /\ su = TRUE
  /\ vendor = [root |-> "yes", pw |-> "yes"] /\ owned = [root |-> "unset", pw |-> "unset"]
  /\ session = Nobody /\ pc = "idle" /\ plan = {} /\ sure = FALSE

FirewallAtRest ==
  /\ tool = "ufw" /\ installed = FALSE /\ active = FALSE /\ boot = FALSE /\ deny = FALSE
  /\ runtime = {} /\ permanent = {} /\ served = {} /\ step = "idle" /\ left = {} /\ steady = {}

MCInit == \/ rule = "access" /\ Init /\ FirewallAtRest
          \/ rule = "firewall" /\ AccessAtRest /\ InitFirewall

MCNext == \/ rule = "access" /\ Next /\ UNCHANGED <<rule, firewall>>
          \/ rule = "firewall" /\ NextFirewall /\ UNCHANGED <<rule, vars>>

MCSpec == MCInit /\ [][MCNext]_<<rule, vars, firewall>>
=============================================================================
