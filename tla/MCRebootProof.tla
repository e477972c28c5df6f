---------------------------- MODULE MCRebootProof ---------------------------
(* Two machines take turns at one address; and one machine whose fixes do  *)
(* not persist is audited three times, each report compared with another.  *)
EXTENDS RebootProof, TLC

CONSTANTS m1, m2, c1

\* Two machines that machine-id tells apart.
TwoIds == m1 :> "id-1" @@ m2 :> "id-2"
SameHostname == m1 :> "web01" @@ m2 :> "web01"

\* Bound of the states with two machines.
TakingTurns ==
  clock <= 1 /\ Cardinality(reports) <= 2 /\ \A m \in Machines : boot[m] <= 1

\* Bound of the states that go on to a third report.
Chain ==
  /\ machine = m1 /\ boot[m2] = 0 /\ live[m2] = {}
  /\ \A m \in Machines : disk[m] = {}
  /\ \A r \in reports : r.host # NoHost => r.host.bootId.m = m1
  /\ \A r \in reports : \A c \in Controls : r.ctl[c].in.m # m2 /\ r.ctl[c].onDisk # "proven"

MCNext == Next /\ (TakingTurns \/ Chain)'

MCSpec == Init /\ [][MCNext]_vars
=============================================================================
