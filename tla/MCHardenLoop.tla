---------------------------- MODULE MCHardenLoop ----------------------------
(* One control that is fixed, one that is only observed live.              *)
EXTENDS HardenLoop, TLC

CONSTANTS m1, c1, c2

OneMachineId == m1 :> "id-1"
OneHostname  == m1 :> "web01"

\* Every command line without --reboot, with a host that may be audited first.
Plain == {o \in OptionSet : ~o.reboot}

\* harden --reboot after an audit, from a report or from a plan file.
WithReboot == {o \in OptionSet : o.reboot /\ o.mode = "apply" /\ ~o.force}

\* The question before the reboot can be declined.
Declinable == {o \in WithReboot : o.source = "plan" \/ ~o.ask}

\* All command lines, but for the questions that only decide whether to go on.
Everything == Declinable \union {o \in Plain : o.source = "audit" => ~o.ask}
=============================================================================
