----------------------------- MODULE MCStagedRun ----------------------------
(* The commands of Shadow Armor that stage runs, over every transport.     *)
EXTENDS StagedRun

OnTargetScans == {<<"audit">>, <<"install", "audit">>}
Installs      == {<<"install">>, <<"install", "install">>}
Hardens       == {<<"converge">>, <<"install", "converge">>,
                  <<"audit", "converge", "audit">>,
                  <<"audit", "install", "converge", "audit">>}

\* On this machine itself audits are not staged on a target.
AllCommands ==
  [runs : OnTargetScans \union Installs \union Hardens, kind : {"ssh", "docker"}] \union
  [runs : Installs \union {<<"converge">>, <<"install", "converge">>}, kind : {"local"}]

ContainerAudit == {[runs |-> <<"audit">>, kind |-> "docker"]}
=============================================================================
