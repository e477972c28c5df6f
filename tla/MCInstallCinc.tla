--------------------------- MODULE MCInstallCinc ----------------------------
(* Targets that CINC packages, or not, and ways to install there.           *)
EXTENDS InstallCinc

OS(id, like, ver, arch) == [id |-> id, like |-> like, ver |-> ver, arch |-> arch]

Target(os, tool, root, sums, has) ==
  [os |-> os, tool |-> tool, root |-> root, sums |-> sums, tools |-> has]

SomeHosts ==
  { Target(OS("ubuntu", {"debian"}, <<"24", "04">>, "x86_64"), "deb", TRUE, TRUE, {}),
    Target(OS("rocky", {"rhel", "fedora"}, <<"9", "4">>, "arm64"), "rpm", FALSE, FALSE, {"client"}),
    Target(OS("linuxmint", {"ubuntu", "debian"}, <<"22">>, "amd64"), "deb", TRUE, FALSE, {}),
    Target(OS("debian", {}, <<>>, "aarch64"), "deb", TRUE, FALSE, {}),
    Target(OS("sles", {"suse"}, <<"15", "6">>, "riscv64"), "rpm", TRUE, TRUE, {"auditor"}) }

Package(project, type) == [project |-> project, type |-> type]
Both   == <<"auditor", "client">>
Client == <<"client">>
Engine == <<"auditor">>

Install(projects, packages, yes, terminal, sudo, mirror, print) ==
  [caller |-> "command", projects |-> projects, packages |-> packages, yes |-> yes,
   terminal |-> terminal, print |-> print, sudo |-> sudo, bootstrap |-> FALSE, mirror |-> mirror]

Scan(packages, bootstrap) ==
  [caller |-> "scan", projects |-> Engine, packages |-> packages, yes |-> FALSE,
   terminal |-> FALSE, print |-> FALSE, sudo |-> TRUE, bootstrap |-> bootstrap, mirror |-> FALSE]

SomeCommands ==
  { Install(Both, <<>>, TRUE, FALSE, TRUE, FALSE, FALSE),
    Install(Both, <<Package("client", "rpm"), Package("auditor", "deb")>>, FALSE, TRUE, TRUE, TRUE, FALSE),
    Install(Both, <<Package("auditor", "deb")>>, FALSE, FALSE, TRUE, FALSE, FALSE),
    Install(Client, <<>>, FALSE, TRUE, FALSE, FALSE, FALSE),
    Install(Engine, <<>>, FALSE, FALSE, FALSE, FALSE, TRUE),
    Install(Engine, <<Package("", "deb")>>, TRUE, FALSE, TRUE, FALSE, FALSE),
    Scan(<<>>, TRUE), Scan(<<>>, FALSE),
    Scan(<<Package("auditor", "rpm")>>, FALSE), Scan(<<Package("client", "deb")>>, TRUE) }
=============================================================================
