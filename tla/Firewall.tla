------------------------------ MODULE Firewall ------------------------------
(***************************************************************************)
(* SA-02.19, the default-deny firewall: the guard that lists the ports     *)
(* kept open (internal/harden/guards.go, firewallSafe) and the resources   *)
(* of the cookbook (recipes/default.rb) that close the others, with ufw on *)
(* Debian and firewalld on RHEL, over any number of runs on a host whose   *)
(* services come and go and which reboots.                                 *)
(***************************************************************************)
EXTENDS Naturals, Sequences

CONSTANTS
  Ports,      \* ports of the host, each with its protocol
  SshPorts,   \* those of sshd, and 22/tcp
  Allowed,    \* allow_tcp of the action
  ClientLike  \* UDP, in the ephemeral range, of a process: taken for clients

VARIABLES
  tool,       \* the firewall of the platform
  installed,  \* it is there
  active,     \* it filters now
  boot,       \* it will after a reboot
  deny,       \* what no rule allows is refused
  runtime,    \* the ports its running configuration allows
  permanent,  \* those its files allow
  served,     \* the ports that listen and can be reached from the network
  step,       \* where the run is
  left,       \* the rules it has yet to add
  steady      \* history: ports listed by the guard that listened ever since

tools    == <<tool, installed>>
state    == <<active, boot>>
filter   == <<deny, runtime, permanent>>
progress == <<left, steady>>
firewall == <<tools, state, filter, served, step, progress>>

Running == step \notin {"idle", "done"}

Open(p)   == active /\ deny => p \in runtime
AtBoot(p) == boot /\ deny => p \in permanent

\* What ss shows; the sockets taken for clients are left out.
Listed == served \ ClientLike

PortRules == Allowed \union SshPorts \union Listed

\* Mutant: refuse first, allow then.
OrderDenyFirst == [ufw       |-> <<"install", "deny", "enable", "allow">>,
                   firewalld |-> <<"install", "enable", "allow", "reload">>]

\* The resources in the order of the recipe.
Order == [ufw       |-> <<"install", "allow", "deny", "enable">>,
          firewalld |-> <<"install", "enable", "allow", "reload">>]

\* The resource after this one, or the end of the run.
Following(resource) ==
  LET steps == Order[tool]
      at    == CHOOSE i \in DOMAIN steps : steps[i] = resource
  IN IF at = Len(steps) THEN "done" ELSE steps[at + 1]

Proceed(resource) == step = resource /\ step' = Following(resource)

----------------------------------------------------------------------------
(* The run.                                                                *)

\* The guard stops the rule beside another firewall; otherwise, and when its
\* output cannot be read, it lets it pass.  The question and the installation
\* of CINC come after it.
ListPorts ==
  /\ ~Running
  /\ steady' \in {Listed, {}}
  /\ step' = "compile" /\ left' = {}
  /\ UNCHANGED <<tools, state, filter, served>>

\* Chef reads the ports once more, before its first resource.
Compile ==
  /\ step = "compile"
  /\ left' = PortRules
  /\ step' = "install"
  /\ UNCHANGED <<tools, state, filter, served, steady>>

\* ignore_failure: the next commands will fail without the package.
Install ==
  /\ Proceed("install")
  /\ installed' \in {installed, TRUE}
  /\ UNCHANGED <<tool, state, filter, served, progress>>

\* Mutant: a port that can be reached needs no rule.
SkippedIfOpen(p) == Open(p)

\* not_if: "ufw show added" are the stored rules, "firewall-cmd --list-ports"
\* the running configuration, and nothing when firewalld does not run.
Skipped(p) == IF tool = "ufw" THEN p \in permanent ELSE active /\ p \in runtime

\* One rule; firewall-cmd needs a running firewalld, ufw only its package.
Allow(p) ==
  /\ step = "allow" /\ p \in left
  /\ Skipped(p) \/ (IF tool = "ufw" THEN installed ELSE active)
  /\ permanent' = IF Skipped(p) THEN permanent ELSE permanent \union {p}
  /\ runtime' = IF tool = "ufw" THEN permanent' ELSE runtime
  /\ left' = left \ {p}
  /\ step' = IF left' = {} THEN Following("allow") ELSE "allow"
  /\ UNCHANGED <<tools, state, deny, served, steady>>

Deny ==
  /\ Proceed("deny") /\ installed
  /\ deny' = TRUE
  /\ UNCHANGED <<tools, state, runtime, permanent, served, progress>>

\* Nothing when it is active already; ignore_failure, and the part for the next
\* boot may succeed alone.
Enable ==
  /\ Proceed("enable")
  /\ \/ UNCHANGED <<state, runtime>>
     \/ /\ installed /\ ~active
        /\ boot' = TRUE
        /\ active' \in BOOLEAN
        /\ runtime' = permanent
  /\ UNCHANGED <<tools, deny, permanent, served, progress>>

\* ignore_failure.
Reload ==
  /\ Proceed("reload")
  /\ runtime' \in {runtime, permanent}
  /\ UNCHANGED <<tools, state, deny, permanent, served, progress>>

\* A command fails, or the run is killed.
Stop ==
  /\ Running
  /\ step' = "idle" /\ left' = {} /\ steady' = {}
  /\ UNCHANGED <<tools, state, filter, served>>

----------------------------------------------------------------------------
(* The host.  Nobody closes a port on purpose.                             *)

Serve(p) ==
  /\ served' \in {served \union {p}, served \ {p}}
  /\ steady' = steady \intersect served'
  /\ UNCHANGED <<tools, state, filter, step, left>>

\* firewall-cmd --add-port, until the next reload.
OpenForNow(p) ==
  /\ tool = "firewalld" /\ active
  /\ runtime' = runtime \union {p}
  /\ UNCHANGED <<tools, state, deny, permanent, served, step, progress>>

Reboot ==
  /\ active' = boot
  /\ runtime' = permanent
  /\ step' = "idle" /\ left' = {} /\ steady' = {}
  /\ UNCHANGED <<tools, boot, deny, permanent, served>>

----------------------------------------------------------------------------

InitFirewall ==
  /\ tool \in {"ufw", "firewalld"}
  /\ installed \in BOOLEAN /\ active \in BOOLEAN /\ boot \in BOOLEAN
  /\ active \/ boot => installed
  /\ deny \in BOOLEAN /\ (tool = "firewalld" => deny)
  /\ permanent \in SUBSET Ports
  /\ runtime = permanent
  /\ served \in SUBSET Ports
  /\ step = "idle" /\ left = {} /\ steady = {}

NextFirewall ==
  \/ ListPorts \/ Compile \/ Install \/ Deny \/ Enable \/ Reload \/ Stop \/ Reboot
  \/ \E p \in Ports : Allow(p) \/ Serve(p) \/ OpenForNow(p)

FirewallSpec == InitFirewall /\ [][NextFirewall]_firewall

----------------------------------------------------------------------------

StaysOpen(p) == (Open(p) => Open(p)') /\ (AtBoot(p) => AtBoot(p)')

\* default.rb:801: "everything listening now ... stay open, so no working service
\* is cut".  With ufw, no step of a run takes a port away that the guard listed
\* and that listened ever since: neither now nor for the next boot, so a run may
\* stop anywhere.
UfwNeverCuts ==
  [][tool = "ufw" => \A p \in steady \intersect steady' : StaysOpen(p)]_firewall

\* A run that reached its end leaves every such port open after the next boot,
\* unless it was open only until the next reload.
KeptAcrossBoots ==
  [][step' = "done" /\ Running =>
       \A p \in steady : p \in runtime \ permanent \/ (AtBoot(p))']_firewall

\* The comment for both platforms.  firewalld starts before its ports are added,
\* and the reload drops what only the running configuration allowed.
NoServiceCut ==
  [][\A p \in steady \intersect steady' : StaysOpen(p)]_firewall
=============================================================================
