---------------------------- MODULE InstallCinc -----------------------------
(***************************************************************************)
(* CINC on a target (internal/cinc): the command install-cinc, which       *)
(* resolves, shows, asks and installs one project after the other, and the *)
(* bootstrap of a scan on the target, which was told to.                   *)
(*                                                                         *)
(* A package is its digest, a number.                                      *)
(* While the command runs CINC publishes releases, the operator replaces   *)
(* his own package file, and the context may end.                          *)
(***************************************************************************)
EXTENDS Integers, Sequences, SequencesExt

CONSTANTS
  Commands,   \* the commands explored
  Hosts,      \* the targets explored
  MaxChanges  \* bound: releases published and package files replaced

Projects == {"auditor", "client"}

ASSUME InstallCincAssumption ==
  /\ \A c \in Commands :
       /\ c.caller \in {"command", "scan"}
       /\ c.projects \in Seq(Projects) \ {<<>>} /\ IsInjective(c.projects)
       /\ c.caller = "scan" => Len(c.projects) = 1
       /\ c.packages \in Seq([project : Projects \union {""}, type : {"deb", "rpm", ""}])
       /\ {c.yes, c.terminal, c.print, c.sudo, c.bootstrap, c.mirror} \subseteq BOOLEAN
  /\ \A h \in Hosts : {h.root, h.sums} \subseteq BOOLEAN /\ h.tool \in {"deb", "rpm"} /\ h.tools \subseteq Projects
  /\ MaxChanges \in Nat

\* What is no package: a download that is not what was published, and what a
\* package became on its way to the target.  And no exit code.
OtherDownload == 0
Damaged       == -1
NoExit        == -1

Platforms == [known : BOOLEAN, pkg : {"deb", "rpm", ""}]
Jobs      == [platform : Platforms, shown : Nat, digest : Nat, package : Nat \union {Damaged}]

VARIABLES
  command, host,  \* what was asked, and of which target
  ctx,            \* "live", or "done" after the timeout or a signal
  latest,         \* the digest of the latest release
  files,          \* the package files of the operator: their digests
  changes,        \* how often latest or files changed
  pc,             \* where the command is
  platform,       \* what Detect said to the command
  job,            \* the installation: the platform Detect said there, the digest
                  \* shown, the digest to install, the package as it is
  left,           \* the projects still to do; the head is at work
  failed,         \* installations that failed
  exit,           \* the exit code, or NoExit
  declined,       \* the projects that the operator declined
  tools,          \* the projects that the target has
  unpacked        \* history: what dpkg or rpm unpacked on the target

world   == <<command, host, ctx, latest, files, changes>>
outcome == <<left, failed, exit, declined>>
target  == <<tools, unpacked>>
vars    == <<world, pc, platform, job, outcome, target>>

Project == Head(left)

----------------------------------------------------------------------------
(* Platforms and packages.                                                 *)

\* What /etc/os-release and uname say, in omnitruck's terms.  The version of a
\* release is a sequence of parts; a platform may have no known release and
\* still a known kind of package.
Machine(arch) == CASE arch \in {"x86_64", "amd64"}  -> "x86_64"
                   [] arch \in {"aarch64", "arm64"} -> "aarch64"
                   [] OTHER -> ""

IsEL(os) ==
  \/ os.id \in {"rhel", "centos", "rocky", "almalinux", "ol"}
  \/ os.id # "fedora" /\ os.like \intersect {"rhel", "centos"} # {}

Major(version) == IF version = <<>> THEN <<>> ELSE <<version[1]>>

Distribution(os) ==
  CASE os.id = "ubuntu" -> [p |-> "ubuntu", pv |-> os.ver, pkg |-> "deb"]
    [] os.id = "debian" -> [p |-> "debian", pv |-> Major(os.ver), pkg |-> "deb"]
    [] os.id = "amzn"   -> [p |-> "amazon", pv |-> Major(os.ver), pkg |-> "rpm"]
    [] IsEL(os)         -> [p |-> "el",     pv |-> Major(os.ver), pkg |-> "rpm"]
    [] os.id \in {"sles", "sled", "opensuse-leap"}
                        -> [p |-> "sles",   pv |-> Major(os.ver), pkg |-> "rpm"]
    [] OTHER            -> [p |-> "",       pv |-> <<>>, pkg |-> ""]

Unknown == [known |-> FALSE, pkg |-> ""]

\* The kind of package is known whenever the distribution is.
Map(os) ==
  IF Machine(os.arch) = "" THEN Unknown
  ELSE LET d == Distribution(os) IN [known |-> d.p # "" /\ d.pv # <<>>, pkg |-> d.pkg]

\* An answer of the target needs a live context and a connection.
Detected == {Unknown} \union IF ctx = "live" THEN {Map(host.os)} ELSE {}

Has(found) == found => ctx = "live" /\ Project \in tools

\* The first package of the operator for a project, 0 when there is none.
PackageFor(project) == SelectInSeq(command.packages, LAMBDA p : p.project = project)
Given == PackageFor(Project) # 0

\* The metadata of a release: a URL, a checksum, and https unless the operator
\* chose a plain mirror.
Answers == [url : {"https", "http", ""}, sum : BOOLEAN]
Resolved(a) ==
  /\ ctx = "live"
  /\ a.url # "" /\ a.sum
  /\ a.url = "https" \/ command.mirror

----------------------------------------------------------------------------
(* Ends of a project and of the command.                                   *)

End(code) == pc' = "ended" /\ exit' = code /\ UNCHANGED <<left, failed, declined>>

\* The next project, with so many failures.
Continue(count) ==
  /\ left' = Tail(left) /\ failed' = count
  /\ pc' = IF Len(left) = 1 THEN "sum" ELSE "has"
  /\ UNCHANGED exit

\* Mutant: only a failure of the last project counts.
FailForgotten ==
  IF command.caller = "scan" THEN End(4)
  ELSE Continue(IF Len(left) = 1 THEN failed + 1 ELSE failed) /\ UNCHANGED declined

\* An installation failed: the command goes on, a scan ends.
Fail ==
  IF command.caller = "scan" THEN End(4)
  ELSE Continue(failed + 1) /\ UNCHANGED declined

Go(step) == pc' = step /\ UNCHANGED outcome

Fails == Fail /\ UNCHANGED <<world, platform, job, target>>

Sum ==
  /\ pc = "sum" /\ End(IF failed > 0 THEN 3 ELSE 0)
  /\ UNCHANGED <<world, platform, job, target>>

----------------------------------------------------------------------------
(* The command.                                                            *)

LooksLikeAPackage(p) == p.project # "" /\ p.type # ""

\* A package file must look like one; --print shows the commands only.
Begin ==
  /\ pc = "start" /\ command.caller = "command"
  /\ platform' \in Detected
  /\ CASE \E i \in DOMAIN command.packages : ~LooksLikeAPackage(command.packages[i]) -> End(2)
       [] command.print -> End(IF platform'.known THEN 0 ELSE 3)
       [] OTHER         -> Go("has")
  /\ UNCHANGED <<world, job, target>>

\* What is there already is left alone.
LookFor ==
  /\ pc = "has"
  /\ \E found \in BOOLEAN :
       /\ Has(found)
       /\ IF found THEN Continue(failed) /\ UNCHANGED declined ELSE Go("offer")
  /\ UNCHANGED <<world, platform, job, target>>

Show(d) == job' = [job EXCEPT !.shown = d] /\ Go("ask")
Leave(code) == End(code) /\ UNCHANGED job

\* The package of the operator, or the latest release, or an end at once.
Offer ==
  /\ pc = "offer"
  /\ CASE Given -> Show(files[PackageFor(Project)]) \/ Leave(2)
       [] ~Given /\ platform.known ->
            \E a \in Answers : IF Resolved(a) THEN Show(latest) ELSE Leave(3)
       [] OTHER -> Leave(3)
  /\ UNCHANGED <<world, platform, target>>

\* A question does not see the end of the context.
Ask ==
  /\ pc = "ask"
  /\ \/ (command.yes \/ command.terminal) /\ Go("install")
     \/ /\ ~command.yes /\ command.terminal
        /\ declined' = declined \union {Project} /\ Continue(failed)
     \/ ~command.yes /\ ~command.terminal /\ End(2)
  /\ UNCHANGED <<world, platform, job, target>>

\* A scan on the target that finds no engine there, and was told to install it.
Bootstrap ==
  /\ pc = "start" /\ command.caller = "scan"
  /\ \/ End(3)
     \/ \E found \in BOOLEAN :
          /\ ctx = "live" /\ Has(found)
          /\ CASE found -> End(0)
               [] ~found /\ ~command.bootstrap /\ ~Given -> End(3)
               [] OTHER -> Go("install")
  /\ UNCHANGED <<world, platform, job, target>>

----------------------------------------------------------------------------
(* Install.                                                                *)

\* Root or sudo, and the platform once more.
CanInstall ==
  /\ pc = "install" /\ ctx = "live" /\ (host.root \/ command.sudo)
  /\ \E p \in Detected : job' = [job EXCEPT !.platform = p]
  /\ Go("choose")
  /\ UNCHANGED <<world, platform, target>>

\* The file of the operator, hashed again, of the kind the target uses if known.
ChooseFile ==
  /\ pc = "choose" /\ Given
  /\ LET i == PackageFor(Project)
         type == command.packages[i].type
     IN /\ job.platform.pkg \in {"", type}
        /\ job' = [job EXCEPT !.digest = files[i], !.platform.pkg = type]
  /\ Go("transfer")
  /\ UNCHANGED <<world, platform, target>>

\* The release the operator was shown; a scan resolves it now.
ChooseRelease ==
  /\ pc = "choose" /\ ~Given /\ job.platform.known
  /\ IF command.caller = "command"
       THEN job' = [job EXCEPT !.digest = job.shown]
       ELSE /\ \E a \in Answers : Resolved(a)
            /\ job' = [job EXCEPT !.digest = latest]
  /\ Go("fetch")
  /\ UNCHANGED <<world, platform, target>>

\* Mutant: the download is kept whatever it is.
FetchUnchecked ==
  /\ pc = "fetch" /\ ctx = "live"
  /\ \E got \in {OtherDownload, job.digest} : job' = [job EXCEPT !.package = got]
  /\ Go("transfer")
  /\ UNCHANGED <<world, platform, target>>

\* What does not have the digest is deleted, and the installation fails.
Fetch ==
  /\ pc = "fetch" /\ ctx = "live"
  /\ \E got \in {OtherDownload, job.digest} :
       got = job.digest /\ job' = [job EXCEPT !.package = got]
  /\ Go("transfer")
  /\ UNCHANGED <<world, platform, target>>

\* The package as it arrives, which may not be the one that was sent.
Transfer ==
  /\ pc = "transfer" /\ ctx = "live"
  /\ \E p \in {Damaged, IF Given THEN files[PackageFor(Project)] ELSE job.package} :
       job' = [job EXCEPT !.package = p]
  /\ Go("run")
  /\ UNCHANGED <<world, platform, target>>

\* The package is checked on the target where it has sha256sum; then the tool
\* of that kind, if the target has it, unpacks it.  Its answer may be lost, or it fails later.
Run ==
  /\ pc = "run"
  /\ host.sums => job.package = job.digest
  /\ job.platform.pkg = host.tool
  /\ tools' \in {tools, tools \union {Project}}
  /\ unpacked' = unpacked \union
       {[project |-> Project, package |-> job.package, digest |-> job.digest, shown |-> job.shown]}
  /\ \/ ctx = "live" /\ Go("verify")
     \/ Fail
  /\ UNCHANGED <<world, platform, job>>

\* The tool must be there now.
Verify ==
  /\ pc = "verify" /\ ctx = "live" /\ Project \in tools
  /\ IF command.caller = "scan" THEN End(0) ELSE Continue(failed) /\ UNCHANGED declined
  /\ UNCHANGED <<world, platform, job, target>>

\* Every step of an installation may fail: a command on the target, a checksum,
\* a download, a file.
StepFails ==
  /\ pc \in {"install", "choose", "fetch", "transfer", "run", "verify"}
  /\ Fails

\* A scan that cannot reach the target says so.
Unreached ==
  /\ pc = "install" /\ command.caller = "scan" /\ End(3)
  /\ UNCHANGED <<world, platform, job, target>>

----------------------------------------------------------------------------
(* The world.                                                              *)

mine == <<pc, platform, job, outcome, target>>

Expire ==
  /\ pc # "ended" /\ ctx = "live" /\ ctx' = "done"
  /\ UNCHANGED <<command, host, latest, files, changes, mine>>

Publish ==
  /\ pc # "ended" /\ changes < MaxChanges
  /\ latest' = latest + 1 /\ changes' = changes + 1
  /\ UNCHANGED <<command, host, ctx, files, mine>>

Replace ==
  /\ pc # "ended" /\ changes < MaxChanges
  /\ \E i \in DOMAIN files : files' = [files EXCEPT ![i] = @ + 1]
  /\ changes' = changes + 1
  /\ UNCHANGED <<command, host, ctx, latest, mine>>

NoJob == [platform |-> Unknown, shown |-> 0, digest |-> 0, package |-> 0]

Init ==
  /\ command \in Commands /\ host \in Hosts
  /\ ctx = "live" /\ latest = 1 /\ changes = 0
  /\ files = [i \in DOMAIN command.packages |-> 1]
  /\ pc = "start" /\ platform = Unknown /\ job = NoJob
  /\ left = command.projects /\ failed = 0 /\ exit = NoExit /\ declined = {}
  /\ tools = host.tools /\ unpacked = {}

Next ==
  \/ Begin \/ LookFor \/ Offer \/ Ask \/ Sum \/ Bootstrap
  \/ CanInstall \/ ChooseFile \/ ChooseRelease \/ Fetch \/ Transfer \/ Run \/ Verify
  \/ StepFails \/ Unreached
  \/ Expire \/ Publish \/ Replace

Spec == Init /\ [][Next]_vars

----------------------------------------------------------------------------

TypeOK ==
  /\ command \in Commands /\ host \in Hosts /\ ctx \in {"live", "done"}
  /\ latest \in Nat /\ changes \in 0 .. MaxChanges
  /\ files \in [DOMAIN command.packages -> Nat]
  /\ platform \in Platforms /\ job \in Jobs
  /\ left \in Seq(Projects) /\ failed \in 0 .. Len(command.projects)
  /\ exit \in {NoExit} \union 0 .. 4
  /\ tools \subseteq Projects /\ declined \subseteq Projects

\* What dpkg or rpm unpacks was not declined; it is what was downloaded and
\* matched its published checksum, and it is checked once more where sha256sum
\* exists.  The command installs the digest it showed before it asked, whatever
\* was published meanwhile; only a file of the operator is hashed again.
InstalledAsShown ==
  \A u \in unpacked :
    /\ u.project \notin declined
    /\ u.package # OtherDownload
    /\ host.sums => u.package = u.digest
    /\ command.caller = "command" /\ PackageFor(u.project) = 0 => u.digest = u.shown

\* Exit 0 of install-cinc, or of a bootstrap, means that the target has every
\* project that was asked for and not declined, whichever of them failed.
ZeroMeansThere ==
  pc = "ended" /\ exit = 0 /\ ~command.print =>
    ToSet(command.projects) \subseteq tools \union declined
=============================================================================
