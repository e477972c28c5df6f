----------------------------- MODULE MCCommands -----------------------------
(* Sessions of scans, comparisons and reports on a small catalog.          *)
EXTENDS Commands

ThreeProfiles ==
  << [key |-> "basic",    names |-> {"basic", "1"}],
     [key |-> "advanced", names |-> {"advanced", "2"}],
     [key |-> "complete", names |-> {"complete", "3"}] >>

ThreeControls ==
  { [id |-> "SA-01", profile |-> "basic",    pillar |-> 1, standards |-> {"cis"}],
    [id |-> "SA-02", profile |-> "advanced", pillar |-> 1, standards |-> {"cis", "pci"}],
    [id |-> "SA-03", profile |-> "complete", pillar |-> 2, standards |-> {}] }

Result(status, qualifier) == [status |-> status, qualifier |-> qualifier]
SomeStates == { Result("pass", "durable"), Result("fail", ""), Result("error", ""), Result("skip", "") }

Plain ==
  [is |-> "scan", kind |-> "ssh", profile |-> "", level |-> 0, pillars |-> {}, standard |-> "all",
   ids |-> {}, exclude |-> {}, engine |-> "auto", onTarget |-> FALSE, bootstrap |-> FALSE,
   waivers |-> FALSE, baseline |-> "", files |-> {}, format |-> "none", failUnder |-> 0,
   terminal |-> FALSE]

Diff(a, b, gate) == [is |-> "diff", before |-> a, after |-> b, gate |-> gate]

Report(from, lens) ==
  [is |-> "report", from |-> from, lens |-> lens, files |-> {"c"}, format |-> "text",
   failUnder |-> 9]

First    == [Plain EXCEPT !.profile = "2", !.files = {"a"}]
Complete == [Plain EXCEPT !.level = 2, !.pillars = {1}, !.files = {"a"}, !.format = "text"]
Listed   == [Plain EXCEPT !.ids = {"SA-03"}, !.files = {"a"}, !.waivers = TRUE]
Again    == [Plain EXCEPT !.baseline = "a", !.files = {"b"}, !.failUnder = 1]
Asked    == [Plain EXCEPT !.terminal = TRUE, !.standard = "cis", !.exclude = {"SA-01"}, !.files = {"b"}]
There    == [Plain EXCEPT !.profile = "basic", !.onTarget = TRUE, !.bootstrap = TRUE, !.files = {"a", "b"},
                          !.format = "text", !.failUnder = 1]
Docker   == [Plain EXCEPT !.profile = "complete", !.engine = "docker", !.files = {"a"}]
Local    == [Plain EXCEPT !.kind = "local", !.onTarget = TRUE, !.profile = "basic"]

SomeSessions ==
  { <<First, Again, Diff("a", "b", TRUE)>>,
    <<Complete, [Again EXCEPT !.terminal = TRUE]>>,
    <<Listed, Asked, Diff("a", "b", TRUE)>>,
    <<There, Report("a", "pci")>>,
    <<Docker, Report("a", "")>>,
    <<Local>>,
    <<Diff("a", "b", FALSE)>>,
    <<[Local EXCEPT !.engine = "docker"]>>, <<[First EXCEPT !.level = 2]>>,
    <<[First EXCEPT !.pillars = {3}]>>, <<[First EXCEPT !.level = 3]>>,
    <<[Docker EXCEPT !.pillars = {2}, !.standard = "cis"]>> }

Machine(native, docker, image, target) ==
  [native |-> native, docker |-> docker, image |-> image, target |-> target]

SomeMachines ==
  { Machine(TRUE, FALSE, FALSE, FALSE), Machine(FALSE, TRUE, FALSE, FALSE),
    Machine(FALSE, TRUE, TRUE, TRUE) }
=============================================================================
