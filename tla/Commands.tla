------------------------------ MODULE Commands ------------------------------
(***************************************************************************)
(* The commands that make and read reports: scan, report and diff.  A      *)
(* session is a sequence of them; between two commands the host changes    *)
(* and reboots, and the files they write are those the next ones read.     *)
(*                                                                         *)
(* The engine's verdicts (Verdict), the grade (Score) and the proof of a   *)
(* reboot (RebootProof) are inputs here: a result is what the host shows,  *)
(* a grade is any.                                                         *)
(***************************************************************************)
EXTENDS Catalog, ReportDiff, Integers

CONSTANTS
  Sessions,     \* sequences of commands
  Machines,     \* what is installed here and on the target at first
  States,       \* the results that a control can have
  Files,        \* the paths of reports
  Grades,       \* grades, as ranks: 1 is the best
  MaxDrift      \* bound: changes of the host

\* The command lines.
ScanCommands ==
  [is : {"scan"}, kind : {"ssh", "docker", "local"}, profile : Names, level : Int,
   pillars : SUBSET Nat, standard : Names, ids : SUBSET STRING, exclude : SUBSET STRING,
   engine : {"auto", "native", "docker"}, onTarget : BOOLEAN, bootstrap : BOOLEAN,
   waivers : BOOLEAN, baseline : Files \union {""}, files : SUBSET Files,
   format : STRING, failUnder : Nat, terminal : BOOLEAN]
ReportCommands ==
  [is : {"report"}, from : Files, lens : Names, files : SUBSET Files, format : STRING,
   failUnder : Nat]
DiffCommands == [is : {"diff"}, before : Files, after : Files, gate : BOOLEAN]
AllCommands  == ScanCommands \union ReportCommands \union DiffCommands

\* The engine, docker and its image here; the engine on the target.
AllMachines == [native : BOOLEAN, docker : BOOLEAN, image : BOOLEAN, target : BOOLEAN]

Stdout == "stdout"

ASSUME CommandsAssumption ==
  /\ Sessions \subseteq Seq(AllCommands) \ {<<>>}
  /\ Files \subseteq STRING \ {"", Stdout}
  /\ Machines \subseteq AllMachines
  /\ Grades \subseteq Nat /\ MaxDrift \in Nat

VARIABLES
  left,      \* the commands still to run; the head is at work
  pc,        \* where it is
  filter,    \* the filter of the scan, with the profile once it is known
  tries,     \* answers to the question for a profile
  engine,    \* "none", "native", "docker" or "target"
  result,    \* the report in memory
  unwritten, \* the outputs still to write
  exit,      \* the exit code of the last command, NoExit, or Killed by a closed pipe
  disk,      \* the report of every path
  machine,   \* what is installed
  observed,  \* what an audit of the host shows
  boot,      \* how often the host booted
  drift,     \* how often it changed
  ctx        \* "live", or "done" after --timeout or a signal

scan    == <<filter, tries, engine>>
output  == <<result, unwritten, disk>>
host    == <<observed, boot, drift>>
vars    == <<left, pc, scan, output, exit, machine, host, ctx>>

Command == Head(left)

NoExit == -1
Killed == -2

\* A report: results of some controls, under the profile of the scan.
Reports  == [profile : Names, results : UNION {[S -> States] : S \in SUBSET Ids},
             boot : Nat, grade : Nat]
NoReport == [profile |-> "", results |-> <<>>, boot |-> 0, grade |-> 0]

----------------------------------------------------------------------------
(* Ends of a command.                                                      *)

End(code) ==
  /\ pc' = "ended" /\ exit' = code
  /\ UNCHANGED left

Go(step) == pc' = step /\ UNCHANGED <<left, exit>>

Fails(code) == End(code) /\ UNCHANGED <<scan, output, machine, host, ctx>>

\* The next command, some time later.
NextCommand ==
  /\ pc = "ended" /\ Len(left) > 1
  /\ left' = Tail(left) /\ pc' = "start" /\ exit' = NoExit
  /\ filter' = NoFilter /\ tries' = 0 /\ engine' = "none"
  /\ result' = NoReport /\ unwritten' = {} /\ ctx' = "live"
  /\ UNCHANGED <<disk, machine, host>>

----------------------------------------------------------------------------
(* scan: the options.                                                      *)

\* The profile of the flags, "" when there is none; --level is the older name.
LevelProfile(c) == CASE c.level = 0 -> "" [] c.level = 2 -> "complete" [] OTHER -> "advanced"
FlagProfile(c)  == IF c.profile = "" THEN LevelProfile(c) ELSE ProfileKey(c.profile)

ProfileUsage(c) ==
  \/ c.level \notin 0 .. 2
  \/ c.profile # "" /\ ProfileKey(c.profile) = ""
  \/ c.profile # "" /\ c.level # 0 /\ LevelProfile(c) # ProfileKey(c.profile)

Usage(c) ==
  \/ ProfileUsage(c)
  \/ c.failUnder \notin Grades \union {0}
  \/ ~ValidStandard(c.standard) \/ ~(c.pillars \subseteq Pillars) \/ ~(c.ids \subseteq Ids)
  \/ c.engine = "docker" /\ (c.onTarget \/ c.kind = "local")
  \/ c.bootstrap /\ ~c.onTarget

Filter(c) == [profile |-> FlagProfile(c), pillars |-> c.pillars, standard |-> c.standard,
              ids |-> c.ids, exclude |-> c.exclude]

\* Mutant: the profile of the baseline is not looked at.
WithBaselineIgnored(f, base) == f

\* "Across a reboot, the same controls are compared."
WithBaseline(f, base) ==
  IF f.profile = "" /\ f.ids = {} /\ base.profile # "" THEN [f EXCEPT !.profile = base.profile] ELSE f

ReadOptions ==
  /\ pc = "start" /\ Command.is = "scan"
  /\ IF Usage(Command) \/ (Command.baseline # "" /\ disk[Command.baseline] = NoReport)
       THEN Fails(2)
       ELSE /\ filter' = IF Command.baseline = "" THEN Filter(Command)
                         ELSE WithBaseline(Filter(Command), disk[Command.baseline])
            /\ Go("profile")
            /\ UNCHANGED <<tries, engine, output, machine, host, ctx>>

\* A full scan needs a profile; without a terminal it is not guessed.
HasProfile == filter.profile # "" \/ filter.ids # {}

ChooseProfile ==
  /\ pc = "profile"
  /\ CASE HasProfile -> Go("select") /\ UNCHANGED <<scan, output, machine, host, ctx>>
       [] ~HasProfile /\ ~Command.terminal -> Fails(2)
       [] OTHER -> Go("ask") /\ UNCHANGED <<scan, output, machine, host, ctx>>

Typed == UNION {Profiles[i].names : i \in DOMAIN Profiles} \union {"?"}

\* Five tries; the end of the input is an answer too.
PickProfile ==
  /\ pc = "ask"
  /\ \/ \E name \in Typed :
          /\ tries' = tries + 1
          /\ filter' = [filter EXCEPT !.profile = ProfileKey(name)]
          /\ IF ProfileKey(name) # "" THEN Go("select") ELSE IF tries = 4 THEN End(2) ELSE Go("ask")
          /\ UNCHANGED <<engine, output, machine, host, ctx>>
     \/ Fails(2)

\* Nothing selected, or a waiver file that is gone.
SelectControls ==
  /\ pc = "select"
  /\ \/ Select(filter) # {} /\ Go("identity") /\ UNCHANGED <<scan, output, machine, host, ctx>>
     \/ (Select(filter) = {} \/ Command.waivers) /\ Fails(4)

\* The boot identity, which only a baseline needs; its boot must be an earlier one.
Identify ==
  /\ pc = "identity"
  /\ IF Command.baseline = "" THEN TRUE
     ELSE ctx = "live" /\ disk[Command.baseline].boot \in 1 .. boot - 1
  /\ Go("engine") /\ UNCHANGED <<scan, output, machine, host, ctx>>

IdentityRefused == pc = "identity" /\ Command.baseline # "" /\ Fails(2)

----------------------------------------------------------------------------
(* scan: the engine.                                                       *)

OnTarget == Command.onTarget /\ Command.kind # "local"

Found(here) ==
  /\ engine' = here /\ Go("audit")
  /\ UNCHANGED <<filter, tries, output, host, ctx>>

\* The engine of this machine: PATH, the usual places, or the path given.
PickNative ==
  /\ pc = "engine" /\ ~OnTarget /\ Command.engine # "docker"
  /\ ctx = "live" /\ machine.native
  /\ Found("native") /\ UNCHANGED machine

\* Mutant: auto pulls the image as well.
PickDockerPulling ==
  /\ pc = "engine" /\ ~OnTarget /\ Command.kind # "local" /\ ctx = "live" /\ machine.docker
  /\ Command.engine = "docker" \/ (Command.engine = "auto" /\ ~machine.native)
  /\ machine' = [machine EXCEPT !.image = TRUE]
  /\ Found("docker")

\* Docker pulls its image when it was asked for; auto only takes one that is there.
PickDocker ==
  /\ pc = "engine" /\ ~OnTarget /\ Command.kind # "local" /\ ctx = "live" /\ machine.docker
  /\ \/ Command.engine = "docker" /\ machine' = [machine EXCEPT !.image = TRUE]
     \/ Command.engine = "auto" /\ ~machine.native /\ machine.image /\ UNCHANGED machine
  /\ Found("docker")

\* The image is pulled, and then does not run the engine.
PullInVain ==
  /\ pc = "engine" /\ ~OnTarget /\ Command.engine = "docker" /\ ctx = "live" /\ machine.docker
  /\ machine' = [machine EXCEPT !.image = TRUE]
  /\ End(4) /\ UNCHANGED <<scan, output, host, ctx>>

\* On the target: what is there, or what was asked to be installed (InstallCinc).
PickOnTarget ==
  /\ pc = "engine" /\ OnTarget /\ ctx = "live"
  /\ machine.target \/ Command.bootstrap
  /\ machine' = [machine EXCEPT !.target = TRUE]
  /\ Found("target")

\* An engine that is missing or cannot be looked for (3), or that fails (4).
NoEngine == pc = "engine" /\ (Fails(3) \/ Fails(4))

----------------------------------------------------------------------------
(* scan: the audit and what comes of it.                                   *)

\* The target is unreachable (3); the engine fails or was cut (4).
AuditFails == pc = "audit" /\ (Fails(3) \/ Fails(4))

Outputs(c) == c.files \union IF c.format = "none" THEN {} ELSE {Stdout}

\* A result for every control, and a grade.
Audit ==
  /\ pc = "audit" /\ ctx = "live"
  /\ \E g \in Grades :
       result' = [profile |-> IF filter.ids # {} THEN "" ELSE filter.profile,
                  results |-> [c \in Select(filter) |-> observed[c]],
                  boot |-> boot, grade |-> g]
  /\ unwritten' = Outputs(Command)
  /\ Go("write")
  /\ UNCHANGED <<scan, disk, machine, host, ctx>>

\* Files first: a closed pipe must not lose them.
WriteFile ==
  /\ pc = "write"
  /\ \E f \in unwritten \ {Stdout} :
       /\ disk' = [disk EXCEPT ![f] = result]
       /\ unwritten' = unwritten \ {f}
  /\ UNCHANGED <<left, pc, exit, scan, result, machine, host, ctx>>

WriteFails == pc = "write" /\ unwritten \ {Stdout} # {} /\ Fails(4)

\* Mutant: standard output comes first.
PrintFirst ==
  /\ pc = "write" /\ Stdout \in unwritten
  /\ \/ /\ unwritten' = unwritten \ {Stdout}
        /\ UNCHANGED <<left, pc, exit, scan, result, disk, machine, host, ctx>>
     \/ Fails(Killed)

\* Then standard output; a closed pipe kills the process.
PrintReport ==
  /\ pc = "write" /\ unwritten = {Stdout}
  /\ \/ /\ unwritten' = {}
        /\ UNCHANGED <<left, pc, exit, scan, result, disk, machine, host, ctx>>
     \/ Fails(Killed)

\* --fail-under comes last.  report does not look at what it was given: a grade
\* that does not exist is worse than none.
Gate ==
  /\ pc = "write" /\ unwritten = {}
  /\ Fails(IF Command.failUnder # 0 /\ result.grade > Command.failUnder THEN 1 ELSE 0)

----------------------------------------------------------------------------
(* report and diff.                                                        *)

\* A report through another lens has another grade.
Rerender ==
  /\ pc = "start" /\ Command.is = "report"
  /\ IF disk[Command.from] = NoReport \/ ~ValidStandard(Command.lens) THEN Fails(2)
     ELSE /\ \E g \in Grades :
               /\ Command.lens = "" => g = disk[Command.from].grade
               /\ result' = [disk[Command.from] EXCEPT !.grade = g]
          /\ unwritten' = Outputs(Command)
          /\ Go("write") /\ UNCHANGED <<scan, disk, machine, host, ctx>>

Compare ==
  /\ pc = "start" /\ Command.is = "diff"
  /\ IF NoReport \in {disk[Command.before], disk[Command.after]} THEN Fails(2)
     ELSE \/ Fails(IF Command.gate /\ Drift(disk[Command.before].results, disk[Command.after].results)
                     THEN 1 ELSE 0)
          \/ Fails(Killed)

----------------------------------------------------------------------------
(* The host and the context.                                               *)

Change ==
  /\ drift < MaxDrift /\ pc \in {"start", "ended"}
  /\ \E c \in Ids, s \in States : observed' = [observed EXCEPT ![c] = s]
  /\ drift' = drift + 1
  /\ UNCHANGED <<left, pc, scan, output, exit, machine, boot, ctx>>

Reboot ==
  /\ drift < MaxDrift /\ pc \in {"start", "ended"}
  /\ boot' = boot + 1 /\ drift' = drift + 1
  /\ UNCHANGED <<left, pc, scan, output, exit, machine, observed, ctx>>

Expire ==
  /\ Command.is = "scan" /\ pc \notin {"start", "ended"} /\ ctx = "live"
  /\ ctx' = "done"
  /\ UNCHANGED <<left, pc, scan, output, exit, machine, host>>

Init ==
  /\ left \in Sessions /\ machine \in Machines
  /\ pc = "start" /\ exit = NoExit /\ ctx = "live"
  /\ filter = NoFilter /\ tries = 0 /\ engine = "none"
  /\ result = NoReport /\ unwritten = {}
  /\ disk = [f \in Files |-> NoReport]
  /\ \E s \in States : observed = [c \in Ids |-> s]
  /\ boot = 1 /\ drift = 0

Options == ReadOptions \/ ChooseProfile \/ PickProfile \/ SelectControls \/ Identify \/ IdentityRefused
Engines == PickNative \/ PickDocker \/ PullInVain \/ PickOnTarget \/ NoEngine
Auditing == AuditFails \/ Audit \/ WriteFile \/ WriteFails \/ PrintReport \/ Gate

Next ==
  \/ Options \/ Engines \/ Auditing \/ Rerender \/ Compare \/ NextCommand
  \/ Change \/ Reboot \/ Expire

Spec == Init /\ [][Next]_vars

----------------------------------------------------------------------------

TypeOK ==
  /\ left \in Seq(AllCommands) \ {<<>>}
  /\ pc \in {"start", "profile", "ask", "select", "identity", "engine", "audit", "write", "ended"}
  /\ filter \in Filters
  /\ engine \in {"none", "native", "docker", "target"}
  /\ result \in Reports /\ unwritten \subseteq Files \union {Stdout}
  /\ exit \in {NoExit, Killed} \union 0 .. 4
  /\ disk \in [Files -> Reports]
  /\ observed \in [Ids -> States] /\ boot \in Nat /\ drift \in 0 .. MaxDrift

\* Every file that was asked for has the report of this very command before its
\* exit tells what the grade is worth, and before a closed pipe ends it.
FilesBeforeExit ==
  pc = "ended" /\ Command.is \in {"scan", "report"} /\ exit \in {0, 1, Killed} =>
    /\ \A f \in Command.files : disk[f] = result
    /\ exit = 1 <=> exit # Killed /\ Command.failUnder # 0 /\ result.grade > Command.failUnder

\* A scan against a baseline, without any choice of controls of its own, audits
\* every control of that baseline: none is missing from the proof of the reboot.
SameControlsCompared ==
  pc = "write" /\ Command.is = "scan" =>
    \/ Command.baseline = "" \/ Filter(Command) # NoFilter
    \/ disk[Command.baseline].profile = ""
    \/ DOMAIN disk[Command.baseline].results \subseteq DOMAIN result.results

\* When the gate lets two reports pass, every control that is bad in the later
\* one was already in the earlier one, and did not pass there.
GateHolds ==
  pc = "ended" /\ Command.is = "diff" /\ exit = 0 /\ Command.gate =>
    LET before == disk[Command.before].results
        after  == disk[Command.after].results
    IN \A c \in DOMAIN after : Bad(after[c]) => c \in DOMAIN before /\ ~Pass(before[c])

\* No command pulls an image or installs an engine that it was not told to, and
\* none audits this machine from inside a container.
NothingUnasked ==
  [][ /\ machine'.image # machine.image => Command.engine = "docker"
      /\ machine'.target # machine.target => Command.bootstrap
      /\ engine' = "docker" => Command.kind # "local" ]_vars
=============================================================================
