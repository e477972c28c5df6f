--------------------------- MODULE Commands_proofs --------------------------
(***************************************************************************)
(* What a session of scans, re-rendered reports and comparisons keeps, for *)
(* any catalog, any sequence of commands and any machine: files come       *)
(* before exits, a baseline is compared whole, the gate sees what got      *)
(* worse, and nothing is pulled or installed unasked.                      *)
(***************************************************************************)
EXTENDS Commands, WellFoundedInduction, TLAPS

----------------------------------------------------------------------------
(* The catalog.                                                            *)

LEMMA LeastIsThere ==
  ASSUME NEW S \in SUBSET Nat, S # {}
  PROVE  Min(S) \in S
<1>1. PICK x \in S : \A y \in S : <<y, x>> \notin OpToRel(<, Nat)
  BY NatLessThanWellFounded, WFMin
<1>2. ASSUME NEW y \in S PROVE x <= y
  <2>1. ~(y < x)
    <3> SUFFICES ASSUME y < x PROVE FALSE
        OBVIOUS
    <3>1. <<y, x>> \in OpToRel(<, Nat)
      BY Zenon DEF OpToRel
    <3> QED
      BY <1>1, <3>1
  <2> QED
    BY <2>1
<1> QED
  BY <1>2 DEF Min

\* A name stands for a key of the catalog, or for none.
LEMMA KeyIsAName == \A name : ProfileKey(name) \in Names
<1> SUFFICES ASSUME NEW name PROVE ProfileKey(name) \in Names
    OBVIOUS
<1> DEFINE I == {i \in 1 .. Len(Profiles) : name \in Profiles[i].names}
<1>1. ProfileKey(name) = IF I # {} /\ Min(I) # 0 THEN Profiles[Min(I)].key ELSE ""
  BY DEF ProfileKey, SelectInSeq
<1>2. ASSUME I # {} PROVE Min(I) \in 1 .. Len(Profiles)
  <2>1. I \in SUBSET Nat /\ I \subseteq 1 .. Len(Profiles)
    OBVIOUS
  <2> HIDE DEF I
  <2> QED
    BY <1>2, <2>1, LeastIsThere
<1>3. \A i \in 1 .. Len(Profiles) : Profiles[i].key \in Names
  <2> DEFINE P == [key : Names, names : SUBSET STRING]
  <2>1. Profiles \in Seq(P)
    BY CatalogAssumption, Zenon
  <2>2. \A p \in P : p.key \in Names
    OBVIOUS
  <2> HIDE DEF P
  <2> QED
    BY <2>1, <2>2
<1> HIDE DEF I
<1> QED
  BY <1>1, <1>2, <1>3 DEF Names

\* The filter of a profile and nothing else.
Whole(profile) == [NoFilter EXCEPT !.profile = profile]

\* Without a list of controls, no filter selects more than its profile has.
LEMMA ProfileIsWidest ==
  ASSUME NEW f \in Filters, f.ids = {}, f.profile # ""
  PROVE  Select(f) \subseteq Select(Whole(f.profile))
<1>1. /\ Whole(f.profile).profile = f.profile /\ Whole(f.profile).pillars = {}
      /\ Whole(f.profile).standard = "all" /\ Whole(f.profile).ids = {}
      /\ Whole(f.profile).exclude = {}
  BY DEF Whole, NoFilter, Filters
<1>2. \A c : Selected(c, f) => Selected(c, Whole(f.profile))
  BY <1>1 DEF Selected, Has
<1> QED
  BY <1>2 DEF Select

LEMMA SelectsIds == \A f : Select(f) \subseteq Ids
  BY DEF Select, Ids

----------------------------------------------------------------------------
(* The invariant.                                                          *)

Scanning == {"profile", "ask", "select", "identity", "engine", "audit"}

\* A scan without criteria of its own goes on with the profile of its baseline.
ProfileKept ==
  pc \in Scanning =>
    /\ Command.is = "scan"
    /\ pc = "ask" => filter.profile = "" /\ filter.ids = {}
    /\ /\ Command.baseline # "" /\ Filter(Command) = NoFilter
       /\ disk[Command.baseline].profile # ""
       => filter = Whole(disk[Command.baseline].profile)

\* A report that names a profile has no other controls than that profile.
Honest(r) == r.profile # "" => DOMAIN r.results \subseteq Select(Whole(r.profile))

ReportsHonest == Honest(result) /\ \A f \in Files : Honest(disk[f])

\* While a command writes, what is not to be written any more is written.
WrittenSoFar ==
  pc = "write" =>
    /\ Command.is \in {"scan", "report"}
    /\ unwritten \subseteq Outputs(Command)
    /\ \A f \in Command.files : f \in unwritten \/ disk[f] = result

DockerElsewhere == engine = "docker" => Command.is = "scan" /\ Command.kind # "local"

IInv ==
  /\ TypeOK /\ ProfileKept /\ ReportsHonest /\ WrittenSoFar /\ DockerElsewhere
  /\ FilesBeforeExit /\ SameControlsCompared /\ GateHolds

\* What the command at work may be.
LEMMA CommandType ==
  ASSUME TypeOK
  PROVE  /\ Command \in AllCommands
         /\ Command.is = "scan" => Command \in ScanCommands
         /\ Command.is = "report" => Command \in ReportCommands
         /\ Command.is = "diff" => Command \in DiffCommands
<1>1. Command \in AllCommands
  BY DEF TypeOK, Command
<1> QED
  BY <1>1 DEF AllCommands, ScanCommands, ReportCommands, DiffCommands

LEMMA NoReportType == NoReport \in Reports /\ Honest(NoReport)
<1>1. <<>> \in [{} -> States]
  OBVIOUS
<1>2. <<>> \in UNION {[S -> States] : S \in SUBSET Ids}
  BY <1>1
<1> QED
  BY <1>2 DEF NoReport, Reports, Honest, Names

LEMMA NoFilterType == NoFilter \in Filters
<1>1. "" \in Names /\ "all" \in Names
  BY DEF Names
<1>2. {} \in SUBSET Nat /\ {} \in SUBSET STRING
  OBVIOUS
<1> QED
  BY <1>1, <1>2 DEF NoFilter, Filters

LEMMA InitInductive == Init => IInv
<1> SUFFICES ASSUME Init PROVE IInv
    OBVIOUS
<1>1. TypeOK
  <2>1. left \in Seq(AllCommands) \ {<<>>}
    BY CommandsAssumption DEF Init
  <2>2. disk \in [Files -> Reports] /\ result \in Reports
    BY NoReportType DEF Init
  <2>3. filter \in Filters
    BY NoFilterType DEF Init
  <2> QED
    <3>1. exit \in {NoExit, Killed} \union 0 .. 4
      BY DEF Init
    <3>2. observed \in [Ids -> States]
      BY DEF Init
    <3>3. drift \in 0 .. MaxDrift /\ boot \in Nat
      <4>1. MaxDrift \in Nat
        BY CommandsAssumption, Zenon
      <4> QED
        BY <4>1 DEF Init
    <3> QED
      BY <2>1, <2>2, <2>3, <3>1, <3>2, <3>3 DEF Init, TypeOK
<1>2. ReportsHonest
  BY NoReportType DEF Init, ReportsHonest
<1> QED
  BY <1>1, <1>2 DEF Init, IInv, ProfileKept, Scanning, WrittenSoFar, DockerElsewhere,
     FilesBeforeExit, SameControlsCompared, GateHolds

----------------------------------------------------------------------------
(* The steps.                                                              *)

\* A command that ends with a usage, engine or target error says nothing.
LEMMA FailureKeeps ==
  ASSUME IInv, NEW code \in {2, 3, 4}, End(code), filter' \in Filters,
         UNCHANGED <<engine, output, host>>
  PROVE  IInv'
<1>1. TypeOK'
  BY DEF IInv, TypeOK, End, output, host
<1>2. pc' = "ended" /\ exit' \notin {0, 1, Killed} /\ left' = left
  BY DEF End, Killed
<1>3. ProfileKept' /\ WrittenSoFar' /\ FilesBeforeExit' /\ SameControlsCompared' /\ GateHolds'
  BY <1>2 DEF ProfileKept, Scanning, WrittenSoFar, FilesBeforeExit, SameControlsCompared, GateHolds
<1>4. ReportsHonest' /\ DockerElsewhere'
  BY <1>2 DEF IInv, ReportsHonest, DockerElsewhere, output, Command
<1> QED
  BY <1>1, <1>3, <1>4 DEF IInv

\* What happens beside a command.
LEMMA WorldKeeps ==
  ASSUME IInv, UNCHANGED <<left, pc, scan, output, exit>>,
         observed' \in [Ids -> States], boot' \in Nat, drift' \in 0 .. MaxDrift
  PROVE  IInv'
<1>1. TypeOK'
  BY DEF IInv, TypeOK, scan, output
<1> QED
  BY <1>1 DEF IInv, ProfileKept, WrittenSoFar, FilesBeforeExit, SameControlsCompared, GateHolds,
     ReportsHonest, DockerElsewhere, scan, output, Command

\* The next step of a scan, with the same filter.
LEMMA ScanGoesOn ==
  ASSUME IInv, pc \in Scanning, pc' \in Scanning,
         pc' = "ask" => filter.profile = "" /\ filter.ids = {},
         UNCHANGED <<left, exit, filter, output, host>>,
         engine' \in {"none", "native", "docker", "target"},
         engine' = "docker" => Command.kind # "local"
  PROVE  IInv'
<1>1. TypeOK'
  BY DEF IInv, TypeOK, output, host, Scanning
<1>2. Command' = Command /\ Command.is = "scan" /\ disk' = disk /\ result' = result
  BY DEF IInv, ProfileKept, Command, output
<1>3. ProfileKept' /\ DockerElsewhere'
  BY <1>2 DEF IInv, ProfileKept, DockerElsewhere
<1>4. WrittenSoFar' /\ FilesBeforeExit' /\ SameControlsCompared' /\ GateHolds'
  BY DEF Scanning, WrittenSoFar, FilesBeforeExit, SameControlsCompared, GateHolds
<1>5. ReportsHonest'
  BY <1>2 DEF IInv, ReportsHonest
<1> QED
  BY <1>1, <1>3, <1>4, <1>5 DEF IInv

LEMMA FilterType ==
  ASSUME NEW c \in ScanCommands
  PROVE  Filter(c) \in Filters
<1>1. c.profile \in Names /\ c.standard \in Names /\ c.pillars \in SUBSET Nat
      /\ c.ids \in SUBSET STRING /\ c.exclude \in SUBSET STRING
  BY DEF ScanCommands
<1>2. FlagProfile(c) \in Names
  BY KeyIsAName DEF FlagProfile, LevelProfile, Names
<1> QED
  BY <1>1, <1>2 DEF Filter, Filters

LEMMA OptionsRead == IInv /\ ReadOptions => IInv'
<1> SUFFICES ASSUME IInv, ReadOptions PROVE IInv'
    OBVIOUS
<1> DEFINE base == disk[Command.baseline]
<1>1. TypeOK /\ Command \in ScanCommands /\ Filter(Command) \in Filters
  BY CommandType, FilterType DEF IInv, ReadOptions
<1>2. CASE Fails(2)
  BY <1>1, <1>2, FailureKeeps DEF Fails, scan, TypeOK
<1>3. CASE /\ filter' = IF Command.baseline = "" THEN Filter(Command)
                         ELSE WithBaseline(Filter(Command), base)
           /\ Go("profile") /\ UNCHANGED <<tries, engine, output, machine, host, ctx>>
  <2>1. left' = left /\ exit' = exit /\ pc' = "profile" /\ Command' = Command /\ engine' = engine
        /\ disk' = disk /\ result' = result
    BY <1>3 DEF Go, Command, output
  <2>2. Command.baseline # "" => base \in Reports
    BY <1>1 DEF TypeOK, ScanCommands
  <2>3. filter' \in Filters
    <3>1. ASSUME NEW p \in Names PROVE [Filter(Command) EXCEPT !.profile = p] \in Filters
      BY <1>1 DEF Filters
    <3>2. Command.baseline # "" => base.profile \in Names
      BY <2>2 DEF Reports
    <3> QED
      BY <1>1, <1>3, <3>1, <3>2 DEF WithBaseline
  <2>4. TypeOK'
    BY <1>1, <1>3, <2>1, <2>3 DEF TypeOK, output, host
  <2>5. ASSUME Command.baseline # "", Filter(Command) = NoFilter, base.profile # ""
        PROVE  filter' = Whole(base.profile)
    <3>1. NoFilter.profile = "" /\ NoFilter.ids = {}
      BY DEF NoFilter
    <3> QED
      BY <1>3, <2>5, <3>1 DEF WithBaseline, Whole
  <2>6. ProfileKept'
    BY <1>1, <2>1, <2>5 DEF ProfileKept, ReadOptions
  <2>7. WrittenSoFar' /\ FilesBeforeExit' /\ SameControlsCompared' /\ GateHolds'
    BY <2>1 DEF WrittenSoFar, FilesBeforeExit, SameControlsCompared, GateHolds
  <2>8. ReportsHonest' /\ DockerElsewhere'
    BY <2>1 DEF IInv, ReportsHonest, DockerElsewhere
  <2> QED
    BY <2>4, <2>6, <2>7, <2>8 DEF IInv
<1> QED
  BY <1>2, <1>3 DEF ReadOptions

LEMMA ProfileChosen == IInv /\ ChooseProfile => IInv'
<1> SUFFICES ASSUME IInv, ChooseProfile PROVE IInv'
    OBVIOUS
<1>1. pc \in Scanning /\ engine \in {"none", "native", "docker", "target"} /\ filter \in Filters
      /\ (engine = "docker" => Command.kind # "local")
  BY DEF ChooseProfile, Scanning, IInv, TypeOK, DockerElsewhere
<1>2. CASE Fails(2)
  BY <1>1, <1>2, FailureKeeps DEF Fails, scan
<1>3. CASE HasProfile /\ Go("select") /\ UNCHANGED <<scan, output, machine, host, ctx>>
  BY <1>1, <1>3, ScanGoesOn DEF Go, scan, Scanning
<1>4. CASE ~HasProfile /\ Go("ask") /\ UNCHANGED <<scan, output, machine, host, ctx>>
  BY <1>1, <1>4, ScanGoesOn DEF Go, scan, Scanning, HasProfile
<1> QED
  BY <1>2, <1>3, <1>4 DEF ChooseProfile

LEMMA ProfilePicked == IInv /\ PickProfile => IInv'
<1> SUFFICES ASSUME IInv, PickProfile PROVE IInv'
    OBVIOUS
<1>1. filter \in Filters /\ filter.ids = {} /\ Command.is = "scan"
  BY DEF PickProfile, Scanning, IInv, TypeOK, ProfileKept
<1>2. CASE Fails(2)
  BY <1>1, <1>2, FailureKeeps DEF Fails, scan
<1>3. ASSUME NEW name \in Typed,
             filter' = [filter EXCEPT !.profile = ProfileKey(name)],
             IF ProfileKey(name) # "" THEN Go("select") ELSE IF tries = 4 THEN End(2) ELSE Go("ask"),
             UNCHANGED <<engine, output, machine, host, ctx>>
      PROVE  IInv'
  <2>1. filter' \in Filters
    BY <1>1, <1>3, KeyIsAName DEF Filters
  <2>2. CASE End(2)
    BY <1>3, <2>1, <2>2, FailureKeeps
  <2>3. ASSUME NEW next \in {"select", "ask"}, Go(next), next = "ask" => ProfileKey(name) = ""
        PROVE  IInv'
    <3>1. left' = left /\ exit' = exit /\ pc' \in {"select", "ask"} /\ Command' = Command
          /\ disk' = disk /\ result' = result /\ engine' = engine
      BY <1>3, <2>3 DEF Go, Command, output
    <3>2. TypeOK'
      BY <1>3, <2>1, <3>1 DEF IInv, TypeOK, output, host
    <3>3. pc' = "ask" => filter'.profile = "" /\ filter'.ids = {}
      BY <1>1, <1>3, <2>3 DEF Filters, Go
    <3>4. ~(/\ Command.baseline # "" /\ Filter(Command) = NoFilter
            /\ disk[Command.baseline].profile # "")
      <4>1. \A p : Whole(p).profile = p
        BY DEF Whole, NoFilter
      <4> QED
        BY <4>1 DEF PickProfile, IInv, ProfileKept, Scanning
    <3>5. ProfileKept'
      BY <1>1, <3>1, <3>3, <3>4 DEF ProfileKept
    <3>6. WrittenSoFar' /\ FilesBeforeExit' /\ SameControlsCompared' /\ GateHolds'
      BY <3>1 DEF WrittenSoFar, FilesBeforeExit, SameControlsCompared, GateHolds
    <3>7. ReportsHonest' /\ DockerElsewhere'
      BY <3>1 DEF IInv, ReportsHonest, DockerElsewhere
    <3> QED
      BY <3>2, <3>5, <3>6, <3>7 DEF IInv
  <2>4. CASE ProfileKey(name) # ""
    <3>1. Go("select")
      BY <1>3, <2>4, Zenon
    <3> QED
      BY <2>3, <3>1
  <2>5. CASE ProfileKey(name) = "" /\ tries # 4
    <3>1. Go("ask")
      BY <1>3, <2>5, Zenon
    <3> QED
      BY <2>3, <2>5, <3>1
  <2>6. CASE ProfileKey(name) = "" /\ tries = 4
    <3>1. End(2)
      BY <1>3, <2>6, Zenon
    <3> QED
      BY <2>2, <3>1
  <2> QED
    BY <2>4, <2>5, <2>6
<1> QED
  BY <1>2, <1>3 DEF PickProfile

\* The steps that only go on, or fail.
LEMMA ScanStepKeeps ==
  IInv /\ (SelectControls \/ Identify \/ IdentityRefused \/ PickNative \/ PickDocker
           \/ PullInVain \/ PickOnTarget \/ NoEngine \/ AuditFails) => IInv'
<1> SUFFICES ASSUME IInv,
                    SelectControls \/ Identify \/ IdentityRefused \/ PickNative \/ PickDocker
                    \/ PullInVain \/ PickOnTarget \/ NoEngine \/ AuditFails
             PROVE  IInv'
    OBVIOUS
<1>1. /\ engine \in {"none", "native", "docker", "target"} /\ filter \in Filters
      /\ engine = "docker" => Command.kind # "local"
  BY DEF IInv, TypeOK, DockerElsewhere
<1>2. ASSUME NEW code \in {2, 3, 4}, Fails(code) PROVE IInv'
  BY <1>1, <1>2, FailureKeeps DEF Fails, scan
<1>3. ASSUME NEW next \in Scanning \ {"ask"}, Go(next), pc \in Scanning,
             UNCHANGED <<scan, output, machine, host, ctx>>
      PROVE  IInv'
  BY <1>1, <1>3, ScanGoesOn DEF Go, scan
<1>4. ASSUME NEW e \in {"native", "docker", "target"}, Found(e), pc = "engine",
             e = "docker" => Command.kind # "local"
      PROVE  IInv'
  BY <1>4, ScanGoesOn DEF Go, Found, Scanning
<1>5. CASE SelectControls
  BY <1>2, <1>3, <1>5 DEF SelectControls, Scanning
<1>6. CASE Identify
  BY <1>3, <1>6 DEF Identify, Scanning
<1>7. CASE IdentityRefused \/ NoEngine \/ AuditFails
  BY <1>2, <1>7 DEF IdentityRefused, NoEngine, AuditFails
<1>8. CASE PickNative
  BY <1>4, <1>8 DEF PickNative
<1>9. CASE PickDocker
  BY <1>4, <1>9 DEF PickDocker
<1>10. CASE PickOnTarget
  BY <1>4, <1>10 DEF PickOnTarget
<1>11. CASE PullInVain
  BY <1>1, <1>11, FailureKeeps DEF PullInVain, scan
<1> QED
  BY <1>5, <1>6, <1>7, <1>8, <1>9, <1>10, <1>11

LEMMA AuditKeeps == IInv /\ Audit => IInv'
<1> SUFFICES ASSUME IInv, Audit PROVE IInv'
    OBVIOUS
<1>1. Command.is = "scan" /\ Command \in ScanCommands /\ filter \in Filters /\ TypeOK
  BY CommandType DEF IInv, ProfileKept, Scanning, Audit, TypeOK
<1>2. PICK g \in Grades :
        result' = [profile |-> IF filter.ids # {} THEN "" ELSE filter.profile,
                   results |-> [c \in Select(filter) |-> observed[c]],
                   boot |-> boot, grade |-> g]
  BY DEF Audit
<1>3. left' = left /\ exit' = exit /\ pc' = "write" /\ Command' = Command /\ disk' = disk
      /\ unwritten' = Outputs(Command) /\ engine' = engine /\ filter' = filter
  BY DEF Audit, Go, Command, scan
<1>4. result' \in Reports
  <2>1. [c \in Select(filter) |-> observed[c]] \in UNION {[S -> States] : S \in SUBSET Ids}
    BY <1>1, SelectsIds DEF TypeOK
  <2>2. (IF filter.ids # {} THEN "" ELSE filter.profile) \in Names
    BY <1>1 DEF Filters, Names
  <2>3. g \in Nat /\ boot \in Nat
    <3>1. Grades \subseteq Nat
      BY CommandsAssumption, Zenon
    <3> QED
      BY <1>1, <3>1 DEF TypeOK
  <2> QED
    BY <1>2, <2>1, <2>2, <2>3 DEF Reports
<1>5. unwritten' \subseteq Files \union {Stdout}
  BY <1>1, <1>3 DEF Outputs, ScanCommands
<1>6. TypeOK'
  BY <1>1, <1>3, <1>4, <1>5 DEF Audit, TypeOK, host
<1>7. DOMAIN result'.results = Select(filter)
      /\ (result'.profile # "" => result'.profile = filter.profile /\ filter.ids = {})
  BY <1>2
<1>8. ReportsHonest'
  <2>1. Honest(result)'
    BY <1>1, <1>7, ProfileIsWidest DEF Honest
  <2> QED
    BY <1>3, <2>1 DEF IInv, ReportsHonest, Honest
<1>9. SameControlsCompared'
  <2> SUFFICES ASSUME Command.baseline # "", Filter(Command) = NoFilter,
                      disk[Command.baseline].profile # ""
               PROVE  DOMAIN disk[Command.baseline].results \subseteq DOMAIN result'.results
    BY <1>3 DEF SameControlsCompared
  <2>1. filter = Whole(disk[Command.baseline].profile)
    BY DEF IInv, ProfileKept, Scanning, Audit
  <2>2. Command.baseline \in Files
    BY <1>1 DEF ScanCommands
  <2> QED
    BY <1>7, <2>1, <2>2 DEF IInv, ReportsHonest, Honest
<1>10. ProfileKept' /\ FilesBeforeExit' /\ GateHolds'
  BY <1>3 DEF ProfileKept, Scanning, FilesBeforeExit, GateHolds
<1>11. WrittenSoFar' /\ DockerElsewhere'
  BY <1>1, <1>3 DEF IInv, WrittenSoFar, Outputs, DockerElsewhere
<1> QED
  BY <1>6, <1>8, <1>9, <1>10, <1>11 DEF IInv

\* The outputs still to write are those of a command that has some.
LEMMA OutputsAreFiles ==
  ASSUME TypeOK, Command.is \in {"scan", "report"}
  PROVE  Command.files \subseteq Files /\ Stdout \notin Command.files
         /\ Command.failUnder \in Nat
<1>1. Command.files \subseteq Files /\ Command.failUnder \in Nat
  BY CommandType DEF ScanCommands, ReportCommands
<1>2. Stdout \notin Files
  BY CommandsAssumption, Zenon
<1> QED
  BY <1>1, <1>2

LEMMA FileWritten == IInv /\ WriteFile => IInv'
<1> SUFFICES ASSUME IInv, WriteFile PROVE IInv'
    OBVIOUS
<1>1. PICK f \in unwritten \ {Stdout} :
        disk' = [disk EXCEPT ![f] = result] /\ unwritten' = unwritten \ {f}
  BY DEF WriteFile
<1>2. left' = left /\ exit' = exit /\ pc = "write" /\ pc' = "write" /\ Command' = Command
      /\ result' = result /\ engine' = engine
  BY DEF WriteFile, Command, scan
<1>3. f \in Files /\ disk \in [Files -> Reports] /\ result \in Reports
  BY DEF IInv, TypeOK
<1>4. \A x \in Files : disk'[x] = IF x = f THEN result ELSE disk[x]
  BY <1>1, <1>3
<1>5. TypeOK'
  BY <1>1, <1>2, <1>3 DEF IInv, TypeOK, WriteFile, scan, host
<1>6. ReportsHonest'
  BY <1>2, <1>4 DEF IInv, ReportsHonest, Honest
<1>7. WrittenSoFar'
  <2>1. Command.files \subseteq Files
    BY <1>2, OutputsAreFiles DEF IInv, WrittenSoFar
  <2> QED
    BY <1>1, <1>2, <1>4, <2>1 DEF IInv, WrittenSoFar, Outputs
<1>8. SameControlsCompared'
  <2> SUFFICES ASSUME Command.is = "scan", Command.baseline # "", Filter(Command) = NoFilter,
                      disk'[Command.baseline].profile # ""
               PROVE  DOMAIN disk'[Command.baseline].results \subseteq DOMAIN result.results
    BY <1>2 DEF SameControlsCompared
  <2>1. Command.baseline \in Files
    BY CommandType DEF IInv, ScanCommands
  <2> QED
    BY <1>2, <1>4, <2>1 DEF IInv, SameControlsCompared
<1>9. ProfileKept' /\ FilesBeforeExit' /\ GateHolds' /\ DockerElsewhere'
  BY <1>2 DEF IInv, ProfileKept, Scanning, FilesBeforeExit, GateHolds, DockerElsewhere
<1> QED
  BY <1>5, <1>6, <1>7, <1>8, <1>9 DEF IInv

\* A command that has written its files ends.
LEMMA EndOfWriting ==
  ASSUME IInv, pc = "write", unwritten \subseteq {Stdout}, NEW code \in {0, 1, Killed},
         Fails(code),
         code = 1 <=> code # Killed /\ Command.failUnder # 0 /\ result.grade > Command.failUnder
  PROVE  IInv'
<1>1. left' = left /\ exit' = code /\ pc' = "ended" /\ Command' = Command /\ disk' = disk
      /\ result' = result /\ engine' = engine
  BY DEF Fails, End, Command, output, scan
<1>2. TypeOK'
  BY <1>1 DEF IInv, TypeOK, Fails, scan, output, host
<1>3. FilesBeforeExit'
  <2>1. Stdout \notin Command.files
    BY OutputsAreFiles DEF IInv, WrittenSoFar
  <2> QED
    BY <1>1, <2>1 DEF IInv, WrittenSoFar, FilesBeforeExit
<1>4. GateHolds'
  BY <1>1 DEF IInv, WrittenSoFar, GateHolds
<1>5. ProfileKept' /\ WrittenSoFar' /\ SameControlsCompared' /\ ReportsHonest' /\ DockerElsewhere'
  BY <1>1 DEF IInv, ProfileKept, Scanning, WrittenSoFar, SameControlsCompared, ReportsHonest, DockerElsewhere
<1> QED
  BY <1>2, <1>3, <1>4, <1>5 DEF IInv

LEMMA WritingKeeps == IInv /\ (WriteFails \/ PrintReport \/ Gate) => IInv'
<1> SUFFICES ASSUME IInv, WriteFails \/ PrintReport \/ Gate PROVE IInv'
    OBVIOUS
<1>1. CASE WriteFails
  BY <1>1, FailureKeeps DEF WriteFails, Fails, scan, IInv, TypeOK
<1>2. CASE Gate
  <2> DEFINE code == IF Command.failUnder # 0 /\ result.grade > Command.failUnder THEN 1 ELSE 0
  <2>1. Fails(code) /\ pc = "write" /\ unwritten = {}
    BY <1>2 DEF Gate
  <2>2. code \in {0, 1, Killed}
    OBVIOUS
  <2>3. code = 1 <=> code # Killed /\ Command.failUnder # 0 /\ result.grade > Command.failUnder
    BY DEF Killed
  <2> HIDE DEF code
  <2> QED
    BY <2>1, <2>2, <2>3, EndOfWriting
<1>3. CASE PrintReport
  <2>1. CASE Fails(Killed)
    BY <1>3, <2>1, EndOfWriting DEF PrintReport, Killed
  <2>2. CASE unwritten' = {} /\ UNCHANGED <<left, pc, exit, scan, result, disk, machine, host, ctx>>
    <3>1. pc = "write" /\ unwritten = {Stdout}
      BY <1>3 DEF PrintReport
    <3>2. Stdout \notin Command.files
      BY <3>1, OutputsAreFiles DEF IInv, WrittenSoFar
    <3>3. WrittenSoFar'
      BY <2>2, <3>1, <3>2 DEF IInv, WrittenSoFar, Command
    <3>4. TypeOK'
      BY <2>2 DEF IInv, TypeOK, scan, host
    <3> QED
      BY <2>2, <3>1, <3>3, <3>4 DEF IInv, ProfileKept, Scanning, FilesBeforeExit, SameControlsCompared,
         GateHolds, ReportsHonest, DockerElsewhere, Command, scan
  <2> QED
    BY <1>3, <2>1, <2>2 DEF PrintReport
<1> QED
  BY <1>1, <1>2, <1>3

LEMMA Rerendered == IInv /\ Rerender => IInv'
<1> SUFFICES ASSUME IInv, Rerender PROVE IInv'
    OBVIOUS
<1>1. Command.is = "report" /\ Command \in ReportCommands /\ filter \in Filters /\ pc = "start"
  BY CommandType DEF Rerender, IInv, TypeOK
<1>2. CASE Fails(2)
  BY <1>1, <1>2, FailureKeeps DEF Fails, scan
<1>3. CASE /\ \E g \in Grades :
                 /\ Command.lens = "" => g = disk[Command.from].grade
                 /\ result' = [disk[Command.from] EXCEPT !.grade = g]
           /\ unwritten' = Outputs(Command)
           /\ Go("write") /\ UNCHANGED <<scan, disk, machine, host, ctx>>
  <2>1. PICK g \in Grades : result' = [disk[Command.from] EXCEPT !.grade = g]
    BY <1>3
  <2>2. left' = left /\ exit' = exit /\ pc' = "write" /\ Command' = Command /\ disk' = disk
        /\ unwritten' = Outputs(Command) /\ engine' = engine
    BY <1>3 DEF Go, Command, scan
  <2>3. Command.from \in Files /\ disk[Command.from] \in Reports
    BY <1>1 DEF ReportCommands, IInv, TypeOK
  <2>4. g \in Nat
    BY CommandsAssumption, Zenon
  <2>5. result' \in Reports /\ result'.profile = disk[Command.from].profile
        /\ result'.results = disk[Command.from].results
    BY <2>1, <2>3, <2>4 DEF Reports
  <2>6. TypeOK'
    <3>1. unwritten' \subseteq Files \union {Stdout}
      BY <1>1, <2>2 DEF Outputs, ReportCommands
    <3> QED
      BY <1>3, <2>2, <2>5, <3>1 DEF IInv, TypeOK, scan, host
  <2>7. ReportsHonest'
    BY <2>2, <2>3, <2>5 DEF IInv, ReportsHonest, Honest
  <2>8. WrittenSoFar' /\ SameControlsCompared' /\ DockerElsewhere'
    BY <1>1, <2>2 DEF IInv, WrittenSoFar, Outputs, SameControlsCompared, DockerElsewhere
  <2>9. ProfileKept' /\ FilesBeforeExit' /\ GateHolds'
    BY <2>2 DEF ProfileKept, Scanning, FilesBeforeExit, GateHolds
  <2> QED
    BY <2>6, <2>7, <2>8, <2>9 DEF IInv
<1> QED
  BY <1>2, <1>3 DEF Rerender

LEMMA ReportsCompared == IInv /\ Compare => IInv'
<1> SUFFICES ASSUME IInv, Compare PROVE IInv'
    OBVIOUS
<1>1. Command.is = "diff" /\ filter \in Filters
  BY DEF Compare, IInv, TypeOK
<1>2. CASE Fails(2)
  BY <1>1, <1>2, FailureKeeps DEF Fails, scan
<1>3. ASSUME NEW code \in {0, 1, Killed}, Fails(code),
             code = 0 /\ Command.gate =>
               ~Drift(disk[Command.before].results, disk[Command.after].results)
      PROVE  IInv'
  <2>1. left' = left /\ exit' = code /\ pc' = "ended" /\ Command' = Command /\ disk' = disk
        /\ result' = result /\ engine' = engine
    BY <1>3 DEF Fails, End, Command, output, scan
  <2>2. TypeOK'
    BY <1>3, <2>1 DEF IInv, TypeOK, Fails, scan, output, host
  <2>3. GateHolds'
    <3> SUFFICES ASSUME code = 0, Command.gate,
                        NEW c \in DOMAIN disk[Command.after].results,
                        Bad(disk[Command.after].results[c])
                 PROVE  /\ c \in DOMAIN disk[Command.before].results
                        /\ ~Pass(disk[Command.before].results[c])
      BY <2>1 DEF GateHolds
    <3> DEFINE before == disk[Command.before].results
               after  == disk[Command.after].results
    <3>1. Regressed(before, after) = {} /\ New(before, after) = {}
      BY <1>3 DEF Drift
    <3>2. c \in DOMAIN before
      BY <3>1 DEF New
    <3>3. ~Pass(before[c])
      BY <3>1, <3>2 DEF Regressed, Both, Requalified
    <3> QED
      BY <3>2, <3>3
  <2>4. FilesBeforeExit'
    BY <1>1, <2>1 DEF FilesBeforeExit
  <2>5. ProfileKept' /\ WrittenSoFar' /\ SameControlsCompared' /\ ReportsHonest' /\ DockerElsewhere'
    BY <2>1 DEF IInv, ProfileKept, Scanning, WrittenSoFar, SameControlsCompared, ReportsHonest, DockerElsewhere
  <2> QED
    BY <2>2, <2>3, <2>4, <2>5 DEF IInv
<1> DEFINE drifts == Command.gate /\ Drift(disk[Command.before].results, disk[Command.after].results)
<1>4. Fails(2) \/ Fails(IF drifts THEN 1 ELSE 0) \/ Fails(Killed)
  BY Zenon DEF Compare
<1>5. CASE Fails(Killed)
  BY <1>3, <1>5 DEF Killed
<1>6. CASE Fails(IF drifts THEN 1 ELSE 0)
  <2>1. CASE drifts
    BY <1>3, <1>6, <2>1
  <2>2. CASE ~drifts
    BY <1>3, <1>6, <2>2
  <2> QED
    BY <2>1, <2>2
<1> QED
  BY <1>2, <1>4, <1>5, <1>6

LEMMA NextCommandKeeps == IInv /\ NextCommand => IInv'
<1> SUFFICES ASSUME IInv, NextCommand PROVE IInv'
    OBVIOUS
<1>1. left' \in Seq(AllCommands) \ {<<>>}
  <2>1. left \in Seq(AllCommands) /\ Len(left) > 1 /\ left' = Tail(left)
    BY DEF NextCommand, IInv, TypeOK
  <2> HIDE DEF NextCommand, IInv
  <2>2. Tail(left) \in Seq(AllCommands) /\ Len(Tail(left)) = Len(left) - 1
    BY <2>1
  <2>3. Len(left) \in Nat /\ Len(left) - 1 # 0
    BY <2>1
  <2>4. Len(left') # 0
    <3>1. Len(left') = Len(left) - 1
      BY <2>1, <2>2, Zenon
    <3> QED
      BY <3>1, <2>3, Zenon
  <2>5. left' # <<>>
    BY <2>4
  <2> QED
    BY <2>1, <2>2, <2>5
<1>2. TypeOK'
  BY <1>1, NoReportType, NoFilterType DEF NextCommand, IInv, TypeOK, host, NoExit
<1>3. ReportsHonest'
  BY NoReportType DEF NextCommand, IInv, ReportsHonest, Honest
<1> QED
  BY <1>2, <1>3 DEF NextCommand, IInv, ProfileKept, Scanning, WrittenSoFar, DockerElsewhere,
     FilesBeforeExit, SameControlsCompared, GateHolds

LEMMA HostKeeps == IInv /\ (Change \/ Reboot \/ Expire \/ UNCHANGED vars) => IInv'
<1> SUFFICES ASSUME IInv, Change \/ Reboot \/ Expire \/ UNCHANGED vars PROVE IInv'
    OBVIOUS
<1>1. observed \in [Ids -> States] /\ boot \in Nat /\ drift \in 0 .. MaxDrift
  BY DEF IInv, TypeOK
<1>2. MaxDrift \in Nat
  BY CommandsAssumption, Zenon
<1>3. CASE Change
  BY <1>1, <1>2, <1>3, WorldKeeps DEF Change
<1>4. CASE Reboot
  BY <1>1, <1>2, <1>4, WorldKeeps DEF Reboot
<1>5. CASE Expire
  BY <1>1, <1>5, WorldKeeps DEF Expire, host
<1>6. CASE UNCHANGED vars
  BY <1>1, <1>6, WorldKeeps DEF vars, host
<1> QED
  BY <1>3, <1>4, <1>5, <1>6

LEMMA StepInductive == IInv /\ [Next]_vars => IInv'
  BY OptionsRead, ProfileChosen, ProfilePicked, ScanStepKeeps, AuditKeeps, FileWritten,
     WritingKeeps, Rerendered, ReportsCompared, NextCommandKeeps, HostKeeps
     DEF Next, Options, Engines, Auditing

THEOREM Invariance == Spec => []IInv
  BY InitInductive, StepInductive, PTL DEF Spec

\* The state of a session has its type, for any commands on any machine.
THEOREM TypeCorrect == Spec => []TypeOK
<1>1. IInv => TypeOK
  BY DEF IInv
<1> QED
  BY <1>1, Invariance, PTL

\* The files of a command are its report before its exit tells what the grade is
\* worth, and before a closed pipe ends it (writeOutputs, --fail-under).
THEOREM FilesFirst == Spec => []FilesBeforeExit
<1>1. IInv => FilesBeforeExit
  BY DEF IInv
<1> QED
  BY <1>1, Invariance, PTL

\* A scan against a baseline audits every control of it, whatever the catalog and
\* whatever the commands before it wrote and re-rendered (scan.go:403).
THEOREM BaselineIsWhole == Spec => []SameControlsCompared
<1>1. IInv => SameControlsCompared
  BY DEF IInv
<1> QED
  BY <1>1, Invariance, PTL

\* A gate that is passed has seen no control get worse (diff.Compare).
THEOREM GateIsTight == Spec => []GateHolds
<1>1. IInv => GateHolds
  BY DEF IInv
<1> QED
  BY <1>1, Invariance, PTL

MachineKnown == machine \in AllMachines

LEMMA MachineIsKnown == Spec => []MachineKnown
<1>1. Init => MachineKnown
  <2>1. Machines \subseteq AllMachines
    BY CommandsAssumption, Zenon
  <2> QED
    BY <2>1 DEF Init, MachineKnown
<1>2. MachineKnown /\ [Next]_vars => MachineKnown'
  <2> SUFFICES ASSUME MachineKnown, [Next]_vars PROVE MachineKnown'
      OBVIOUS
  <2>1. CASE PickDocker \/ PullInVain \/ PickOnTarget
    BY <2>1 DEF PickDocker, PullInVain, PickOnTarget, MachineKnown, AllMachines
  <2>2. CASE ~(PickDocker \/ PullInVain \/ PickOnTarget)
    <3>1. machine' = machine
      <4>1. CASE Options \/ NoEngine \/ PickNative
        BY <4>1 DEF Options, ReadOptions, ChooseProfile, PickProfile, SelectControls, Identify,
           IdentityRefused, NoEngine, PickNative, Fails
      <4>2. CASE Auditing \/ Rerender \/ Compare
        BY <4>2 DEF Auditing, AuditFails, Audit, WriteFile, WriteFails, PrintReport, Gate,
           Rerender, Compare, Fails
      <4>3. CASE NextCommand \/ Change \/ Reboot \/ Expire \/ UNCHANGED vars
        BY <4>3 DEF NextCommand, Change, Reboot, Expire, vars
      <4> QED
        BY <2>2, <4>1, <4>2, <4>3 DEF Next, Engines
    <3> QED
      BY <3>1 DEF MachineKnown
  <2> QED
    BY <2>1, <2>2
<1> QED
  BY <1>1, <1>2, PTL DEF Spec

\* No command pulls or installs what it was not told to (pickEngine, runOnTarget).
THEOREM AskedFor == Spec => NothingUnasked
<1> DEFINE Asked == /\ machine'.image # machine.image => Command.engine = "docker"
                    /\ machine'.target # machine.target => Command.bootstrap
                    /\ engine' = "docker" => Command.kind # "local"
<1>1. MachineKnown /\ DockerElsewhere /\ Next => Asked
  <2> SUFFICES ASSUME MachineKnown, DockerElsewhere, Next PROVE Asked
      OBVIOUS
  <2>1. CASE ReadOptions \/ ChooseProfile \/ PickProfile \/ SelectControls \/ Identify
             \/ IdentityRefused \/ NoEngine
    BY <2>1 DEF ReadOptions, ChooseProfile, PickProfile, SelectControls, Identify, IdentityRefused,
       NoEngine, Fails, scan, DockerElsewhere
  <2>2. CASE PickNative \/ PickDocker \/ PullInVain \/ PickOnTarget
    BY <2>2 DEF PickNative, PickDocker, PullInVain, PickOnTarget, Found, scan, DockerElsewhere,
       MachineKnown, AllMachines, Fails, OnTarget
  <2>3. CASE Auditing \/ Rerender \/ Compare
    BY <2>3 DEF Auditing, AuditFails, Audit, WriteFile, WriteFails, PrintReport, Gate, Rerender,
       Compare, Fails, scan, DockerElsewhere
  <2>4. CASE NextCommand
    BY <2>4 DEF NextCommand, DockerElsewhere
  <2>5. CASE Change \/ Reboot \/ Expire
    BY <2>5 DEF Change, Reboot, Expire, scan, DockerElsewhere
  <2> QED
    BY <2>1, <2>2, <2>3, <2>4, <2>5 DEF Next, Options, Engines
<1>2. IInv /\ MachineKnown /\ [Next]_vars => [Asked]_vars
  BY <1>1 DEF IInv
<1> QED
  BY <1>2, Invariance, MachineIsKnown, PTL DEF Spec, NothingUnasked
=============================================================================
