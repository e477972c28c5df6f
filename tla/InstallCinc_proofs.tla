------------------------- MODULE InstallCinc_proofs -------------------------
(***************************************************************************)
(* What an installation of CINC keeps, for any command, any target and any *)
(* number of releases and of replaced files: what is unpacked was shown    *)
(* and checked, and exit 0 means that the target has what was asked for.   *)
(***************************************************************************)
EXTENDS InstallCinc, WellFoundedInduction, TLAPS

----------------------------------------------------------------------------
(* The invariant.                                                          *)

Steps == {"start", "has", "offer", "ask", "install", "choose", "fetch", "transfer", "run",
          "verify", "sum", "ended"}

\* The projects come one after the other, each once; a scan has one.
Order ==
  /\ pc \in Steps
  /\ IsInjective(left)
  /\ pc = "sum" => left = <<>>
  /\ pc \notin {"sum", "ended"} => left # <<>>
  /\ failed + Len(left) <= Len(command.projects)
  /\ command.caller = "scan" =>
       left = command.projects /\ pc \notin {"has", "offer", "ask", "sum"}

\* No package is number 0, which is what was not published.
Published == latest # OtherDownload /\ \A i \in DOMAIN files : files[i] # OtherDownload

FromRelease == command.caller = "command" /\ ~Given

\* What is on its way is what was shown, and a package.
OnItsWay ==
  /\ pc \in {"ask", "install", "choose"} /\ command.caller = "command" => job.shown # OtherDownload
  /\ pc \in {"fetch", "transfer", "run"} /\ FromRelease => job.digest = job.shown
  /\ pc = "fetch" => job.digest # OtherDownload
  /\ pc = "transfer" /\ ~Given => job.package # OtherDownload
  /\ pc = "run" => job.package # OtherDownload

\* A project that was unpacked is behind, or at the head and about to be verified.
Behind ==
  /\ \A p \in declined : p \notin ToSet(left)
  /\ \A u \in unpacked : u.project \in ToSet(left) => u.project = Project /\ pc \in {"verify", "ended"}

\* Without a failure, what is not there any more to be done is there or declined.
Accounted ==
  failed = 0 /\ pc # "ended" =>
    ToSet(command.projects) \subseteq tools \union declined \union ToSet(left)

IInv ==
  /\ TypeOK /\ Order /\ Published /\ OnItsWay /\ Behind /\ Accounted
  /\ InstalledAsShown /\ ZeroMeansThere

----------------------------------------------------------------------------
(* Sequences and packages.                                                 *)

LEMMA HeadAndTail ==
  ASSUME NEW S, NEW s \in Seq(S), s # <<>>, IsInjective(s)
  PROVE  /\ Tail(s) \in Seq(S) /\ Len(Tail(s)) = Len(s) - 1 /\ Len(s) >= 1
         /\ Head(s) \in S /\ Head(s) \in ToSet(s) /\ Head(s) \notin ToSet(Tail(s))
         /\ IsInjective(Tail(s))
         /\ ToSet(s) = {Head(s)} \union ToSet(Tail(s))
<1>1. Len(s) \in Nat /\ Len(s) >= 1 /\ DOMAIN s = 1 .. Len(s) /\ Head(s) = s[1]
  OBVIOUS
<1>2. Tail(s) \in Seq(S) /\ Len(Tail(s)) = Len(s) - 1
  BY <1>1
<1>3. DOMAIN Tail(s) = 1 .. Len(s) - 1 /\ \A i \in 1 .. Len(s) - 1 : Tail(s)[i] = s[i + 1]
  BY <1>1, <1>2
<1>4. Head(s) \notin ToSet(Tail(s))
  BY <1>1, <1>3 DEF ToSet, IsInjective
<1>5. IsInjective(Tail(s))
  BY <1>1, <1>3 DEF IsInjective
<1>6. ToSet(s) = {Head(s)} \union ToSet(Tail(s))
  <2>1. ASSUME NEW i \in 1 .. Len(s) PROVE s[i] \in {Head(s)} \union ToSet(Tail(s))
    <3>1. CASE i = 1
      BY <1>1, <3>1
    <3>2. CASE i # 1
      <4>1. i - 1 \in 1 .. Len(s) - 1 /\ s[i] = Tail(s)[i - 1]
        BY <1>1, <1>3, <3>2
      <4> QED
        BY <1>3, <4>1 DEF ToSet
    <3> QED
      BY <3>1, <3>2
  <2>2. ASSUME NEW i \in 1 .. Len(s) - 1 PROVE Tail(s)[i] \in ToSet(s)
    <3>1. i + 1 \in 1 .. Len(s) /\ Tail(s)[i] = s[i + 1]
      BY <1>1, <1>3
    <3> QED
      BY <1>1, <3>1 DEF ToSet
  <2>3. Head(s) \in ToSet(s)
    BY <1>1 DEF ToSet
  <2> QED
    BY <1>1, <1>3, <2>1, <2>2, <2>3 DEF ToSet
<1>7. Head(s) \in S /\ Head(s) \in ToSet(s)
  BY <1>1 DEF ToSet
<1> QED
  BY <1>1, <1>2, <1>4, <1>5, <1>6, <1>7

LEMMA LengthAndDomain ==
  ASSUME NEW S, NEW s \in Seq(S)
  PROVE  Len(s) \in Nat /\ DOMAIN s = 1 .. Len(s)
  OBVIOUS

LEMMA LeastIsThere ==
  ASSUME NEW S \in SUBSET Nat, S # {}
  PROVE  Min(S) \in S
<1>1. PICK x \in S : \A y \in S : <<y, x>> \notin OpToRel(<, Nat)
  BY NatLessThanWellFounded, WFMin
<1>2. ASSUME NEW y \in S PROVE x <= y
  <2>1. ~(y < x)
    <3> SUFFICES ASSUME y < x PROVE FALSE
        OBVIOUS
    <3>1. <<y, x>> \in OpToRel(<, Nat)
      BY Zenon DEF OpToRel
    <3> QED
      BY <1>1, <3>1
  <2> QED
    BY <2>1
<1> QED
  BY <1>2 DEF Min

LEMMA UpTo == \A n \in Nat : 1 .. n \subseteq Nat
  OBVIOUS

\* A package that was given is one of those of the command.
LEMMA GivenIsThere ==
  ASSUME command.packages \in Seq([project : Projects \union {""}, type : {"deb", "rpm", ""}]),
         NEW p, PackageFor(p) # 0
  PROVE  PackageFor(p) \in DOMAIN command.packages
<1> DEFINE I == {i \in 1 .. Len(command.packages) : command.packages[i].project = p}
<1>1. PackageFor(p) = IF I # {} THEN Min(I) ELSE 0
  BY DEF PackageFor, SelectInSeq
<1>2. I \subseteq 1 .. Len(command.packages)
  OBVIOUS
<1>3. DOMAIN command.packages = 1 .. Len(command.packages) /\ Len(command.packages) \in Nat
  BY LengthAndDomain
<1> HIDE DEF I
<1>4. I \in SUBSET Nat
  BY <1>2, <1>3, UpTo, Zenon
<1> QED
  BY <1>1, <1>2, <1>3, <1>4, LeastIsThere

\* What the assumption says of the command at work.
LEMMA CommandKnown ==
  ASSUME command \in Commands
  PROVE  /\ command.caller \in {"command", "scan"}
         /\ command.projects \in Seq(Projects) /\ command.projects # <<>>
         /\ IsInjective(command.projects)
         /\ command.caller = "scan" => Len(command.projects) = 1
         /\ command.packages \in Seq([project : Projects \union {""}, type : {"deb", "rpm", ""}])
  BY InstallCincAssumption, Zenon

LEMMA PlatformKnown == Detected \subseteq Platforms
<1>1. Unknown \in Platforms
  BY DEF Unknown, Platforms
<1>2. Map(host.os) \in Platforms
  BY <1>1 DEF Map, Distribution, Platforms
<1> QED
  BY <1>1, <1>2 DEF Detected

LEMMA InitInductive == Init => IInv
<1> SUFFICES ASSUME Init PROVE IInv
    OBVIOUS
<1>1. /\ command.caller \in {"command", "scan"}
      /\ command.projects \in Seq(Projects) /\ command.projects # <<>>
      /\ IsInjective(command.projects)
      /\ command.packages \in Seq([project : Projects \union {""}, type : {"deb", "rpm", ""}])
  BY CommandKnown DEF Init
<1>2. MaxChanges \in Nat /\ host.tools \subseteq Projects
  <2>1. \A h \in Hosts : h.tools \subseteq Projects
    BY InstallCincAssumption, Zenon
  <2> QED
    BY <2>1, InstallCincAssumption DEF Init
<1>3. Len(command.projects) \in Nat
  BY <1>1, LengthAndDomain
<1>4. TypeOK
  <2>1. platform \in Platforms /\ job \in Jobs
    BY DEF Init, NoJob, Jobs, Platforms, Unknown, Damaged
  <2> QED
    <3>1. files \in [DOMAIN command.packages -> Nat] /\ latest \in Nat
      BY DEF Init
    <3>2. left \in Seq(Projects) /\ failed \in 0 .. Len(command.projects)
      <4>1. \A n \in Nat : 0 \in 0 .. n
        OBVIOUS
      <4> QED
        BY <1>1, <1>3, <4>1, Zenon DEF Init
    <3>3. command \in Commands /\ host \in Hosts /\ ctx \in {"live", "done"} /\ changes \in 0 .. MaxChanges
      BY <1>2 DEF Init
    <3>4. exit \in {NoExit} \union 0 .. 4 /\ tools \subseteq Projects /\ declined \subseteq Projects
      BY <1>2 DEF Init
    <3> QED
      BY <2>1, <3>1, <3>2, <3>3, <3>4 DEF TypeOK
<1>5. Order /\ Published
  <2>1. Order
    <3>1. pc = "start" /\ left = command.projects /\ failed = 0
      BY DEF Init
    <3>2. failed + Len(left) <= Len(command.projects)
      BY <1>3, <3>1
    <3> QED
      BY <1>1, <3>1, <3>2 DEF Order, Steps
  <2>2. Published
    BY DEF Init, Published, OtherDownload
  <2> QED
    BY <2>1, <2>2
<1>6. OnItsWay /\ Behind /\ Accounted /\ InstalledAsShown /\ ZeroMeansThere
  BY DEF Init, OnItsWay, Behind, Accounted, InstalledAsShown, ZeroMeansThere
<1> QED
  BY <1>4, <1>5, <1>6 DEF IInv

----------------------------------------------------------------------------
(* Steps within a project, to the next one, and ends.                      *)

\* The world stands still, and what is on the target is kept.
Still ==
  /\ UNCHANGED world
  /\ platform' \in Platforms /\ job' \in Jobs
  /\ tools \subseteq tools' /\ tools' \subseteq Projects

LEMMA GoesOn ==
  ASSUME IInv, Still,
         NEW next \in {"has", "offer", "ask", "install", "choose", "fetch", "transfer", "run", "verify"},
         Go(next), pc \notin {"sum", "ended"},
         command.caller = "scan" => next \notin {"has", "offer", "ask"},
         OnItsWay', Behind', InstalledAsShown'
  PROVE  IInv'
<1>1. /\ pc' = next /\ left' = left /\ failed' = failed /\ exit' = exit /\ declined' = declined
      /\ command' = command /\ host' = host /\ ctx' = ctx /\ latest' = latest /\ files' = files
      /\ changes' = changes
  BY DEF Go, outcome, Still, world
<1>2. TypeOK'
  BY <1>1 DEF IInv, TypeOK, Still
<1>3. Order' /\ Published'
  BY <1>1 DEF IInv, Order, Published, Steps
<1>4. Accounted'
  BY <1>1 DEF IInv, Accounted, Still
<1>5. ZeroMeansThere'
  BY <1>1 DEF ZeroMeansThere
<1> QED
  BY <1>2, <1>3, <1>4, <1>5 DEF IInv

LEMMA Ends ==
  ASSUME IInv, Still, NEW code \in 0 .. 4, End(code), InstalledAsShown',
         \A u \in unpacked' : u.project \in ToSet(left) => u.project = Project,
         code = 0 /\ ~command.print => ToSet(command.projects) \subseteq tools' \union declined
  PROVE  IInv'
<1>1. /\ pc' = "ended" /\ left' = left /\ failed' = failed /\ exit' = code /\ declined' = declined
      /\ command' = command /\ host' = host /\ ctx' = ctx /\ latest' = latest /\ files' = files
      /\ changes' = changes
  BY DEF End, Still, world
<1>2. TypeOK'
  BY <1>1 DEF IInv, TypeOK, Still
<1>3. Order' /\ Published' /\ OnItsWay'
  BY <1>1 DEF IInv, Order, Published, OnItsWay, Steps
<1>4. Behind'
  BY <1>1 DEF IInv, Behind, Project
<1>5. Accounted' /\ ZeroMeansThere'
  BY <1>1 DEF Accounted, ZeroMeansThere
<1> QED
  BY <1>2, <1>3, <1>4, <1>5 DEF IInv

LEMMA NextProject ==
  ASSUME IInv, Still, command.caller = "command", pc \notin {"sum", "ended"},
         NEW count, Continue(count), InstalledAsShown',
         declined \subseteq declined', declined' \subseteq declined \union {Project},
         \A u \in unpacked' : u.project \in ToSet(left) => u.project = Project,
         \/ count = failed /\ Project \in tools' \union declined'
         \/ count = failed + 1
  PROVE  IInv'
<1>1. /\ left' = Tail(left) /\ failed' = count /\ exit' = exit
      /\ pc' = IF Len(left) = 1 THEN "sum" ELSE "has"
      /\ command' = command /\ host' = host /\ ctx' = ctx /\ latest' = latest /\ files' = files
      /\ changes' = changes
  BY DEF Continue, Still, world
<1>2. left \in Seq(Projects) /\ left # <<>> /\ IsInjective(left)
  BY DEF IInv, TypeOK, Order
<1>3. /\ left' \in Seq(Projects) /\ Len(left') = Len(left) - 1 /\ Len(left) >= 1
      /\ Len(left) \in Nat /\ Project \in Projects /\ Project \notin ToSet(left')
      /\ IsInjective(left') /\ ToSet(left) = {Project} \union ToSet(left')
  BY <1>1, <1>2, HeadAndTail DEF Project
<1>4. failed \in Nat /\ count \in Nat /\ count <= failed + 1
      /\ failed + Len(left) <= Len(command.projects) /\ Len(command.projects) \in Nat
  <2>1. Len(command.projects) \in Nat
    BY CommandKnown, LengthAndDomain DEF IInv, TypeOK
  <2>2. failed \in Nat
    BY <2>1 DEF IInv, TypeOK
  <2> QED
    BY <2>1, <2>2 DEF IInv, Order
<1>5. failed' + Len(left') <= Len(command.projects) /\ count \in 0 .. Len(command.projects)
  BY <1>1, <1>3, <1>4
<1>6. Len(left) # 1 <=> left' # <<>>
  BY <1>3
<1>7. TypeOK'
  BY <1>1, <1>3, <1>5 DEF IInv, TypeOK, Still
<1>8. Order' /\ Published' /\ OnItsWay'
  BY <1>1, <1>3, <1>5, <1>6 DEF IInv, Order, Published, OnItsWay, Steps
<1>9. Behind'
  BY <1>3 DEF IInv, Behind
<1>10. Accounted'
  <2>1. CASE count = failed /\ Project \in tools' \union declined'
    BY <1>1, <1>3, <2>1 DEF IInv, Accounted, Still
  <2>2. CASE count = failed + 1
    BY <1>1, <1>4, <2>2 DEF Accounted
  <2> QED
    BY <2>1, <2>2
<1>11. ZeroMeansThere'
  BY <1>1 DEF ZeroMeansThere
<1> QED
  BY <1>7, <1>8, <1>9, <1>10, <1>11 DEF IInv

LEMMA FailKeeps ==
  ASSUME IInv, Still, Fail, pc \notin {"sum", "ended"}, InstalledAsShown',
         \A u \in unpacked' : u.project \in ToSet(left) => u.project = Project
  PROVE  IInv'
<1>1. command.caller \in {"command", "scan"}
  BY CommandKnown DEF IInv, TypeOK
<1>2. CASE command.caller = "scan"
  <2>1. End(4)
    BY <1>2 DEF Fail
  <2> QED
    BY <2>1, Ends
<1>3. CASE command.caller = "command"
  <2>1. Continue(failed + 1) /\ declined' = declined
    BY <1>3 DEF Fail
  <2> QED
    BY <1>3, <2>1, NextProject
<1> QED
  BY <1>1, <1>2, <1>3

LEMMA PackagesKept ==
  ASSUME command' = command
  PROVE  \A p : (PackageFor(p))' = PackageFor(p)
  BY DEF PackageFor, SelectInSeq

\* A step that leaves the target alone.
LEMMA TargetLeftAlone ==
  ASSUME IInv, UNCHANGED <<world, target>>, platform' \in Platforms, job' \in Jobs
  PROVE  /\ Still
         /\ declined' = declined => InstalledAsShown'
         /\ \A u \in unpacked' : u.project \in ToSet(left) => u.project = Project
         /\ outcome' = outcome /\ pc \notin {"verify", "ended"} => Behind'
<1>1. /\ command' = command /\ host' = host /\ tools' = tools /\ unpacked' = unpacked
  BY DEF world, target
<1>2. Still
  BY <1>1 DEF Still, IInv, TypeOK
<1>3. declined' = declined => InstalledAsShown'
  BY <1>1, PackagesKept DEF IInv, InstalledAsShown
<1>4. \A u \in unpacked' : u.project \in ToSet(left) => u.project = Project
  BY <1>1 DEF IInv, Behind
<1>5. outcome' = outcome /\ pc \notin {"verify", "ended"} => Behind'
  BY <1>1 DEF IInv, Behind, outcome
<1> QED
  BY <1>2, <1>3, <1>4, <1>5

LEMMA JobTyped == IInv => platform \in Platforms /\ job \in Jobs
  BY DEF IInv, TypeOK

----------------------------------------------------------------------------
(* The command.                                                            *)

LEMMA Begun == IInv /\ Begin => IInv'
<1> SUFFICES ASSUME IInv, Begin PROVE IInv'
    OBVIOUS
<1>1. /\ command.caller = "command" /\ pc = "start" /\ UNCHANGED <<world, job, target>>
      /\ platform' \in Platforms /\ job' \in Jobs
  BY JobTyped, PlatformKnown DEF Begin
<1>2. ASSUME NEW code \in 0 .. 4, End(code), code = 0 => command.print PROVE IInv'
  <2>1. declined' = declined
    BY <1>2 DEF End
  <2> QED
    BY <1>1, <1>2, <2>1, TargetLeftAlone, Ends
<1>3. CASE Go("has")
  <2>1. outcome' = outcome /\ pc' = "has" /\ declined' = declined
    BY <1>3 DEF Go, outcome
  <2>2. OnItsWay'
    BY <2>1 DEF OnItsWay
  <2> QED
    BY <1>1, <1>3, <2>1, <2>2, TargetLeftAlone, GoesOn
<1> DEFINE unlike == \E i \in DOMAIN command.packages : ~LooksLikeAPackage(command.packages[i])
<1>4. \/ End(2) \/ Go("has")
      \/ command.print /\ End(IF platform'.known THEN 0 ELSE 3)
  <2>1. CASE unlike
    BY <2>1, Zenon DEF Begin
  <2>2. CASE ~unlike /\ command.print
    BY <2>2, Zenon DEF Begin
  <2>3. CASE ~unlike /\ ~command.print
    BY <2>3, Zenon DEF Begin
  <2> QED
    BY <2>1, <2>2, <2>3
<1>5. CASE command.print /\ End(IF platform'.known THEN 0 ELSE 3)
  BY <1>2, <1>5
<1> QED
  BY <1>2, <1>3, <1>4, <1>5

LEMMA LookedFor == IInv /\ LookFor => IInv'
<1> SUFFICES ASSUME IInv, LookFor PROVE IInv'
    OBVIOUS
<1>1. /\ pc = "has" /\ UNCHANGED <<world, platform, job, target>>
      /\ platform' \in Platforms /\ job' \in Jobs
  BY JobTyped DEF LookFor
<1>2. command.caller = "command"
  BY <1>1, CommandKnown DEF IInv, TypeOK, Order
<1>3. PICK found \in BOOLEAN :
        Has(found) /\ IF found THEN Continue(failed) /\ UNCHANGED declined ELSE Go("offer")
  BY Zenon DEF LookFor
<1>4. CASE found
  <2>1. Continue(failed) /\ declined' = declined
    BY <1>3, <1>4, Zenon
  <2>2. Project \in tools'
    BY <1>1, <1>3, <1>4 DEF Has, target
  <2> QED
    BY <1>1, <1>2, <2>1, <2>2, TargetLeftAlone, NextProject
<1>5. CASE ~found
  <2>1. Go("offer")
    BY <1>3, <1>5, Zenon
  <2>2. outcome' = outcome /\ declined' = declined /\ pc' = "offer"
    BY <2>1 DEF Go, outcome
  <2>3. OnItsWay'
    BY <2>2 DEF OnItsWay
  <2> QED
    BY <1>1, <1>2, <2>1, <2>2, <2>3, TargetLeftAlone, GoesOn
<1> QED
  BY <1>4, <1>5

LEMMA FileOrRelease ==
  ASSUME IInv
  PROVE  /\ latest \in Nat /\ latest # OtherDownload
         /\ Given => /\ files[PackageFor(Project)] \in Nat
                     /\ files[PackageFor(Project)] # OtherDownload
                     /\ PackageFor(Project) \in DOMAIN command.packages
                     /\ command.packages[PackageFor(Project)].type \in {"deb", "rpm", ""}
<1>1. latest \in Nat /\ latest # OtherDownload
  BY DEF IInv, TypeOK, Published
<1>2. ASSUME Given PROVE PackageFor(Project) \in DOMAIN command.packages
  BY <1>2, GivenIsThere, CommandKnown DEF Given, IInv, TypeOK
<1>3. \A i \in DOMAIN command.packages :
        /\ files[i] \in Nat /\ files[i] # OtherDownload
        /\ command.packages[i].type \in {"deb", "rpm", ""}
  <2> DEFINE P == [project : Projects \union {""}, type : {"deb", "rpm", ""}]
  <2>1. command.packages \in Seq(P)
    BY CommandKnown DEF IInv, TypeOK
  <2>2. \A p \in P : p.type \in {"deb", "rpm", ""}
    OBVIOUS
  <2> HIDE DEF P
  <2>3. \A i \in DOMAIN command.packages : command.packages[i] \in P
    BY <2>1
  <2> QED
    BY <2>2, <2>3 DEF IInv, TypeOK, Published
<1> QED
  BY <1>1, <1>2, <1>3

LEMMA GivenKept ==
  ASSUME UNCHANGED world, left' = left
  PROVE  Project' = Project /\ Given' = Given /\ FromRelease' = FromRelease
<1>1. command' = command /\ Project' = Project
  BY DEF world, Project
<1>2. Given' = Given
  BY <1>1, PackagesKept DEF Given
<1> QED
  BY <1>1, <1>2 DEF FromRelease

LEMMA StepWithin ==
  ASSUME IInv, UNCHANGED <<world, target>>, platform' \in Platforms, job' \in Jobs,
         NEW next \in {"has", "offer", "ask", "install", "choose", "fetch", "transfer", "run", "verify"},
         Go(next), pc \notin {"sum", "ended", "verify"},
         command.caller = "scan" => next \notin {"has", "offer", "ask"},
         OnItsWay'
  PROVE  IInv'
<1>1. outcome' = outcome /\ declined' = declined
  BY DEF Go, outcome
<1> QED
  BY <1>1, TargetLeftAlone, GoesOn

LEMMA StepEnds ==
  ASSUME IInv, UNCHANGED <<world, target>>, platform' \in Platforms, job' \in Jobs,
         NEW code \in 0 .. 4, End(code),
         code = 0 /\ ~command.print => ToSet(command.projects) \subseteq tools \union declined
  PROVE  IInv'
<1>1. declined' = declined
  BY DEF End
<1>2. tools' = tools
  BY DEF target
<1> QED
  BY <1>1, <1>2, TargetLeftAlone, Ends

LEMMA Offered == IInv /\ Offer => IInv'
<1> SUFFICES ASSUME IInv, Offer PROVE IInv'
    OBVIOUS
<1>1. pc = "offer" /\ UNCHANGED <<world, platform, target>> /\ platform' \in Platforms
  BY JobTyped DEF Offer
<1>2. command.caller = "command"
  BY <1>1, CommandKnown DEF IInv, TypeOK, Order
<1>3. ASSUME NEW d \in Nat, d # OtherDownload, Show(d) PROVE IInv'
  <2>1. job' = [job EXCEPT !.shown = d] /\ Go("ask")
    BY <1>3 DEF Show
  <2>2. job' \in Jobs /\ job'.shown = d
    BY <2>1, JobTyped DEF Jobs
  <2>3. OnItsWay'
    BY <1>3, <2>1, <2>2 DEF OnItsWay, Go
  <2> QED
    BY <1>1, <1>2, <2>1, <2>2, <2>3, StepWithin
<1>4. ASSUME NEW code \in {2, 3}, Leave(code) PROVE IInv'
  BY <1>1, <1>4, JobTyped, StepEnds DEF Leave
<1>5. CASE Given
  <2>1. Show(files[PackageFor(Project)]) \/ Leave(2)
    BY <1>5, Zenon DEF Offer
  <2> QED
    BY <1>3, <1>4, <1>5, <2>1, FileOrRelease
<1>6. CASE ~Given /\ platform.known
  <2>1. Show(latest) \/ Leave(3)
    BY <1>6, Zenon DEF Offer
  <2> QED
    BY <1>3, <1>4, <2>1, FileOrRelease
<1>7. CASE ~Given /\ ~platform.known
  <2>1. Leave(3)
    BY <1>7, Zenon DEF Offer
  <2> QED
    BY <1>4, <2>1
<1> QED
  BY <1>5, <1>6, <1>7

LEMMA Asked == IInv /\ Ask => IInv'
<1> SUFFICES ASSUME IInv, Ask PROVE IInv'
    OBVIOUS
<1>1. /\ pc = "ask" /\ UNCHANGED <<world, platform, job, target>>
      /\ platform' \in Platforms /\ job' \in Jobs
  BY JobTyped DEF Ask
<1>2. command.caller = "command"
  BY <1>1, CommandKnown DEF IInv, TypeOK, Order
<1>3. CASE Go("install")
  <2>1. OnItsWay'
    BY <1>1, <1>2, <1>3 DEF Go, OnItsWay, IInv
  <2> QED
    BY <1>1, <1>3, <2>1, StepWithin
<1>4. CASE declined' = declined \union {Project} /\ Continue(failed)
  <2>1. InstalledAsShown'
    <3>1. command' = command /\ host' = host /\ unpacked' = unpacked
      BY <1>1 DEF world, target
    <3>2. \A u \in unpacked : u.project # Project
      <4>1. Project \in ToSet(left)
        BY <1>1, HeadAndTail DEF IInv, TypeOK, Order, Project
      <4> QED
        BY <1>1, <4>1 DEF IInv, Behind
    <3> QED
      BY <1>4, <3>1, <3>2, PackagesKept DEF IInv, InstalledAsShown
  <2> QED
    BY <1>1, <1>2, <1>4, <2>1, TargetLeftAlone, NextProject
<1>5. CASE End(2)
  BY <1>1, <1>5, StepEnds
<1> QED
  BY <1>3, <1>4, <1>5 DEF Ask

LEMMA Summed == IInv /\ Sum => IInv'
<1> SUFFICES ASSUME IInv, Sum PROVE IInv'
    OBVIOUS
<1>1. /\ pc = "sum" /\ UNCHANGED <<world, platform, job, target>>
      /\ platform' \in Platforms /\ job' \in Jobs /\ End(IF failed > 0 THEN 3 ELSE 0)
  BY JobTyped DEF Sum
<1>2. failed \in Nat
  <2>1. Len(command.projects) \in Nat
    BY CommandKnown, LengthAndDomain DEF IInv, TypeOK
  <2> QED
    BY <2>1 DEF IInv, TypeOK
<1>3. CASE failed > 0
  BY <1>1, <1>3, StepEnds
<1>4. CASE failed = 0
  <2>1. ToSet(command.projects) \subseteq tools \union declined
    <3>1. left = <<>> /\ ToSet(left) = {}
      BY <1>1 DEF IInv, Order, ToSet
    <3> QED
      BY <1>1, <1>4, <3>1 DEF IInv, Accounted
  <2>2. End(0)
    BY <1>1, <1>4
  <2> QED
    BY <1>1, <2>1, <2>2, StepEnds
<1> QED
  BY <1>2, <1>3, <1>4

\* A scan installs one project.
LEMMA OneProject ==
  ASSUME IInv, command.caller = "scan"
  PROVE  ToSet(command.projects) = {Project}
<1>1. command.projects \in Seq(Projects) /\ Len(command.projects) = 1 /\ left = command.projects
  BY CommandKnown DEF IInv, TypeOK, Order
<1>2. DOMAIN left = {1} /\ Head(left) = left[1]
  BY <1>1
<1> QED
  BY <1>1, <1>2 DEF ToSet, Project

LEMMA Bootstrapped == IInv /\ Bootstrap => IInv'
<1> SUFFICES ASSUME IInv, Bootstrap PROVE IInv'
    OBVIOUS
<1>1. /\ pc = "start" /\ UNCHANGED <<world, platform, job, target>> /\ command.caller = "scan"
      /\ platform' \in Platforms /\ job' \in Jobs
  BY JobTyped DEF Bootstrap
<1>2. CASE End(3)
  BY <1>1, <1>2, StepEnds
<1>3. CASE Go("install")
  <2>1. OnItsWay'
    <3>1. pc' = "install" /\ command' = command
      BY <1>1, <1>3 DEF Go, world
    <3> QED
      BY <1>1, <3>1 DEF OnItsWay
  <2> QED
    BY <1>1, <1>3, <2>1, StepWithin
<1>4. CASE End(0) /\ Has(TRUE)
  <2>1. ToSet(command.projects) \subseteq tools \union declined
    BY <1>1, <1>4, OneProject DEF Has
  <2> QED
    BY <1>1, <1>4, <2>1, StepEnds
<1>5. End(3) \/ Go("install") \/ (End(0) /\ Has(TRUE))
  <2>1. CASE End(3)
    BY <2>1
  <2>2. ASSUME NEW found \in BOOLEAN, Has(found),
               CASE found -> End(0)
                 [] ~found /\ ~command.bootstrap /\ ~Given -> End(3)
                 [] OTHER -> Go("install")
        PROVE  End(3) \/ Go("install") \/ (End(0) /\ Has(TRUE))
    <3>1. CASE found
      <4>1. found = TRUE
        BY <3>1
      <4> QED
        BY <2>2, <3>1, <4>1, Zenon
    <3>2. CASE ~found /\ ~command.bootstrap /\ ~Given
      BY <2>2, <3>2, Zenon
    <3>3. CASE ~found /\ (command.bootstrap \/ Given)
      BY <2>2, <3>3, Zenon
    <3> QED
      BY <3>1, <3>2, <3>3
  <2> QED
    BY <2>1, <2>2, Zenon DEF Bootstrap
<1> QED
  BY <1>2, <1>3, <1>4, <1>5

----------------------------------------------------------------------------
(* Install.                                                                *)

LEMMA Allowed == IInv /\ CanInstall => IInv'
<1> SUFFICES ASSUME IInv, CanInstall PROVE IInv'
    OBVIOUS
<1>1. PICK p \in Detected : job' = [job EXCEPT !.platform = p]
  BY DEF CanInstall
<1>2. /\ pc = "install" /\ Go("choose") /\ UNCHANGED <<world, platform, target>>
      /\ platform' \in Platforms
  BY JobTyped DEF CanInstall
<1>3. job' \in Jobs /\ job'.shown = job.shown
  BY <1>1, JobTyped, PlatformKnown DEF Jobs
<1>4. OnItsWay'
  <2>1. pc' = "choose" /\ command' = command
    BY <1>2 DEF Go, world
  <2> QED
    BY <1>2, <1>3, <2>1 DEF IInv, OnItsWay
<1> QED
  BY <1>2, <1>3, <1>4, StepWithin

LEMMA FileChosen == IInv /\ ChooseFile => IInv'
<1> SUFFICES ASSUME IInv, ChooseFile PROVE IInv'
    OBVIOUS
<1> DEFINE i    == PackageFor(Project)
           type == command.packages[i].type
<1>1. /\ pc = "choose" /\ Given /\ Go("transfer") /\ UNCHANGED <<world, platform, target>>
      /\ job' = [job EXCEPT !.digest = files[i], !.platform.pkg = type]
      /\ platform' \in Platforms
  BY JobTyped DEF ChooseFile
<1>2. files[i] \in Nat /\ type \in {"deb", "rpm", ""}
  BY <1>1, FileOrRelease
<1>3. job' \in Jobs
  <2> HIDE DEF i, type
  <2> QED
    BY <1>1, <1>2, JobTyped DEF Jobs, Platforms
<1>4. OnItsWay'
  <2>1. pc' = "transfer" /\ Given'
    BY <1>1, GivenKept DEF Go, outcome
  <2> QED
    BY <2>1 DEF OnItsWay, FromRelease
<1> QED
  BY <1>1, <1>3, <1>4, StepWithin

LEMMA ReleaseChosen == IInv /\ ChooseRelease => IInv'
<1> SUFFICES ASSUME IInv, ChooseRelease PROVE IInv'
    OBVIOUS
<1>1. /\ pc = "choose" /\ Go("fetch") /\ UNCHANGED <<world, platform, target>>
      /\ platform' \in Platforms
  BY JobTyped DEF ChooseRelease
<1>2. PICK d \in {job.shown, latest} :
        /\ job' = [job EXCEPT !.digest = d]
        /\ command.caller = "command" => d = job.shown
        /\ command.caller # "command" => d = latest
  <2>1. CASE command.caller = "command"
    BY <2>1 DEF ChooseRelease
  <2>2. CASE command.caller # "command"
    BY <2>2 DEF ChooseRelease
  <2> QED
    BY <2>1, <2>2
<1>3. d \in Nat /\ d # OtherDownload
  BY <1>1, <1>2, JobTyped, FileOrRelease DEF IInv, OnItsWay, Jobs
<1>4. job' \in Jobs /\ job'.digest = d /\ job'.shown = job.shown
  BY <1>2, <1>3, JobTyped DEF Jobs
<1>5. OnItsWay'
  <2>1. pc' = "fetch" /\ FromRelease' = FromRelease
    BY <1>1, GivenKept DEF Go, outcome
  <2> QED
    BY <1>2, <1>3, <1>4, <2>1 DEF OnItsWay, FromRelease
<1> QED
  BY <1>1, <1>4, <1>5, StepWithin

LEMMA Fetched == IInv /\ Fetch => IInv'
<1> SUFFICES ASSUME IInv, Fetch PROVE IInv'
    OBVIOUS
<1>1. /\ pc = "fetch" /\ Go("transfer") /\ UNCHANGED <<world, platform, target>>
      /\ job' = [job EXCEPT !.package = job.digest] /\ platform' \in Platforms
  BY JobTyped DEF Fetch
<1>2. job' \in Jobs /\ job'.package = job.digest /\ job'.shown = job.shown /\ job'.digest = job.digest
  BY <1>1, JobTyped DEF Jobs
<1>3. OnItsWay'
  <2>1. pc' = "transfer" /\ FromRelease' = FromRelease
    BY <1>1, GivenKept DEF Go, outcome
  <2> QED
    BY <1>1, <1>2, <2>1 DEF IInv, OnItsWay
<1> QED
  BY <1>1, <1>2, <1>3, StepWithin

LEMMA Transferred == IInv /\ Transfer => IInv'
<1> SUFFICES ASSUME IInv, Transfer PROVE IInv'
    OBVIOUS
<1>1. PICK p \in {Damaged, IF Given THEN files[PackageFor(Project)] ELSE job.package} :
        job' = [job EXCEPT !.package = p]
  BY DEF Transfer
<1>2. /\ pc = "transfer" /\ Go("run") /\ UNCHANGED <<world, platform, target>>
      /\ platform' \in Platforms
  BY JobTyped DEF Transfer
<1>3. p \in Nat \union {Damaged} /\ p # OtherDownload
  <2>1. CASE p = Damaged
    BY <2>1 DEF Damaged, OtherDownload
  <2>2. CASE Given /\ p = files[PackageFor(Project)]
    BY <2>2, FileOrRelease
  <2>3. CASE ~Given /\ p = job.package
    BY <1>2, <2>3, JobTyped DEF IInv, OnItsWay, Jobs
  <2> QED
    BY <1>1, <2>1, <2>2, <2>3
<1>4. job' \in Jobs /\ job'.package = p /\ job'.shown = job.shown /\ job'.digest = job.digest
  BY <1>1, <1>3, JobTyped DEF Jobs
<1>5. OnItsWay'
  <2>1. pc' = "run" /\ FromRelease' = FromRelease
    BY <1>2, GivenKept DEF Go, outcome
  <2> QED
    BY <1>2, <1>3, <1>4, <2>1 DEF IInv, OnItsWay
<1> QED
  BY <1>2, <1>4, <1>5, StepWithin

LEMMA Unpacked == IInv /\ Run => IInv'
<1> SUFFICES ASSUME IInv, Run PROVE IInv'
    OBVIOUS
<1> DEFINE new == [project |-> Project, package |-> job.package, digest |-> job.digest, shown |-> job.shown]
<1>1. /\ pc = "run" /\ UNCHANGED <<world, platform, job>> /\ platform' \in Platforms /\ job' \in Jobs
      /\ tools' \in {tools, tools \union {Project}} /\ unpacked' = unpacked \union {new}
      /\ host.sums => job.package = job.digest
  BY JobTyped DEF Run
<1>2. command' = command /\ host' = host /\ tools \subseteq tools'
  BY <1>1 DEF world
<1>3. Project \in Projects /\ Project \in ToSet(left)
  BY <1>1, HeadAndTail DEF IInv, TypeOK, Order, Project
<1>4. Still
  BY <1>1, <1>3 DEF Still, IInv, TypeOK
<1>5. declined' = declined => InstalledAsShown'
  <2>1. Project \notin declined
    BY <1>3 DEF IInv, Behind
  <2>2. job.package # OtherDownload
    BY <1>1 DEF IInv, OnItsWay
  <2>3. command.caller = "command" /\ PackageFor(Project) = 0 => job.digest = job.shown
    BY <1>1 DEF IInv, OnItsWay, FromRelease, Given
  <2> QED
    BY <1>1, <1>2, <2>1, <2>2, <2>3, PackagesKept DEF IInv, InstalledAsShown
<1>6. \A u \in unpacked' : u.project \in ToSet(left) => u.project = Project
  BY <1>1 DEF IInv, Behind
<1>7. CASE Go("verify")
  <2>1. pc' = "verify" /\ declined' = declined /\ left' = left
    BY <1>7 DEF Go, outcome
  <2>2. OnItsWay'
    BY <2>1 DEF OnItsWay
  <2>3. Behind'
    BY <1>6, <2>1 DEF IInv, Behind, Project
  <2> QED
    BY <1>1, <1>4, <1>5, <1>7, <2>1, <2>2, <2>3, GoesOn
<1>8. CASE Fail
  <2>1. declined' = declined
    BY <1>8 DEF Fail, End
  <2> QED
    BY <1>1, <1>4, <1>5, <1>6, <1>8, <2>1, FailKeeps
<1> QED
  BY <1>7, <1>8 DEF Run

LEMMA Verified == IInv /\ Verify => IInv'
<1> SUFFICES ASSUME IInv, Verify PROVE IInv'
    OBVIOUS
<1>1. /\ pc = "verify" /\ Project \in tools /\ UNCHANGED <<world, platform, job, target>>
      /\ platform' \in Platforms /\ job' \in Jobs
      /\ IF command.caller = "scan" THEN End(0) ELSE Continue(failed) /\ UNCHANGED declined
  BY JobTyped DEF Verify
<1>2. CASE command.caller = "scan"
  <2>1. End(0)
    BY <1>1, <1>2
  <2>2. ToSet(command.projects) \subseteq tools \union declined
    BY <1>1, <1>2, OneProject
  <2> QED
    BY <1>1, <2>1, <2>2, StepEnds
<1>3. CASE command.caller = "command"
  <2>1. Continue(failed) /\ declined' = declined
    BY <1>1, <1>3
  <2>2. tools' = tools
    BY <1>1 DEF target
  <2> QED
    BY <1>1, <1>3, <2>1, <2>2, TargetLeftAlone, NextProject
<1>4. command.caller \in {"command", "scan"}
  BY CommandKnown DEF IInv, TypeOK
<1> QED
  BY <1>2, <1>3, <1>4

LEMMA FailedOrUnreached == IInv /\ (StepFails \/ Unreached) => IInv'
<1> SUFFICES ASSUME IInv, StepFails \/ Unreached PROVE IInv'
    OBVIOUS
<1>1. /\ pc \notin {"sum", "ended"} /\ UNCHANGED <<world, platform, job, target>>
      /\ platform' \in Platforms /\ job' \in Jobs
  BY JobTyped DEF StepFails, Fails, Unreached
<1>2. CASE Fail
  <2>1. declined' = declined
    BY <1>2 DEF Fail, End
  <2> QED
    BY <1>1, <1>2, <2>1, TargetLeftAlone, FailKeeps
<1>3. CASE End(3)
  BY <1>1, <1>3, StepEnds
<1> QED
  BY <1>2, <1>3 DEF StepFails, Fails, Unreached

----------------------------------------------------------------------------
(* The world, and the theorems.                                            *)

LEMMA WorldKeeps == IInv /\ (Expire \/ Publish \/ Replace \/ UNCHANGED vars) => IInv'
<1> SUFFICES ASSUME IInv, Expire \/ Publish \/ Replace \/ UNCHANGED vars PROVE IInv'
    OBVIOUS
<1>1. /\ command' = command /\ host' = host
      /\ pc' = pc /\ platform' = platform /\ job' = job /\ left' = left /\ failed' = failed
      /\ exit' = exit /\ declined' = declined /\ tools' = tools /\ unpacked' = unpacked
  BY DEF Expire, Publish, Replace, vars, mine, world, outcome, target
<1>2. /\ latest \in Nat /\ latest # OtherDownload /\ ctx \in {"live", "done"}
      /\ files \in [DOMAIN command.packages -> Nat] /\ changes \in 0 .. MaxChanges
      /\ \A i \in DOMAIN files : files[i] # OtherDownload
  BY DEF IInv, TypeOK, Published
<1>3. /\ latest' \in Nat /\ latest' # OtherDownload /\ ctx' \in {"live", "done"}
      /\ files' \in [DOMAIN command.packages -> Nat] /\ changes' \in 0 .. MaxChanges
      /\ \A i \in DOMAIN files' : files'[i] # OtherDownload
  <2>1. MaxChanges \in Nat
    BY InstallCincAssumption, Zenon
  <2>2. CASE Expire
    BY <1>2, <2>2 DEF Expire
  <2>3. CASE Publish
    BY <1>2, <2>1, <2>3 DEF Publish, OtherDownload
  <2>4. CASE Replace
    BY <1>2, <2>1, <2>4 DEF Replace, OtherDownload
  <2>5. CASE UNCHANGED vars
    BY <1>2, <2>5 DEF vars, world
  <2> QED
    BY <2>2, <2>3, <2>4, <2>5
<1>4. Project' = Project /\ Given' = Given /\ FromRelease' = FromRelease
  BY <1>1, PackagesKept DEF Project, Given, FromRelease
<1>5. TypeOK' /\ Published'
  BY <1>1, <1>3 DEF IInv, TypeOK, Published
<1>6. Order' /\ OnItsWay' /\ Behind' /\ Accounted'
  BY <1>1, <1>4 DEF IInv, Order, OnItsWay, Behind, Accounted
<1>7. InstalledAsShown' /\ ZeroMeansThere'
  BY <1>1, PackagesKept DEF IInv, InstalledAsShown, ZeroMeansThere
<1> QED
  BY <1>5, <1>6, <1>7 DEF IInv

LEMMA StepInductive == IInv /\ [Next]_vars => IInv'
  BY Begun, LookedFor, Offered, Asked, Summed, Bootstrapped, Allowed, FileChosen, ReleaseChosen,
     Fetched, Transferred, Unpacked, Verified, FailedOrUnreached, WorldKeeps DEF Next

THEOREM Invariance == Spec => []IInv
  BY InitInductive, StepInductive, PTL DEF Spec

\* The state of an installation has its type, for any commands and targets.
THEOREM TypeCorrect == Spec => []TypeOK
<1>1. IInv => TypeOK
  BY DEF IInv
<1> QED
  BY <1>1, Invariance, PTL

\* What is unpacked on a target was not declined, is no other download, and is the
\* release that the command showed before it asked (installCINC, Install, Fetch).
THEOREM ShownIsInstalled == Spec => []InstalledAsShown
<1>1. IInv => InstalledAsShown
  BY DEF IInv
<1> QED
  BY <1>1, Invariance, PTL

\* Exit 0 means that the target has every project that was not declined, for any
\* order of projects, failures and answers (installCINC, Bootstrap).
THEOREM ZeroIsTrue == Spec => []ZeroMeansThere
<1>1. IInv => ZeroMeansThere
  BY DEF IInv
<1> QED
  BY <1>1, Invariance, PTL
=============================================================================
