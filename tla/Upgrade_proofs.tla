---------------------------- MODULE Upgrade_proofs --------------------------
(***************************************************************************)
(* The binary at its path can always be run, only verified files take its  *)
(* place, and every upgrade keeps the promise of InstalledBinary: for any  *)
(* number of upgrades at once, any versions and any flags.                 *)
(***************************************************************************)
EXTENDS Upgrade, WellFoundedInduction, TLAPS

\* The steps after which a file was fetched, the ones of the binary, those of a
\* package, and the ones that come after the check of the signature.
Fetched    == {"bundle", "verify", "package", "unpacked", "try", "create", "copy",
               "chmod", "rename", "check"}
ByRename   == {"writable", "try", "create", "copy", "chmod", "rename"}
ByPackage  == {"package", "unpacked"}
Verified   == {"package", "try", "create", "copy", "chmod", "rename"}
Early      == {"idle", "release", "writable", "confirm", "mktemp"}

\* What holds of one upgrade at every step.
Kept(u) ==
  /\ at[u] = "ended" <=> result[u] # "none"
  /\ at[u] \in Early => dir[u] = "none"
  /\ at[u] = "ended" /\ result[u] # "killed" => temp[u] = "none" /\ dir[u] # "there"
  /\ at[u] \notin {"writable", "copy", "chmod", "rename", "ended"} => temp[u] = "none"
  /\ at[u] = "writable" => temp[u] \in {"none", "test"}
  /\ at[u] = "rename" => temp[u] = "runnable"
  /\ at[u] \in Fetched => got[u].file = got[u].sums /\ got[u].file \in States
  /\ at[u] \in {"create", "copy", "chmod", "rename"} => got[u].file = "whole"
  /\ at[u] \in ByRename => ~Packaged
  /\ at[u] \in ByPackage => Packaged
  /\ at[u] \in Verified /\ Plan(u).strict => got[u].tool # "none"

IInv == TypeOK /\ BinaryAlwaysRuns /\ \A u \in Upgrades : Kept(u)

LEMMA InitInductive == Init => IInv
<1> SUFFICES ASSUME Init PROVE IInv
    OBVIOUS
<1>1. TypeOK
  BY UpgradeAssumption DEF Init, TypeOK, Steps, Results, Nothing, Downloads, States
<1>2. BinaryAlwaysRuns
  BY DEF Init, BinaryAlwaysRuns
<1>3. ASSUME NEW u \in Upgrades PROVE Kept(u)
  BY DEF Init, Kept, Early, Fetched, ByRename, ByPackage, Verified
<1> QED
  BY <1>1, <1>2, <1>3 DEF IInv

\* A step of an upgrade u leaves the others where they are.
Others(u) ==
  \A w \in Upgrades \ {u} :
    /\ at'[w] = at[w] /\ result'[w] = result[w] /\ dir'[w] = dir[w]
    /\ temp'[w] = temp[w] /\ got'[w] = got[w]

\* Leaving with an exit code.
LEMMA Leaves ==
  ASSUME TypeOK, NEW u \in Upgrades, NEW from \in Steps, NEW code \in Results,
         Return(u, from, code)
  PROVE  /\ at' \in [Upgrades -> Steps] /\ at'[u] = "ended"
         /\ result' \in [Upgrades -> Results] /\ result'[u] = code
         /\ dir' \in [Upgrades -> {"none", "there", "gone"}] /\ dir'[u] # "there"
         /\ got'[u] = Nothing
         /\ got' \in [Upgrades -> Downloads]
         /\ \A w \in Upgrades \ {u} :
              at'[w] = at[w] /\ result'[w] = result[w] /\ dir'[w] = dir[w] /\ got'[w] = got[w]
         /\ UNCHANGED <<session, exe, ctx, cur, release>>
<1>1. Nothing \in Downloads
  BY DEF Nothing, Downloads
<1> QED
  BY <1>1 DEF Return, TypeOK, Steps


\* What a step of u must show.
Preserves(u) == TypeOK' /\ BinaryAlwaysRuns' /\ Kept(u)' /\ Others(u)

\* Leaving, with nothing left next to the binary.
LEMMA LeavingPreserves ==
  ASSUME IInv, NEW u \in Upgrades, NEW from \in Steps,
         NEW code \in Results \ {"none"}, Return(u, from, code),
         temp' = [temp EXCEPT ![u] = "none"]
  PROVE  Preserves(u)
<1>1. TypeOK' /\ Others(u)
  BY Leaves DEF IInv, TypeOK, Others
<1>2. Kept(u)'
  BY Leaves DEF IInv, TypeOK, Kept, Fetched, ByRename, ByPackage, Verified, Early
<1> QED
  BY <1>1, <1>2, Leaves DEF IInv, Preserves, BinaryAlwaysRuns

\* The same where there is nothing to begin with.
LEMMA LeavingEarly ==
  ASSUME IInv, NEW u \in Upgrades, NEW from \in Steps,
         NEW code \in Results \ {"none"}, Return(u, from, code),
         temp[u] = "none", UNCHANGED temp
  PROVE  Preserves(u)
<1>1. temp' = [temp EXCEPT ![u] = "none"]
  BY DEF IInv, TypeOK
<1> QED
  BY <1>1, LeavingPreserves

\* A download or a check adds to what is there.
LEMMA DownloadsGrow ==
  ASSUME NEW g \in Downloads, NEW s \in States, NEW tool \in {"none", "cosign", "gh"}
  PROVE  /\ [g EXCEPT !.sums = s] \in Downloads /\ [g EXCEPT !.file = s] \in Downloads
         /\ [g EXCEPT !.bundle = TRUE] \in Downloads
         /\ [g EXCEPT !.tool = tool] \in Downloads
  BY DEF Downloads

LEMMA BeginPreserves == ASSUME IInv, NEW u \in Upgrades, Begin(u) PROVE Preserves(u)
<1>1. TypeOK'
  BY DEF Begin, Advance, Runs, IInv, TypeOK, Steps, Results
<1>2. BinaryAlwaysRuns'
  BY DEF Begin, Advance, Runs, IInv, BinaryAlwaysRuns, Kept, Fetched, States, ByRename, ByPackage, Packaged, Packages
<1>3. Kept(u)'
  BY DEF Begin, Advance, Runs, IInv, TypeOK, Kept, Fetched, ByRename, ByPackage, Verified, Early, Packaged, Plan
<1>4. Others(u)
  BY DEF Begin, Advance, Runs, IInv, TypeOK, Others
<1> QED
  BY <1>1, <1>2, <1>3, <1>4 DEF Preserves

LEMMA ExpirePreserves == ASSUME IInv, NEW u \in Upgrades, Expire(u) PROVE Preserves(u)
<1>1. TypeOK'
  BY DEF Expire, IInv, TypeOK, Steps, Results
<1>2. BinaryAlwaysRuns'
  BY DEF Expire, IInv, BinaryAlwaysRuns, Kept, Fetched, States, ByRename, ByPackage, Packaged, Packages
<1>3. Kept(u)'
  BY DEF Expire, IInv, TypeOK, Kept, Fetched, ByRename, ByPackage, Verified, Early, Packaged, Plan
<1>4. Others(u)
  BY DEF Expire, IInv, TypeOK, Others
<1> QED
  BY <1>1, <1>2, <1>3, <1>4 DEF Preserves

LEMMA KillPreserves == ASSUME IInv, NEW u \in Upgrades, Kill(u) PROVE Preserves(u)
<1>1. TypeOK'
  BY DEF Kill, IInv, TypeOK, Steps, Results, Nothing, Downloads
<1>2. BinaryAlwaysRuns'
  BY DEF Kill, IInv, BinaryAlwaysRuns, Kept, Fetched, States, ByRename, ByPackage, Packaged, Packages, Nothing, Downloads
<1>3. Kept(u)'
  BY DEF Kill, IInv, TypeOK, Kept, Fetched, ByRename, ByPackage, Verified, Early, Packaged, Plan, Nothing, Downloads
<1>4. Others(u)
  BY DEF Kill, IInv, TypeOK, Others
<1> QED
  BY <1>1, <1>2, <1>3, <1>4 DEF Preserves

LEMMA FindPreserves == ASSUME IInv, NEW u \in Upgrades, Find(u) PROVE Preserves(u)
<1>1. CASE /\ Advance(u, "release", IF Packaged THEN "confirm" ELSE "writable")
          /\ release' = [release EXCEPT ![u] = Chosen(u)]
          /\ UNCHANGED <<exe, cur, got, dir, temp>>
  <2>1. TypeOK'
    BY <1>1, UpgradeAssumption DEF Advance, IInv, TypeOK, Steps, Results, Chosen, Plans, Plan
  <2>2. BinaryAlwaysRuns'
    BY <1>1 DEF Advance, IInv, BinaryAlwaysRuns, Kept, Fetched, States, ByRename, ByPackage, Packaged, Packages, Chosen, Plans
  <2>3. Kept(u)'
    BY <1>1 DEF Advance, IInv, TypeOK, Kept, Fetched, ByRename, ByPackage, Verified, Early, Packaged, Plan, Chosen, Plans
  <2>4. Others(u)
    BY <1>1 DEF Advance, IInv, TypeOK, Others
  <2> QED
    BY <2>1, <2>2, <2>3, <2>4 DEF Preserves
<1>2. ASSUME NEW code \in Results \ {"none"}, UNCHANGED temp,
            Return(u, "release", code)
     PROVE  Preserves(u)
  <2>1. temp[u] = "none"
    BY <1>2 DEF Return, IInv, Kept
  <2> QED
    BY <1>2, <2>1, LeavingEarly DEF Steps
<1> QED
  BY <1>1, <1>2 DEF Find, Results

LEMMA ConfirmPreserves == ASSUME IInv, NEW u \in Upgrades, Confirm(u) PROVE Preserves(u)
<1>1. CASE Advance(u, "confirm", "mktemp") /\ UNCHANGED <<exe, cur, release, got, dir, temp>>
  <2>1. TypeOK'
    BY <1>1 DEF Advance, IInv, TypeOK, Steps, Results
  <2>2. BinaryAlwaysRuns'
    BY <1>1 DEF Advance, IInv, BinaryAlwaysRuns, Kept, Fetched, States, ByRename, ByPackage, Packaged, Packages
  <2>3. Kept(u)'
    BY <1>1 DEF Advance, IInv, TypeOK, Kept, Fetched, ByRename, ByPackage, Verified, Early, Packaged, Plan
  <2>4. Others(u)
    BY <1>1 DEF Advance, IInv, TypeOK, Others
  <2> QED
    BY <2>1, <2>2, <2>3, <2>4 DEF Preserves
<1>2. ASSUME NEW code \in Results \ {"none"}, UNCHANGED temp,
            Return(u, "confirm", code)
     PROVE  Preserves(u)
  <2>1. temp[u] = "none"
    BY <1>2 DEF Return, IInv, Kept
  <2> QED
    BY <1>2, <2>1, LeavingEarly DEF Steps
<1> QED
  BY <1>1, <1>2 DEF Confirm, Results

LEMMA MkTempPreserves == ASSUME IInv, NEW u \in Upgrades, MkTemp(u) PROVE Preserves(u)
<1>1. CASE /\ Advance(u, "mktemp", "sums") /\ dir' = [dir EXCEPT ![u] = "there"]
          /\ UNCHANGED <<exe, cur, release, got, temp>>
  <2>1. TypeOK'
    BY <1>1 DEF Advance, IInv, TypeOK, Steps, Results
  <2>2. BinaryAlwaysRuns'
    BY <1>1 DEF Advance, IInv, BinaryAlwaysRuns, Kept, Fetched, States, ByRename, ByPackage, Packaged, Packages
  <2>3. Kept(u)'
    BY <1>1 DEF Advance, IInv, TypeOK, Kept, Fetched, ByRename, ByPackage, Verified, Early, Packaged, Plan
  <2>4. Others(u)
    BY <1>1 DEF Advance, IInv, TypeOK, Others
  <2> QED
    BY <2>1, <2>2, <2>3, <2>4 DEF Preserves
<1>2. ASSUME NEW code \in Results \ {"none"}, UNCHANGED temp,
            Return(u, "mktemp", code)
     PROVE  Preserves(u)
  <2>1. temp[u] = "none"
    BY <1>2 DEF Return, IInv, Kept
  <2> QED
    BY <1>2, <2>1, LeavingEarly DEF Steps
<1> QED
  BY <1>1, <1>2 DEF MkTemp, Results

LEMMA SumsPreserves == ASSUME IInv, NEW u \in Upgrades, Sums(u) PROVE Preserves(u)
<1>1. ASSUME NEW st \in States, UNCHANGED temp,
            Receive(u, "sums", "file", [got[u] EXCEPT !.sums = st])
     PROVE  Preserves(u)
  <2>1. TypeOK'
    BY <1>1, DownloadsGrow DEF Receive, Advance, IInv, TypeOK, Steps, Results
  <2>2. BinaryAlwaysRuns'
    BY <1>1 DEF Receive, Advance, IInv, BinaryAlwaysRuns, Kept, Fetched, States, ByRename, ByPackage, Packaged, Packages
  <2>3. Kept(u)'
    BY <1>1 DEF Receive, Advance, IInv, TypeOK, Kept, Fetched, ByRename, ByPackage, Verified, Early, Packaged, Plan
  <2>4. Others(u)
    BY <1>1 DEF Receive, Advance, IInv, TypeOK, Others
  <2> QED
    BY <2>1, <2>2, <2>3, <2>4 DEF Preserves
<1>2. ASSUME NEW code \in Results \ {"none"}, UNCHANGED temp,
            Return(u, "sums", code)
     PROVE  Preserves(u)
  <2>1. temp[u] = "none"
    BY <1>2 DEF Return, IInv, Kept
  <2> QED
    BY <1>2, <2>1, LeavingEarly DEF Steps
<1> QED
  BY <1>1, <1>2 DEF Sums, Results

LEMMA FetchPreserves == ASSUME IInv, NEW u \in Upgrades, Fetch(u) PROVE Preserves(u)
<1>1. ASSUME NEW st \in States, st = got[u].sums, UNCHANGED temp,
            Receive(u, "file", "bundle", [got[u] EXCEPT !.file = st])
     PROVE  Preserves(u)
  <2>1. TypeOK'
    BY <1>1, DownloadsGrow DEF Receive, Advance, IInv, TypeOK, Steps, Results
  <2>2. BinaryAlwaysRuns'
    BY <1>1 DEF Receive, Advance, IInv, BinaryAlwaysRuns, Kept, Fetched, States, ByRename, ByPackage, Packaged, Packages
  <2>3. Kept(u)'
    BY <1>1 DEF Receive, Advance, IInv, TypeOK, Kept, Fetched, ByRename, ByPackage, Verified, Early, Packaged, Plan
  <2>4. Others(u)
    BY <1>1 DEF Receive, Advance, IInv, TypeOK, Others
  <2> QED
    BY <2>1, <2>2, <2>3, <2>4 DEF Preserves
<1>2. ASSUME NEW code \in Results \ {"none"}, UNCHANGED temp,
            Return(u, "file", code)
     PROVE  Preserves(u)
  <2>1. temp[u] = "none"
    BY <1>2 DEF Return, IInv, Kept
  <2> QED
    BY <1>2, <2>1, LeavingEarly DEF Steps
<1> QED
  BY <1>1, <1>2 DEF Fetch, Results

LEMMA BundlePreserves == ASSUME IInv, NEW u \in Upgrades, Bundle(u) PROVE Preserves(u)
<1>1. CASE /\ Receive(u, "bundle", "verify", [got[u] EXCEPT !.bundle = TRUE])
          /\ UNCHANGED temp
  <2>1. TypeOK'
    BY <1>1, DownloadsGrow DEF Receive, Advance, IInv, TypeOK, Steps, Results
  <2>2. BinaryAlwaysRuns'
    BY <1>1 DEF Receive, Advance, IInv, BinaryAlwaysRuns, Kept, Fetched, States, ByRename, ByPackage, Packaged, Packages
  <2>3. Kept(u)'
    BY <1>1 DEF Receive, Advance, IInv, TypeOK, Kept, Fetched, ByRename, ByPackage, Verified, Early, Packaged, Plan
  <2>4. Others(u)
    BY <1>1 DEF Receive, Advance, IInv, TypeOK, Others
  <2> QED
    BY <2>1, <2>2, <2>3, <2>4 DEF Preserves
<1>2. CASE Advance(u, "bundle", "verify") /\ UNCHANGED <<exe, cur, release, got, dir, temp>>
  <2>1. TypeOK'
    BY <1>2 DEF Advance, IInv, TypeOK, Steps, Results
  <2>2. BinaryAlwaysRuns'
    BY <1>2 DEF Advance, IInv, BinaryAlwaysRuns, Kept, Fetched, States, ByRename, ByPackage, Packaged, Packages
  <2>3. Kept(u)'
    BY <1>2 DEF Advance, IInv, TypeOK, Kept, Fetched, ByRename, ByPackage, Verified, Early, Packaged, Plan
  <2>4. Others(u)
    BY <1>2 DEF Advance, IInv, TypeOK, Others
  <2> QED
    BY <2>1, <2>2, <2>3, <2>4 DEF Preserves
<1> QED
  BY <1>1, <1>2 DEF Bundle, Results

LEMMA VerifyPreserves == ASSUME IInv, NEW u \in Upgrades, Verify(u) PROVE Preserves(u)
<1>1. CASE /\ Tool(u) # "none" /\ UNCHANGED temp
          /\ Receive(u, "verify", Installing, [got[u] EXCEPT !.tool = Tool(u)])
  <2>1. TypeOK'
    BY <1>1, DownloadsGrow DEF Receive, Advance, Tool, Installing, IInv, TypeOK, Steps, Results
  <2>2. BinaryAlwaysRuns'
    BY <1>1 DEF Receive, Advance, Tool, Installing, IInv, BinaryAlwaysRuns, Kept, Fetched, States, ByRename, ByPackage, Packaged, Packages
  <2>3. Kept(u)'
    BY <1>1 DEF Receive, Advance, Tool, Installing, IInv, TypeOK, Kept, Fetched, ByRename, ByPackage, Verified, Early, Packaged, Plan
  <2>4. Others(u)
    BY <1>1 DEF Receive, Advance, Tool, Installing, IInv, TypeOK, Others
  <2> QED
    BY <2>1, <2>2, <2>3, <2>4 DEF Preserves
<1>2. CASE ~Plan(u).strict /\ Advance(u, "verify", Installing) /\ UNCHANGED <<exe, cur, release, got, dir, temp>>
  <2>1. TypeOK'
    BY <1>2 DEF Advance, Installing, IInv, TypeOK, Steps, Results
  <2>2. BinaryAlwaysRuns'
    BY <1>2 DEF Advance, Installing, IInv, BinaryAlwaysRuns, Kept, Fetched, States, ByRename, ByPackage, Packaged, Packages
  <2>3. Kept(u)'
    BY <1>2 DEF Advance, Installing, IInv, TypeOK, Kept, Fetched, ByRename, ByPackage, Verified, Early, Packaged, Plan
  <2>4. Others(u)
    BY <1>2 DEF Advance, Installing, IInv, TypeOK, Others
  <2> QED
    BY <2>1, <2>2, <2>3, <2>4 DEF Preserves
<1>3. ASSUME NEW code \in Results \ {"none"}, UNCHANGED temp,
            Return(u, "verify", code)
     PROVE  Preserves(u)
  <2>1. temp[u] = "none"
    BY <1>3 DEF Return, IInv, Kept
  <2> QED
    BY <1>3, <2>1, LeavingEarly DEF Steps
<1> QED
  BY <1>1, <1>2, <1>3 DEF Verify, Results

LEMMA UnpackPreserves == ASSUME IInv, NEW u \in Upgrades, Unpack(u) PROVE Preserves(u)
<1>1. CASE /\ got[u].file # "damaged" /\ Advance(u, "package", "unpacked")
          /\ Place(u, got[u].file, TRUE) /\ UNCHANGED <<cur, release, got, dir, temp>>
  <2>1. TypeOK'
    BY <1>1, UpgradeAssumption DEF Advance, Place, IInv, TypeOK, Steps, Results, Kept, Fetched
  <2>2. BinaryAlwaysRuns'
    BY <1>1 DEF Advance, Place, IInv, BinaryAlwaysRuns, Kept, Fetched, States, ByRename, ByPackage, Packaged, Packages
  <2>3. Kept(u)'
    BY <1>1 DEF Advance, Place, IInv, TypeOK, Kept, Fetched, ByRename, ByPackage, Verified, Early, Packaged, Plan
  <2>4. Others(u)
    BY <1>1 DEF Advance, Place, IInv, TypeOK, Others
  <2> QED
    BY <2>1, <2>2, <2>3, <2>4 DEF Preserves
<1>2. ASSUME NEW code \in Results \ {"none"}, UNCHANGED temp,
            Return(u, "package", code)
     PROVE  Preserves(u)
  <2>1. temp[u] = "none"
    BY <1>2 DEF Return, IInv, Kept
  <2> QED
    BY <1>2, <2>1, LeavingEarly DEF Steps
<1> QED
  BY <1>1, <1>2 DEF Unpack, Results

LEMMA ConfigurePreserves == ASSUME IInv, NEW u \in Upgrades, Configure(u) PROVE Preserves(u)
<1>1. CASE Advance(u, "unpacked", "check") /\ UNCHANGED <<exe, cur, release, got, dir, temp>>
  <2>1. TypeOK'
    BY <1>1 DEF Advance, IInv, TypeOK, Steps, Results
  <2>2. BinaryAlwaysRuns'
    BY <1>1 DEF Advance, IInv, BinaryAlwaysRuns, Kept, Fetched, States, ByRename, ByPackage, Packaged, Packages
  <2>3. Kept(u)'
    BY <1>1 DEF Advance, IInv, TypeOK, Kept, Fetched, ByRename, ByPackage, Verified, Early, Packaged, Plan
  <2>4. Others(u)
    BY <1>1 DEF Advance, IInv, TypeOK, Others
  <2> QED
    BY <2>1, <2>2, <2>3, <2>4 DEF Preserves
<1>2. ASSUME NEW code \in Results \ {"none"}, UNCHANGED temp,
            Return(u, "unpacked", code)
     PROVE  Preserves(u)
  <2>1. temp[u] = "none"
    BY <1>2 DEF Return, IInv, Kept
  <2> QED
    BY <1>2, <2>1, LeavingEarly DEF Steps
<1> QED
  BY <1>1, <1>2 DEF Configure, Results

LEMMA TryPreserves == ASSUME IInv, NEW u \in Upgrades, Try(u) PROVE Preserves(u)
<1>1. CASE /\ got[u].file = "whole" /\ Advance(u, "try", "create")
          /\ UNCHANGED <<exe, cur, release, got, dir, temp>>
  <2>1. TypeOK'
    BY <1>1 DEF Advance, IInv, TypeOK, Steps, Results
  <2>2. BinaryAlwaysRuns'
    BY <1>1 DEF Advance, IInv, BinaryAlwaysRuns, Kept, Fetched, States, ByRename, ByPackage, Packaged, Packages
  <2>3. Kept(u)'
    BY <1>1 DEF Advance, IInv, TypeOK, Kept, Fetched, ByRename, ByPackage, Verified, Early, Packaged, Plan
  <2>4. Others(u)
    BY <1>1 DEF Advance, IInv, TypeOK, Others
  <2> QED
    BY <2>1, <2>2, <2>3, <2>4 DEF Preserves
<1>2. ASSUME NEW code \in Results \ {"none"}, UNCHANGED temp,
            Return(u, "try", code)
     PROVE  Preserves(u)
  <2>1. temp[u] = "none"
    BY <1>2 DEF Return, IInv, Kept
  <2> QED
    BY <1>2, <2>1, LeavingEarly DEF Steps
<1> QED
  BY <1>1, <1>2 DEF Try, Results

LEMMA CheckPreserves == ASSUME IInv, NEW u \in Upgrades, Check(u) PROVE Preserves(u)
<1>1. ASSUME NEW code \in Results \ {"none"}, UNCHANGED temp,
            Return(u, "check", code)
     PROVE  Preserves(u)
  <2>1. temp[u] = "none"
    BY <1>1 DEF Return, IInv, Kept
  <2> QED
    BY <1>1, <2>1, LeavingEarly DEF Steps
<1> QED
  BY <1>1 DEF Check, Results

LEMMA WritablePreserves == ASSUME IInv, NEW u \in Upgrades, Writable(u) PROVE Preserves(u)
<1>1. CASE /\ at[u] = "writable" /\ temp' = [temp EXCEPT ![u] = "test"]
          /\ UNCHANGED <<session, exe, at, ctx, cur, release, got, dir, result>>
  <2>1. TypeOK'
    BY <1>1 DEF Advance, IInv, TypeOK, Steps, Results
  <2>2. BinaryAlwaysRuns'
    BY <1>1 DEF Advance, IInv, BinaryAlwaysRuns, Kept, Fetched, States, ByRename, ByPackage, Packaged, Packages
  <2>3. Kept(u)'
    BY <1>1 DEF Advance, IInv, TypeOK, Kept, Fetched, ByRename, ByPackage, Verified, Early, Packaged, Plan
  <2>4. Others(u)
    BY <1>1 DEF Advance, IInv, TypeOK, Others
  <2> QED
    BY <2>1, <2>2, <2>3, <2>4 DEF Preserves
<1>2. CASE /\ temp' = [temp EXCEPT ![u] = "none"] /\ Advance(u, "writable", "confirm")
          /\ UNCHANGED <<exe, cur, release, got, dir>>
  <2>1. TypeOK'
    BY <1>2 DEF Advance, IInv, TypeOK, Steps, Results
  <2>2. BinaryAlwaysRuns'
    BY <1>2 DEF Advance, IInv, BinaryAlwaysRuns, Kept, Fetched, States, ByRename, ByPackage, Packaged, Packages
  <2>3. Kept(u)'
    BY <1>2 DEF Advance, IInv, TypeOK, Kept, Fetched, ByRename, ByPackage, Verified, Early, Packaged, Plan
  <2>4. Others(u)
    BY <1>2 DEF Advance, IInv, TypeOK, Others
  <2> QED
    BY <2>1, <2>2, <2>3, <2>4 DEF Preserves
<1>3. ASSUME NEW code \in Results \ {"none"}, UNCHANGED temp,
            Return(u, "writable", code), temp[u] = "none"
     PROVE  Preserves(u)
  <2>1. temp[u] = "none"
    BY <1>3 DEF Return, IInv, Kept
  <2> QED
    BY <1>3, <2>1, LeavingEarly DEF Steps
<1> QED
  BY <1>1, <1>2, <1>3 DEF Writable, Results

LEMMA CreatePreserves == ASSUME IInv, NEW u \in Upgrades, Create(u) PROVE Preserves(u)
<1>1. CASE /\ Advance(u, "create", "copy") /\ temp' = [temp EXCEPT ![u] = "partial"]
          /\ UNCHANGED <<exe, cur, release, got, dir>>
  <2>1. TypeOK'
    BY <1>1 DEF Advance, IInv, TypeOK, Steps, Results
  <2>2. BinaryAlwaysRuns'
    BY <1>1 DEF Advance, IInv, BinaryAlwaysRuns, Kept, Fetched, States, ByRename, ByPackage, Packaged, Packages
  <2>3. Kept(u)'
    BY <1>1 DEF Advance, IInv, TypeOK, Kept, Fetched, ByRename, ByPackage, Verified, Early, Packaged, Plan
  <2>4. Others(u)
    BY <1>1 DEF Advance, IInv, TypeOK, Others
  <2> QED
    BY <2>1, <2>2, <2>3, <2>4 DEF Preserves
<1>2. CASE Return(u, "create", "prereq") /\ temp' = [temp EXCEPT ![u] = "none"]
  BY <1>2, LeavingPreserves DEF Steps, Results
<1> QED
  BY <1>1, <1>2 DEF Create, Results, Write

LEMMA CopyPreserves == ASSUME IInv, NEW u \in Upgrades, Copy(u) PROVE Preserves(u)
<1>1. CASE /\ Advance(u, "copy", "chmod") /\ temp' = [temp EXCEPT ![u] = "copied"]
          /\ UNCHANGED <<exe, cur, release, got, dir>>
  <2>1. TypeOK'
    BY <1>1 DEF Advance, IInv, TypeOK, Steps, Results
  <2>2. BinaryAlwaysRuns'
    BY <1>1 DEF Advance, IInv, BinaryAlwaysRuns, Kept, Fetched, States, ByRename, ByPackage, Packaged, Packages
  <2>3. Kept(u)'
    BY <1>1 DEF Advance, IInv, TypeOK, Kept, Fetched, ByRename, ByPackage, Verified, Early, Packaged, Plan
  <2>4. Others(u)
    BY <1>1 DEF Advance, IInv, TypeOK, Others
  <2> QED
    BY <2>1, <2>2, <2>3, <2>4 DEF Preserves
<1>2. CASE Return(u, "copy", "prereq") /\ temp' = [temp EXCEPT ![u] = "none"]
  BY <1>2, LeavingPreserves DEF Steps, Results
<1> QED
  BY <1>1, <1>2 DEF Copy, Results, Write

LEMMA ChmodPreserves == ASSUME IInv, NEW u \in Upgrades, Chmod(u) PROVE Preserves(u)
<1>1. CASE /\ Advance(u, "chmod", "rename") /\ temp' = [temp EXCEPT ![u] = "runnable"]
          /\ UNCHANGED <<exe, cur, release, got, dir>>
  <2>1. TypeOK'
    BY <1>1 DEF Advance, IInv, TypeOK, Steps, Results
  <2>2. BinaryAlwaysRuns'
    BY <1>1 DEF Advance, IInv, BinaryAlwaysRuns, Kept, Fetched, States, ByRename, ByPackage, Packaged, Packages
  <2>3. Kept(u)'
    BY <1>1 DEF Advance, IInv, TypeOK, Kept, Fetched, ByRename, ByPackage, Verified, Early, Packaged, Plan
  <2>4. Others(u)
    BY <1>1 DEF Advance, IInv, TypeOK, Others
  <2> QED
    BY <2>1, <2>2, <2>3, <2>4 DEF Preserves
<1>2. CASE Return(u, "chmod", "prereq") /\ temp' = [temp EXCEPT ![u] = "none"]
  BY <1>2, LeavingPreserves DEF Steps, Results
<1> QED
  BY <1>1, <1>2 DEF Chmod, Results, Write

LEMMA RenamePreserves == ASSUME IInv, NEW u \in Upgrades, Rename(u) PROVE Preserves(u)
<1>1. CASE /\ Advance(u, "rename", "check") /\ temp' = [temp EXCEPT ![u] = "none"]
          /\ Place(u, IF temp[u] = "partial" THEN "damaged" ELSE got[u].file, temp[u] = "runnable")
          /\ UNCHANGED <<cur, release, got, dir>>
  <2>1. TypeOK'
    BY <1>1, UpgradeAssumption DEF Advance, Place, IInv, TypeOK, Steps, Results, Kept, Fetched
  <2>2. BinaryAlwaysRuns'
    BY <1>1 DEF Advance, Place, IInv, BinaryAlwaysRuns, Kept, Fetched, States, ByRename, ByPackage, Packaged, Packages
  <2>3. Kept(u)'
    BY <1>1 DEF Advance, Place, IInv, TypeOK, Kept, Fetched, ByRename, ByPackage, Verified, Early, Packaged, Plan
  <2>4. Others(u)
    BY <1>1 DEF Advance, Place, IInv, TypeOK, Others
  <2> QED
    BY <2>1, <2>2, <2>3, <2>4 DEF Preserves
<1>2. CASE Return(u, "rename", "prereq") /\ temp' = [temp EXCEPT ![u] = "none"]
  BY <1>2, LeavingPreserves DEF Steps, Results
<1> QED
  BY <1>1, <1>2 DEF Rename, Results

\* The machine and the flags do not change.
LEMMA SessionStays == [Next]_vars => UNCHANGED session
<1>1. CASE UNCHANGED vars
  BY <1>1 DEF vars
<1>2. ASSUME NEW u \in Upgrades, Begin(u) \/ Confirm(u) \/ Expire(u) \/ Kill(u)
      PROVE  UNCHANGED session
  BY <1>2 DEF Begin, Confirm, Expire, Kill, Advance, Return
<1>3. ASSUME NEW u \in Upgrades, Inside(u) PROVE UNCHANGED session
  BY <1>3 DEF Inside, Writable, MkTemp, Create, Copy, Chmod, Rename, Write, Advance, Return
<1>4. ASSUME NEW u \in Upgrades, Find(u) \/ Sums(u) \/ Fetch(u) \/ Bundle(u) \/ Verify(u)
      PROVE  UNCHANGED session
  BY <1>4 DEF Find, Sums, Fetch, Bundle, Verify, Receive, Advance, Return
<1>5. ASSUME NEW u \in Upgrades, Unpack(u) \/ Configure(u) \/ Try(u) \/ Check(u)
      PROVE  UNCHANGED session
  BY <1>5 DEF Unpack, Configure, Try, Check, Advance, Return
<1> QED
  BY <1>1, <1>2, <1>3, <1>4, <1>5 DEF Next, Outside

LEMMA StepInductive == IInv /\ [Next]_vars => IInv'
<1> SUFFICES ASSUME IInv, [Next]_vars PROVE IInv'
    OBVIOUS
<1>1. CASE UNCHANGED vars
  BY <1>1 DEF vars, IInv, TypeOK, BinaryAlwaysRuns, Kept, Packaged, Plan
<1>2. ASSUME NEW u \in Upgrades, Preserves(u), UNCHANGED session PROVE IInv'
  <2>1. ASSUME NEW w \in Upgrades \ {u} PROVE Kept(w)'
    BY <1>2, <2>1 DEF Preserves, Others, IInv, Kept, Packaged, Plan
  <2> QED
    BY <1>2, <2>1 DEF Preserves, IInv
<1>3. ASSUME NEW u \in Upgrades,
             Begin(u) \/ Confirm(u) \/ Inside(u) \/ Outside(u) \/ Expire(u) \/ Kill(u)
      PROVE  Preserves(u) /\ UNCHANGED session
  <2>1. Preserves(u)
    BY <1>3, BeginPreserves, ConfirmPreserves, WritablePreserves, MkTempPreserves,
       CreatePreserves, CopyPreserves, ChmodPreserves, RenamePreserves, FindPreserves,
       SumsPreserves, FetchPreserves, BundlePreserves, VerifyPreserves, UnpackPreserves,
       ConfigurePreserves, TryPreserves, CheckPreserves, ExpirePreserves, KillPreserves
       DEF Inside, Outside
  <2> QED
    BY <2>1, SessionStays
<1> QED
  BY <1>1, <1>2, <1>3 DEF Next

LEMMA Invariance == Spec => []IInv
  BY InitInductive, StepInductive, PTL DEF Spec

\* The state of every upgrade has its type (TypeOK).
THEOREM TypeCorrect == Spec => []TypeOK
  BY Invariance, PTL DEF IInv

\* Whatever is killed or fails, and however many upgrades run at once, the binary
\* at its path can be run (BinaryAlwaysRuns).
THEOREM AlwaysRuns == Spec => []BinaryAlwaysRuns
  BY Invariance, PTL DEF IInv

\* An upgrade that was not killed leaves no file behind (NoLitter).
THEOREM LeavesNothing == Spec => []NoLitter
<1>1. IInv => NoLitter
  BY DEF IInv, Kept, NoLitter
<1> QED
  BY <1>1, Invariance, PTL

\* Only a file with the digest its release lists takes the place of the binary, and
\* with --strict only one a tool vouched for (OnlyVerifiedIsInstalled).
THEOREM InstallsWhatItVerified == Spec => OnlyVerifiedIsInstalled
<1> DEFINE Verifying ==
      exe' # exe =>
        \E u \in Upgrades :
          /\ at[u] \in {"package", "rename"} /\ at'[u] \in {"unpacked", "check"}
          /\ exe'.version = release[u] /\ got[u].file = got[u].sums
          /\ Plan(u).strict => got[u].tool # "none"
<1>1. IInv /\ [Next]_vars => [Verifying]_vars
  <2> SUFFICES ASSUME IInv, Next, exe' # exe PROVE Verifying
      BY DEF vars
  <2>1. PICK u \in Upgrades :
          Begin(u) \/ Confirm(u) \/ Inside(u) \/ Outside(u) \/ Expire(u) \/ Kill(u)
    BY DEF Next
  <2>2. Unpack(u) \/ Rename(u)
    BY <2>1 DEF Begin, Confirm, Inside, Outside, Expire, Kill, Writable, MkTemp, Create, Copy,
       Chmod, Find, Sums, Fetch, Bundle, Verify, Configure, Try, Check, Write, Receive,
       Advance, Return
  <2>3. CASE Unpack(u)
    <3>1. Advance(u, "package", "unpacked") /\ Place(u, got[u].file, TRUE)
      BY <2>3 DEF Unpack, Return
    <3> QED
      BY <3>1 DEF Advance, Place, IInv, TypeOK, Kept, Fetched, Verified
  <2>4. CASE Rename(u)
    <3>1. /\ Advance(u, "rename", "check")
          /\ Place(u, IF temp[u] = "partial" THEN "damaged" ELSE got[u].file,
                   temp[u] = "runnable")
      BY <2>4 DEF Rename, Return
    <3> QED
      BY <3>1 DEF Advance, Place, IInv, TypeOK, Kept, Fetched, Verified
  <2> QED
    BY <2>2, <2>3, <2>4
<1> QED
  BY <1>1, Invariance, PTL DEF Spec, OnlyVerifiedIsInstalled

----------------------------------------------------------------------------
(* The order of versions.                                                  *)

\* A set of positions that is not empty has a first one.
LEMMA LeastIsThere ==
  ASSUME NEW S \in SUBSET Nat, S # {}
  PROVE  Least(S) \in S /\ \A y \in S : Least(S) <= y
<1>1. PICK x \in S : \A y \in S : <<y, x>> \notin OpToRel(<, Nat)
  BY NatLessThanWellFounded, WFMin
<1>2. ASSUME NEW y \in S PROVE x <= y
  <2>1. ~(y < x)
    <3> SUFFICES ASSUME y < x PROVE FALSE
        OBVIOUS
    <3>1. <<y, x>> \in OpToRel(<, Nat)
      BY Zenon DEF OpToRel
    <3> QED
      BY <1>1, <3>1
  <2> QED
    BY <2>1
<1> QED
  BY <1>2 DEF Least

LEMMA CoreType == ASSUME NEW a \in Readable PROVE Core(a) \in [1 .. 3 -> Int]
  BY DEF Core, Readable, NaN

\* Two versions compare the same way whichever comes first (Compare): what is
\* older than the release is never newer than it.
THEOREM CompareReverses ==
  ASSUME NEW a \in Readable, NEW b \in Readable
  PROVE  Compare(a, b) = 0 - Compare(b, a)
<1>1. \A x, y \in Int : Sign(x, y) = 0 - Sign(y, x)
  BY DEF Sign
<1>2. Core(a) \in [1 .. 3 -> Int] /\ Core(b) \in [1 .. 3 -> Int]
  BY CoreType
<1>3. Differ(Core(a), Core(b), 3) = Differ(Core(b), Core(a), 3)
  BY DEF Differ
<1>4. CASE Differ(Core(a), Core(b), 3) # {}
  <2> DEFINE i == Least(Differ(Core(a), Core(b), 3))
  <2>1. i \in 1 .. 3
    BY <1>4, LeastIsThere DEF Differ
  <2> QED
    BY <1>1, <1>2, <1>3, <1>4, <2>1 DEF Compare
<1>5. CASE Differ(Core(a), Core(b), 3) = {} /\ (a.pre = b.pre \/ a.pre = <<>> \/ b.pre = <<>>)
  BY <1>3, <1>5 DEF Compare
<1>6. CASE /\ Differ(Core(a), Core(b), 3) = {}
           /\ a.pre # b.pre /\ a.pre # <<>> /\ b.pre # <<>>
  <2> DEFINE D == Differ(a.pre, b.pre, Common(a.pre, b.pre))
  <2>1. Compare(a, b) = ComparePre(a.pre, b.pre) /\ Compare(b, a) = ComparePre(b.pre, a.pre)
    BY <1>3, <1>6 DEF Compare
  <2>2. Common(a.pre, b.pre) = Common(b.pre, a.pre) /\ Common(a.pre, b.pre) \in Nat
    BY DEF Common, Readable
  <2>3. D = Differ(b.pre, a.pre, Common(b.pre, a.pre))
    BY <2>2 DEF Differ
  <2>4. CASE D = {}
    BY <1>1, <2>1, <2>3, <2>4 DEF ComparePre, Readable
  <2>5. CASE D # {}
    <3>1. Least(D) \in 1 .. Common(a.pre, b.pre)
      BY <2>2, <2>5, LeastIsThere DEF Differ
    <3>2. a.pre[Least(D)] \in Identifiers /\ b.pre[Least(D)] \in Identifiers
      BY <3>1 DEF Common, Readable
    <3>3. \A x, y \in Identifiers : CompareIdentifier(x, y) = 0 - CompareIdentifier(y, x)
      BY DEF CompareIdentifier, Identifiers, NaN, Sign
    <3> QED
      BY <2>1, <2>3, <2>5, <3>2, <3>3 DEF ComparePre
  <2> QED
    BY <2>4, <2>5
<1> QED
  BY <1>4, <1>5, <1>6

LEMMA ComparesToInt ==
  ASSUME NEW a \in Readable, NEW b \in Readable
  PROVE  Compare(a, b) \in {-1, 0, 1}
<1>1. \A x, y : Sign(x, y) \in {-1, 0, 1}
  BY DEF Sign
<1>2. \A x, y : CompareIdentifier(x, y) \in {-1, 0, 1}
  BY <1>1 DEF CompareIdentifier
<1>3. \A x, y : ComparePre(x, y) \in {-1, 0, 1}
  BY <1>1, <1>2 DEF ComparePre
<1> QED
  BY <1>1, <1>3 DEF Compare

\* One pre-release comes before another at place k: they agree up to there, and
\* there the one ends or has the smaller identifier.
BeforeAt(x, y, k) ==
  /\ k \in 1 .. Len(x) + 1 /\ k <= Len(y)
  /\ \A m \in 1 .. k - 1 : x[m] = y[m]
  /\ k <= Len(x) => CompareIdentifier(x[k], y[k]) < 0

LEMMA IdentifiersAreOrdered ==
  ASSUME NEW x \in Identifiers, NEW y \in Identifiers, NEW z \in Identifiers
  PROVE  /\ CompareIdentifier(x, y) \in Int
         /\ CompareIdentifier(x, y) = 0 => x = y
         /\ CompareIdentifier(x, x) = 0
         /\ CompareIdentifier(x, y) < 0 /\ CompareIdentifier(y, z) < 0
              => CompareIdentifier(x, z) < 0
<1>1. /\ x.value \in Int /\ y.value \in Int /\ z.value \in Int
      /\ x.text \in Int /\ y.text \in Int /\ z.text \in Int
  BY DEF Identifiers, NaN
<1>2. x.value = y.value /\ x.text = y.text => x = y
  BY DEF Identifiers
<1> QED
  BY <1>1, <1>2 DEF CompareIdentifier, Sign, NaN

LEMMA PreDecides ==
  ASSUME NEW x \in Seq(Identifiers), NEW y \in Seq(Identifiers)
  PROVE  /\ ComparePre(x, y) = 0 => x = y
         /\ ComparePre(x, y) < 0 => \E k \in Nat : BeforeAt(x, y, k)
         /\ \A k \in Nat : BeforeAt(x, y, k) => ComparePre(x, y) < 0
<1> DEFINE D == Differ(x, y, Common(x, y))
<1>0. /\ Common(x, y) \in Nat /\ Common(x, y) <= Len(x) /\ Common(x, y) <= Len(y)
      /\ Common(x, y) = Len(x) \/ Common(x, y) = Len(y)
  BY DEF Common
<1>1. CASE D = {}
  <2>1. \A m \in 1 .. Common(x, y) : x[m] = y[m]
    BY <1>1 DEF Differ
  <2>2. ComparePre(x, y) = Sign(Len(x), Len(y))
    BY <1>1 DEF ComparePre
  <2>3. Len(x) = Len(y) => x = y
    BY <1>0, <2>1
  <2>4. Len(x) < Len(y) => BeforeAt(x, y, Len(x) + 1)
    BY <1>0, <2>1 DEF BeforeAt
  <2>5. ASSUME NEW k \in Nat, BeforeAt(x, y, k) PROVE Len(x) < Len(y)
    <3>1. k <= Len(x) => x[k] \in Identifiers
      BY <2>5 DEF BeforeAt
    <3>2. ~(k <= Len(x))
      <4> SUFFICES ASSUME k <= Len(x) PROVE FALSE
          OBVIOUS
      <4>1. x[k] = y[k]
        BY <1>0, <2>1, <2>5 DEF BeforeAt
      <4>2. CompareIdentifier(x[k], x[k]) < 0
        BY <2>5, <4>1 DEF BeforeAt
      <4> QED
        BY <3>1, <4>2, IdentifiersAreOrdered
    <3> QED
      BY <2>5, <3>2 DEF BeforeAt
  <2> QED
    BY <2>2, <2>3, <2>4, <2>5 DEF Sign
<1>2. CASE D # {}
  <2> DEFINE i == Least(D)
  <2>0. D \in SUBSET Nat
    BY <1>0 DEF Differ
  <2>1. i \in D /\ \A m \in D : i <= m
    BY <1>2, <2>0, LeastIsThere
  <2>2. i \in 1 .. Common(x, y) /\ x[i] # y[i]
    BY <2>1 DEF Differ
  <2>3. \A m \in 1 .. i - 1 : x[m] = y[m]
    <3> SUFFICES ASSUME NEW m \in 1 .. i - 1, x[m] # y[m] PROVE FALSE
        OBVIOUS
    <3>1. m \in D
      BY <1>0, <2>2 DEF Differ
    <3>2. i <= m
      BY <2>1, <3>1
    <3> QED
      BY <1>0, <2>2, <3>2
  <2>4. ComparePre(x, y) = CompareIdentifier(x[i], y[i])
    BY <1>2 DEF ComparePre
  <2>5. x[i] \in Identifiers /\ y[i] \in Identifiers
    BY <1>0, <2>2
  <2>6. ComparePre(x, y) # 0 /\ ComparePre(x, y) \in Int
    BY <2>2, <2>4, <2>5, IdentifiersAreOrdered
  <2>7. ComparePre(x, y) < 0 => BeforeAt(x, y, i)
    BY <1>0, <2>2, <2>3, <2>4 DEF BeforeAt
  <2>8. ASSUME NEW k \in Nat, BeforeAt(x, y, k) PROVE ComparePre(x, y) < 0
    <3>1. ~(i < k)
      BY <1>0, <2>2, <2>8 DEF BeforeAt
    <3>2. ~(k < i)
      <4> SUFFICES ASSUME k < i PROVE FALSE
          OBVIOUS
      <4>1. k \in 1 .. i - 1 /\ k <= Len(x) /\ k <= Len(y)
        BY <1>0, <2>2, <2>8 DEF BeforeAt
      <4>2. x[k] = y[k] /\ x[k] \in Identifiers /\ CompareIdentifier(x[k], x[k]) < 0
        BY <2>3, <2>8, <4>1 DEF BeforeAt
      <4> QED
        BY <4>2, IdentifiersAreOrdered
    <3>3. k = i
      BY <1>0, <2>2, <3>1, <3>2
    <3> QED
      BY <1>0, <2>2, <2>4, <2>8, <3>3 DEF BeforeAt
  <2> QED
    BY <1>0, <2>2, <2>6, <2>7, <2>8
<1> QED
  BY <1>1, <1>2

LEMMA PreIsTransitive ==
  ASSUME NEW x \in Seq(Identifiers), NEW y \in Seq(Identifiers), NEW z \in Seq(Identifiers),
         ComparePre(x, y) < 0, ComparePre(y, z) < 0
  PROVE  ComparePre(x, z) < 0
<1>1. PICK i \in Nat : BeforeAt(x, y, i)
  BY PreDecides
<1>2. PICK j \in Nat : BeforeAt(y, z, j)
  BY PreDecides
<1>3. CASE i < j
  <2>1. i <= Len(y) /\ i <= Len(z) /\ y[i] = z[i]
    BY <1>1, <1>2, <1>3 DEF BeforeAt
  <2>2. \A m \in 1 .. i - 1 : x[m] = z[m]
    BY <1>1, <1>2, <1>3 DEF BeforeAt
  <2>3. BeforeAt(x, z, i)
    BY <1>1, <2>1, <2>2 DEF BeforeAt
  <2> QED
    BY <2>3, PreDecides
<1>4. CASE j < i
  <2>1. j <= Len(x) /\ j <= Len(y) /\ x[j] = y[j]
    BY <1>1, <1>2, <1>4 DEF BeforeAt
  <2>2. \A m \in 1 .. j - 1 : x[m] = z[m]
    BY <1>1, <1>2, <1>4 DEF BeforeAt
  <2>3. BeforeAt(x, z, j)
    BY <1>2, <2>1, <2>2 DEF BeforeAt
  <2> QED
    BY <2>3, PreDecides
<1>5. CASE i = j
  <2>1. \A m \in 1 .. i - 1 : x[m] = z[m]
    BY <1>1, <1>2, <1>5 DEF BeforeAt
  <2>2. i <= Len(y) /\ i <= Len(z) /\ i \in 1 .. Len(x) + 1
    BY <1>1, <1>2, <1>5 DEF BeforeAt
  <2>3. ASSUME i <= Len(x) PROVE CompareIdentifier(x[i], z[i]) < 0
    <3>1. x[i] \in Identifiers /\ y[i] \in Identifiers /\ z[i] \in Identifiers
      BY <2>2, <2>3
    <3>2. CompareIdentifier(x[i], y[i]) < 0 /\ CompareIdentifier(y[i], z[i]) < 0
      BY <1>1, <1>2, <1>5, <2>2, <2>3 DEF BeforeAt
    <3> QED
      BY <3>1, <3>2, IdentifiersAreOrdered
  <2>4. BeforeAt(x, z, i)
    BY <2>1, <2>2, <2>3 DEF BeforeAt
  <2> QED
    BY <2>4, PreDecides
<1> QED
  BY <1>3, <1>4, <1>5

\* The three numbers decide at the first that differs.
LEMMA CoreDecides ==
  ASSUME NEW a \in Readable, NEW b \in Readable
  PROVE  /\ Differ(Core(a), Core(b), 3) = {} <=> Core(a) = Core(b)
         /\ Core(a) # Core(b) =>
              LET s == IF Core(a)[1] # Core(b)[1] THEN 1 ELSE IF Core(a)[2] # Core(b)[2] THEN 2 ELSE 3
              IN Compare(a, b) = Sign(Core(a)[s], Core(b)[s])
<1>1. Core(a) \in [1 .. 3 -> Int] /\ Core(b) \in [1 .. 3 -> Int]
  BY CoreType
<1>2. Differ(Core(a), Core(b), 3) = {} <=> Core(a) = Core(b)
  BY <1>1 DEF Differ
<1> DEFINE D == Differ(Core(a), Core(b), 3)
           s == IF Core(a)[1] # Core(b)[1] THEN 1 ELSE IF Core(a)[2] # Core(b)[2] THEN 2 ELSE 3
<1>3. ASSUME Core(a) # Core(b) PROVE Least(D) = s
  <2>1. s \in D /\ \A j \in D : s <= j
    BY <1>1, <1>3 DEF Differ
  <2>2. \A i \in D : (\A j \in D : i <= j) => i = s
    BY <2>1 DEF Differ
  <2> QED
    BY <2>1, <2>2 DEF Least
<1> QED
  BY <1>2, <1>3 DEF Compare

\* The order of versions is transitive, whatever their lengths: with CompareReverses
\* it is an order, in which a list of releases can be sorted (Compare).
THEOREM CompareIsTransitive ==
  ASSUME NEW a \in Readable, NEW b \in Readable, NEW c \in Readable,
         Compare(a, b) <= 0, Compare(b, c) <= 0
  PROVE  Compare(a, c) <= 0
<1>1. /\ Core(a) \in [1 .. 3 -> Int] /\ Core(b) \in [1 .. 3 -> Int]
      /\ Core(c) \in [1 .. 3 -> Int]
  BY CoreType
<1>2. CASE Core(a) # Core(b) \/ Core(b) # Core(c)
  BY <1>1, <1>2, CoreDecides DEF Sign
<1>3. CASE Core(a) = Core(b) /\ Core(b) = Core(c)
  <2> DEFINE Pre(x, y) == IF x = y THEN 0 ELSE IF x = <<>> THEN 1 ELSE IF y = <<>> THEN -1
                          ELSE ComparePre(x, y)
  <2>1. /\ a.pre \in Seq(Identifiers) /\ b.pre \in Seq(Identifiers)
        /\ c.pre \in Seq(Identifiers)
    BY DEF Readable
  <2>2. /\ Compare(a, b) = Pre(a.pre, b.pre) /\ Compare(b, c) = Pre(b.pre, c.pre)
        /\ Compare(a, c) = Pre(a.pre, c.pre)
    BY <1>3, CoreDecides DEF Compare
  <2>3. CASE a.pre = b.pre \/ b.pre = c.pre \/ a.pre = c.pre \/ c.pre = <<>>
    BY <2>2, <2>3
  <2>4. CASE /\ a.pre # b.pre /\ b.pre # c.pre /\ a.pre # c.pre /\ c.pre # <<>>
    <3>1. a.pre # <<>> /\ b.pre # <<>>
      BY <2>2, <2>4
    <3>2. ComparePre(a.pre, b.pre) <= 0 /\ ComparePre(b.pre, c.pre) <= 0
      BY <2>2, <2>4, <3>1
    <3>3. /\ ComparePre(a.pre, b.pre) \in {-1, 0, 1} /\ ComparePre(b.pre, c.pre) \in {-1, 0, 1}
      BY ComparesToInt, <2>2, <2>4, <3>1
    <3>4. ComparePre(a.pre, b.pre) < 0 /\ ComparePre(b.pre, c.pre) < 0
      BY <2>1, <2>4, <3>2, <3>3, PreDecides
    <3>5. ComparePre(a.pre, c.pre) < 0
      BY <2>1, <3>4, PreIsTransitive
    <3> QED
      BY <2>2, <2>4, <3>1, <3>5, ComparesToInt
  <2> QED
    BY <2>3, <2>4
<1> QED
  BY <1>2, <1>3

----------------------------------------------------------------------------
(* The direction.                                                          *)

\* What an upgrade goes on with is chosen once, by Find.
LEMMA ChoiceIsKept ==
  ASSUME TypeOK, [Next]_vars, NEW u \in Upgrades
  PROVE  \/ at'[u] \in {"idle", "release", "ended"}
         \/ /\ at[u] \notin {"idle", "release", "ended"}
            /\ release'[u] = release[u] /\ cur'[u] = cur[u]
         \/ /\ ~NothingToDo(cur[u], Chosen(u), Plan(u))
            /\ release'[u] = Chosen(u) /\ cur'[u] = cur[u]
<1>0. CASE UNCHANGED vars
  BY <1>0 DEF vars
<1>1. ASSUME Next PROVE \E w \in Upgrades :
        Begin(w) \/ Confirm(w) \/ Inside(w) \/ Outside(w) \/ Expire(w) \/ Kill(w)
  BY <1>1 DEF Next
<1>2. ASSUME NEW w \in Upgrades, Begin(w) PROVE
        \/ at'[u] \in {"idle", "release", "ended"}
        \/ at'[u] = at[u] /\ release'[u] = release[u] /\ cur'[u] = cur[u]
  BY <1>2 DEF Begin, Advance, TypeOK
<1>3. ASSUME NEW w \in Upgrades, Find(w) PROVE
        \/ at'[u] \in {"idle", "release", "ended"}
        \/ at'[u] = at[u] /\ release'[u] = release[u] /\ cur'[u] = cur[u]
        \/ /\ ~NothingToDo(cur[u], Chosen(u), Plan(u))
           /\ release'[u] = Chosen(u) /\ cur'[u] = cur[u]
  <2>1. CASE w = u /\ Advance(u, "release", IF Packaged THEN "confirm" ELSE "writable")
             /\ ~NothingToDo(cur[u], Chosen(u), Plan(u))
             /\ release' = [release EXCEPT ![u] = Chosen(u)] /\ UNCHANGED cur
    BY <2>1 DEF TypeOK
  <2>2. CASE w # u \/ \E code \in Results : Return(w, "release", code)
    BY <1>3, <2>2 DEF Find, Advance, Return, TypeOK
  <2> QED
    BY <1>3, <2>1, <2>2 DEF Find, Results
<1>4. ASSUME NEW w \in Upgrades,
             \/ Confirm(w) \/ Writable(w) \/ MkTemp(w) \/ Create(w) \/ Copy(w) \/ Chmod(w)
             \/ Rename(w) \/ Expire(w) \/ Kill(w)
      PROVE  /\ UNCHANGED <<release, cur>> /\ (w # u => at'[u] = at[u])
             /\ at[w] \in {"idle", "release", "ended"} => at'[w] \in {"idle", "release", "ended"}
  BY <1>4 DEF Confirm, Writable, MkTemp, Create, Copy, Chmod, Rename, Expire, Kill, Write,
     Advance, Return, TypeOK
<1>5. ASSUME NEW w \in Upgrades,
             Sums(w) \/ Fetch(w) \/ Bundle(w) \/ Verify(w) \/ Unpack(w) \/ Configure(w)
               \/ Try(w) \/ Check(w)
      PROVE  /\ UNCHANGED <<release, cur>> /\ (w # u => at'[u] = at[u])
             /\ at[w] \in {"idle", "release", "ended"} => at'[w] \in {"idle", "release", "ended"}
  BY <1>5 DEF Sums, Fetch, Bundle, Verify, Unpack, Configure, Try, Check, Receive, Advance,
     Return, TypeOK
<1> QED
  BY <1>0, <1>1, <1>2, <1>3, <1>4, <1>5 DEF Inside, Outside

\* The release that a plain upgrade goes on with is newer than the binary.
Ahead(u) ==
  at[u] \notin {"idle", "release", "ended"} /\ ~Plan(u).tagged /\ ~Plan(u).force =>
    release[u] = Latest /\ IsRelease(cur[u]) /\ Compare(Latest, cur[u]) > 0

LEMMA AheadInductive ==
  ASSUME TypeOK, [Next]_vars, NEW u \in Upgrades, Ahead(u)
  PROVE  Ahead(u)'
<1>1. UNCHANGED session
  BY SessionStays
<1>2. Plan(u)' = Plan(u)
  BY <1>1 DEF Plan
<1>3. CASE /\ ~NothingToDo(cur[u], Chosen(u), Plan(u))
           /\ release'[u] = Chosen(u) /\ cur'[u] = cur[u]
  <2> SUFFICES ASSUME ~Plan(u).tagged, ~Plan(u).force
               PROVE  Chosen(u) = Latest /\ IsRelease(cur[u]) /\ Compare(Latest, cur[u]) > 0
      BY <1>2, <1>3 DEF Ahead
  <2>1. Chosen(u) = Latest
    BY DEF Chosen
  <2>2. IsRelease(cur[u]) /\ Compare(Latest, cur[u]) # 0 /\ ~(Compare(Latest, cur[u]) < 0)
    BY <1>3, <2>1 DEF NothingToDo
  <2>3. Latest \in Readable /\ cur[u] \in Readable
    BY UpgradeAssumption DEF TypeOK
  <2> QED
    BY <2>1, <2>2, <2>3, ComparesToInt
<1> QED
  BY <1>2, <1>3, ChoiceIsKept DEF Ahead

LEMMA AheadInvariance == Spec => [](\A u \in Upgrades : Ahead(u))
<1>1. Init => \A u \in Upgrades : Ahead(u)
  BY DEF Init, Ahead
<1>2. IInv /\ (\A u \in Upgrades : Ahead(u)) /\ [Next]_vars => (\A u \in Upgrades : Ahead(u))'
  BY AheadInductive DEF IInv
<1> QED
  BY <1>1, <1>2, Invariance, PTL DEF Spec

\* The history of the project, told in the order of Compare.
HistoryInOrder ==
  /\ \A v \in Versions : IsRelease(v) \/ v = Latest => \E i \in 1 .. Len(History) : History[i] = v
  /\ \A i, j \in 1 .. Len(History) : i < j => Compare(History[i], History[j]) < 0

\* Without --version and --force an upgrade installs a later version than the one
\* it runs as, and one that update announced, whatever was published when, as long
\* as the versions of the history follow each other in the order of Compare
\* (OnlyForward).
THEOREM NeverBackwards == Spec => [](HistoryInOrder => OnlyForward)
<1>1. ASSUME TypeOK, \A u \in Upgrades : Ahead(u), HistoryInOrder PROVE OnlyForward
  <2> SUFFICES ASSUME NEW u \in Upgrades, at[u] \notin {"idle", "release", "ended"},
                      ~Plan(u).tagged, ~Plan(u).force
               PROVE  \E i, j \in 1 .. Len(History) :
                        i < j /\ History[i] = cur[u] /\ History[j] = release[u]
                          /\ Announces(cur[u])
      BY DEF OnlyForward
  <2>1. release[u] = Latest /\ IsRelease(cur[u]) /\ Compare(Latest, cur[u]) > 0
    BY <1>1 DEF Ahead
  <2>2. PICK i \in 1 .. Len(History) : History[i] = cur[u]
    BY <1>1, <2>1 DEF HistoryInOrder, TypeOK
  <2>3. PICK j \in 1 .. Len(History) : History[j] = Latest
    BY <1>1, UpgradeAssumption DEF HistoryInOrder
  <2>4. Latest \in Readable /\ cur[u] \in Readable
    BY <1>1, UpgradeAssumption DEF TypeOK
  <2>5. i # j
    BY <2>1, <2>2, <2>3, <2>4, CompareReverses, ComparesToInt
  <2>6. ~(j < i)
    BY <1>1, <2>1, <2>2, <2>3, <2>4, ComparesToInt DEF HistoryInOrder
  <2>7. i < j
    BY <2>5, <2>6, UpgradeAssumption
  <2> QED
    BY <2>1, <2>2, <2>3, <2>7 DEF Announces
<1>2. IInv /\ (\A u \in Upgrades : Ahead(u)) => (HistoryInOrder => OnlyForward)
  BY <1>1 DEF IInv
<1> QED
  BY <1>2, Invariance, AheadInvariance, PTL

----------------------------------------------------------------------------
(* The promise.                                                            *)

\* The other upgrades stand where they stood.
LEMMA OthersStand ==
  ASSUME NEW u \in Upgrades, Others(u), NEW w \in Upgrades \ {u}
  PROVE  Stage(w)' = Stage(w)
  BY DEF Others, Stage

\* A step that only takes u on, or an end with an exit code.
LEMMA StageMoves ==
  ASSUME NEW u \in Upgrades, Others(u), NEW from, NEW to,
         Stage(u) = from, Stage(u)' = to
  PROVE  [w \in Upgrades |-> Stage(w)]'
           = [[w \in Upgrades |-> Stage(w)] EXCEPT ![u] = to]
  BY OthersStand

LEMMA StandsStill ==
  ASSUME NEW u \in Upgrades, Others(u), Stage(u)' = Stage(u), UNCHANGED exe
  PROVE  UNCHANGED <<exe, [w \in Upgrades |-> Stage(w)]>>
  BY OthersStand

LEMMA ReturnsAsPromised ==
  ASSUME IInv, NEW u \in Upgrades, Others(u), NEW from \in Steps \ {"ended"},
         NEW code \in Results \ {"none", "killed"}, Return(u, from, code),
         code = "installed" => from = "check",
         from \in {"unpacked", "check"} => code \in {"installed", "engine"}
  PROVE  Promise!End(u) \/ Promise!Finish(u)
<1>1. at[u] = from /\ result[u] = "none" /\ result'[u] = code /\ UNCHANGED exe
  BY DEF Return, IInv, TypeOK, Kept
<1>2. Stage(u) = IF from \in {"unpacked", "check"} THEN "after" ELSE "before"
  BY <1>1 DEF Stage
<1>3. Stage(u)' = CASE code \in {"nothing", "usage", "prereq"} -> "declined"
                    [] code = "installed" -> "done"
                    [] OTHER -> "broken"
  BY <1>1 DEF Stage, Results
<1>4. [w \in Upgrades |-> Stage(w)]' = [[w \in Upgrades |-> Stage(w)] EXCEPT ![u] = Stage(u)']
  BY StageMoves
<1> QED
  BY <1>1, <1>2, <1>3, <1>4 DEF Promise!End, Promise!Finish, Promise!Move, Results

LEMMA StepKeepsPromise ==
  IInv /\ [Next]_vars => [Promise!Next]_<<exe, [u \in Upgrades |-> Stage(u)]>>
<1> SUFFICES ASSUME IInv, Next
             PROVE  Promise!Next \/ UNCHANGED <<exe, [u \in Upgrades |-> Stage(u)]>>
    BY DEF vars, Stage
<1>1. PICK u \in Upgrades :
        Begin(u) \/ Confirm(u) \/ Inside(u) \/ Outside(u) \/ Expire(u) \/ Kill(u)
  BY DEF Next
<1>2. Others(u)
  BY <1>1, BeginPreserves, ConfirmPreserves, WritablePreserves, MkTempPreserves,
     CreatePreserves, CopyPreserves, ChmodPreserves, RenamePreserves, FindPreserves,
     SumsPreserves, FetchPreserves, BundlePreserves, VerifyPreserves, UnpackPreserves,
     ConfigurePreserves, TryPreserves, CheckPreserves, ExpirePreserves, KillPreserves
     DEF Inside, Outside, Preserves
<1>3. CASE \E from \in Steps \ {"unpacked", "check", "ended"}, code \in Results :
             /\ code \notin {"none", "killed", "installed"}
             /\ Return(u, from, code)
  BY <1>2, <1>3, ReturnsAsPromised DEF Promise!Next
<1>4. CASE \E from \in {"unpacked", "check"}, code \in {"installed", "engine"} :
             (code = "installed" => from = "check") /\ Return(u, from, code)
  BY <1>2, <1>4, ReturnsAsPromised DEF Promise!Next, Steps, Results
<1>5. CASE /\ UNCHANGED <<exe, result>>
           /\ at[u] \in {"unpacked", "check"} <=> at'[u] \in {"unpacked", "check"}
  BY <1>2, <1>5, StandsStill DEF Stage
<1>6. CASE Kill(u)
  <2>1. Stage(u) \in {"before", "after"} /\ Stage(u)' = "killed"
    BY <1>6 DEF Kill, Stage, IInv, TypeOK, Kept
  <2>2. [w \in Upgrades |-> Stage(w)]' = [[w \in Upgrades |-> Stage(w)] EXCEPT ![u] = "killed"]
    BY <1>2, <2>1, StageMoves
  <2> QED
    BY <1>6, <2>1, <2>2 DEF Kill, Promise!Next, Promise!Die, Promise!Move
<1>7. CASE \/ Advance(u, "package", "unpacked") /\ Place(u, got[u].file, TRUE)
               /\ got[u].file # "damaged"
           \/ Advance(u, "rename", "check")
               /\ Place(u, IF temp[u] = "partial" THEN "damaged" ELSE got[u].file,
                        temp[u] = "runnable")
  <2>1. Stage(u) = "before" /\ Stage(u)' = "after"
    BY <1>7 DEF Advance, Stage, IInv, TypeOK, Kept
  <2>2. [w \in Upgrades |-> Stage(w)]' = [[w \in Upgrades |-> Stage(w)] EXCEPT ![u] = "after"]
    BY <1>2, <2>1, StageMoves
  <2>3. /\ release[u] \in Published /\ exe'.version = release[u]
        /\ exe' \in [version : Versions, state : {"whole", "misbuilt"}, executable : {TRUE}]
    <3>1. got[u].file \in {"whole", "misbuilt"} /\ (at[u] = "rename" => temp[u] = "runnable")
      BY <1>7 DEF Advance, IInv, Kept, Fetched, States
    <3>2. release[u] \in Published /\ release[u] \in Versions
      BY UpgradeAssumption DEF IInv, TypeOK
    <3>3. \/ Place(u, got[u].file, TRUE)
          \/ at[u] = "rename"
             /\ Place(u, IF temp[u] = "partial" THEN "damaged" ELSE got[u].file,
                      temp[u] = "runnable")
      BY <1>7 DEF Advance
    <3>4. exe' = [version |-> release[u], state |-> got[u].file, executable |-> TRUE]
      BY <3>1, <3>3 DEF Place
    <3> QED
      BY <3>1, <3>2, <3>4
  <2> QED
    BY <2>1, <2>2, <2>3 DEF Promise!Next, Promise!Install, Promise!Move
<1>8. CASE Begin(u) \/ Confirm(u) \/ Expire(u)
  BY <1>3, <1>5, <1>8 DEF Begin, Confirm, Expire, Advance, IInv, TypeOK, Steps, Results
<1>9. CASE Writable(u) \/ MkTemp(u) \/ Create(u) \/ Copy(u) \/ Chmod(u)
  BY <1>3, <1>5, <1>9
     DEF Writable, MkTemp, Create, Copy, Chmod, Write, Advance, IInv, TypeOK, Steps, Results
<1>10. CASE Find(u) \/ Sums(u) \/ Fetch(u) \/ Bundle(u) \/ Verify(u) \/ Try(u)
  BY <1>3, <1>5, <1>10
     DEF Find, Sums, Fetch, Bundle, Verify, Try, Installing, Receive, Advance, IInv, TypeOK,
         Steps, Results
<1>11. CASE Configure(u) \/ Check(u)
  BY <1>4, <1>5, <1>11 DEF Configure, Check, Advance, IInv, TypeOK
<1>12. CASE Unpack(u) \/ Rename(u)
  BY <1>3, <1>7, <1>12 DEF Unpack, Rename, Steps, Results
<1> QED
  BY <1>1, <1>6, <1>8, <1>9, <1>10, <1>11, <1>12 DEF Inside, Outside

LEMMA InitKeepsPromise == Init => Promise!Init
  BY DEF Init, Promise!Init, Stage

\* Every upgrade replaces the binary at once and at most once, by a release, and
\* what it says at its end is true (KeepsItsPromise).
THEOREM PromiseKept == Spec => KeepsItsPromise
  BY InitKeepsPromise, StepKeepsPromise, Invariance, PTL DEF Spec, KeepsItsPromise, Promise!Spec
=============================================================================
