------------------------------- MODULE Upgrade ------------------------------
(***************************************************************************)
(* sdw-armor upgrade: find a release, download it, check it and put it in  *)
(* place of the running binary.  Several upgrades may run at once on one   *)
(* machine; each may be stopped by its timeout or Ctrl-C, which end its    *)
(* context, and killed between any two steps.                              *)
(***************************************************************************)
EXTENDS Version

CONSTANTS
  Upgrades,   \* the runs of sdw-armor upgrade
  Versions,   \* the versions a binary may report
  Published,  \* the releases of the project
  Latest,     \* the newest one
  History,    \* versions from the oldest to the newest
  Sessions    \* what is explored: a machine and the flags of each upgrade

Packages == {"deb", "rpm"}
Plans ==
  [tagged : BOOLEAN, want : Published,       \* --version want, or the latest release
   force : BOOLEAN, strict : BOOLEAN,        \* --force, --strict
   answer : {"--yes", "terminal", "none"},   \* how the question is answered
   may : BOOLEAN]                            \* root, or a directory it can write to

ASSUME UpgradeAssumption ==
  /\ History \in Seq(Versions)
  /\ Latest \in Published /\ Published \subseteq Versions /\ Versions \subseteq Readable
  /\ \A s \in Sessions :
       /\ s.how \in Packages \union {"binary"} /\ s.tools \subseteq {"cosign", "gh"}
       /\ s.plans \in [Upgrades -> Plans]

VARIABLES
  session,  \* the machine and the plans
  exe,      \* the file at the path of the binary
  at,       \* the step each upgrade is at
  ctx,      \* its context: "live" or "done"
  cur,      \* the version it runs as
  release,  \* the release it found
  got,      \* what it downloaded and checked
  dir,      \* its private directory: "none", "there", "gone"
  temp,     \* its file next to the binary
  result    \* how it ended

vars == <<session, exe, at, ctx, cur, release, got, dir, temp, result>>

States  == {"whole", "misbuilt", "damaged"}  \* misbuilt: it does not say its version
Steps   == {"idle", "release", "writable", "confirm", "mktemp", "sums", "file", "bundle",
            "verify", "package", "unpacked", "try", "create", "copy", "chmod", "rename",
            "check", "ended"}
Results == {"none", "nothing", "installed", "usage", "prereq", "engine", "killed"}
Downloads ==
  [sums : States \union {"none"}, file : States \union {"none"},
   bundle : BOOLEAN, tool : {"none", "cosign", "gh"}]
Nothing == [sums |-> "none", file |-> "none", bundle |-> FALSE, tool |-> "none"]

Plan(u) == session.plans[u]
Packaged == session.how \in Packages
Runs(file) == file.state = "whole" /\ file.executable

----------------------------------------------------------------------------
(* The steps of an upgrade: on to the next one, or out with an exit code,  *)
(* which removes the private directory.                                    *)

Advance(u, from, to) ==
  /\ at[u] = from /\ at' = [at EXCEPT ![u] = to]
  /\ UNCHANGED <<session, ctx, result>>

Return(u, from, code) ==
  /\ at[u] = from /\ at' = [at EXCEPT ![u] = "ended"]
  /\ result' = [result EXCEPT ![u] = code]
  /\ dir' = [dir EXCEPT ![u] = IF @ = "there" THEN "gone" ELSE @]
  /\ got' = [got EXCEPT ![u] = Nothing]
  /\ UNCHANGED <<session, exe, ctx, cur, release>>

Begin(u) ==
  /\ Advance(u, "idle", "release") /\ Runs(exe)
  /\ cur' = [cur EXCEPT ![u] = exe.version]
  /\ UNCHANGED <<exe, release, got, dir, temp>>

\* A development build, this very version, or an older one nobody asked for.
NothingToDo(v, r, p) ==
  ~p.force /\ (~IsRelease(v) \/ Compare(r, v) = 0 \/ (Compare(r, v) < 0 /\ ~p.tagged))

\* The release of the tag, or the latest one.
Chosen(u) == IF Plan(u).tagged THEN Plan(u).want ELSE Latest

\* sdw-armor update: a newer release is there.
Announces(v) == IsRelease(v) /\ Compare(Latest, v) > 0

\* The release is found, and how the binary was installed.
Find(u) ==
  LET r == Chosen(u) IN
  /\ UNCHANGED temp
  /\ \/ /\ ctx[u] = "live" /\ ~NothingToDo(cur[u], r, Plan(u))
        /\ Packaged => Plan(u).may
        /\ release' = [release EXCEPT ![u] = r]
        /\ Advance(u, "release", IF Packaged THEN "confirm" ELSE "writable")
        /\ UNCHANGED <<exe, cur, got, dir>>
     \/ /\ ctx[u] = "live" /\ NothingToDo(cur[u], r, Plan(u))
        /\ Return(u, "release", "nothing")
     \/ Return(u, "release", "prereq")

\* A file is created in the directory of the binary, and removed.
Writable(u) ==
  \/ /\ at[u] = "writable" /\ temp[u] = "none" /\ Plan(u).may
     /\ temp' = [temp EXCEPT ![u] = "test"]
     /\ UNCHANGED <<session, exe, at, ctx, cur, release, got, dir, result>>
  \/ /\ temp[u] = "test" /\ temp' = [temp EXCEPT ![u] = "none"]
     /\ Advance(u, "writable", "confirm")
     /\ UNCHANGED <<exe, cur, release, got, dir>>
  \/ /\ temp[u] = "none" /\ Return(u, "writable", "prereq") /\ UNCHANGED temp

\* A release without its file or its sums is refused; then the question, which
\* is read from the terminal whatever becomes of the context.
Confirm(u) ==
  /\ UNCHANGED temp
  /\ \/ /\ Plan(u).answer # "none" /\ Advance(u, "confirm", "mktemp")
        /\ UNCHANGED <<exe, cur, release, got, dir>>
     \/ Plan(u).answer = "terminal" /\ Return(u, "confirm", "nothing")
     \/ Plan(u).answer = "none" /\ Return(u, "confirm", "usage")
     \/ Return(u, "confirm", "prereq")

MkTemp(u) ==
  /\ UNCHANGED temp
  /\ \/ /\ Advance(u, "mktemp", "sums") /\ dir' = [dir EXCEPT ![u] = "there"]
        /\ UNCHANGED <<exe, cur, release, got>>
     \/ Return(u, "mktemp", "engine")

----------------------------------------------------------------------------
(* Downloads and checks.  Nothing starts, and nothing answers, under a     *)
(* context that has ended.                                                 *)

\* A download and what it brought.
Receive(u, from, to, what) ==
  /\ ctx[u] = "live" /\ Advance(u, from, to)
  /\ got' = [got EXCEPT ![u] = what]
  /\ UNCHANGED <<exe, cur, release, dir>>

\* Mutant: the download of the sums is not bound to the context.
SumsUnbound(u) ==
  /\ UNCHANGED temp /\ ctx[u] = "live"
  /\ \/ \E s \in States : Receive(u, "sums", "file", [got[u] EXCEPT !.sums = s])
     \/ \E code \in {"prereq", "engine"} : Return(u, "sums", code)

\* The sums list the digest of some file for this one, or do not list it.
Sums(u) ==
  /\ UNCHANGED temp
  /\ \/ \E s \in States : Receive(u, "sums", "file", [got[u] EXCEPT !.sums = s])
     \/ \E code \in {"prereq", "engine"} : Return(u, "sums", code)

Fetch(u) ==
  /\ UNCHANGED temp
  /\ \/ \E s \in States :
          /\ s = got[u].sums
          /\ Receive(u, "file", "bundle", [got[u] EXCEPT !.file = s])
     \/ Return(u, "file", "prereq")

\* A bundle that cannot be downloaded counts as one the release does not have.
Bundle(u) ==
  /\ UNCHANGED temp
  /\ \/ Receive(u, "bundle", "verify", [got[u] EXCEPT !.bundle = TRUE])
     \/ /\ Advance(u, "bundle", "verify")
        /\ UNCHANGED <<exe, cur, release, got, dir>>

\* gh must say that it is ready, which it cannot once the context has ended.
Tool(u) ==
  CASE "cosign" \in session.tools /\ got[u].bundle -> "cosign"
    [] ("cosign" \in session.tools => ~got[u].bundle)
         /\ "gh" \in session.tools /\ ctx[u] = "live" -> "gh"
    [] OTHER -> "none"

Installing == IF Packaged THEN "package" ELSE "try"

\* Mutant: --strict only looks at whether a tool is installed.
VerifyLoosely(u) ==
  /\ UNCHANGED temp
  /\ \/ /\ Tool(u) # "none"
        /\ Receive(u, "verify", Installing, [got[u] EXCEPT !.tool = Tool(u)])
     \/ /\ Tool(u) = "none" /\ (Plan(u).strict => session.tools # {})
        /\ Advance(u, "verify", Installing)
        /\ UNCHANGED <<exe, cur, release, got, dir>>
     \/ (Tool(u) # "none" \/ Plan(u).strict) /\ Return(u, "verify", "prereq")

\* Without any tool the digest alone will do, unless --strict.
Verify(u) ==
  /\ UNCHANGED temp
  /\ \/ /\ Tool(u) # "none"
        /\ Receive(u, "verify", Installing, [got[u] EXCEPT !.tool = Tool(u)])
     \/ /\ Tool(u) = "none" /\ ~Plan(u).strict /\ Advance(u, "verify", Installing)
        /\ UNCHANGED <<exe, cur, release, got, dir>>
     \/ (Tool(u) # "none" \/ Plan(u).strict) /\ Return(u, "verify", "prereq")

----------------------------------------------------------------------------
(* The package tool.                                                       *)

Place(u, state, executable) ==
  exe' = [version |-> release[u], state |-> state, executable |-> executable]

\* rpm only goes back to an older version when it is told to, and it is told so
\* after the version this upgrade runs as.
RpmAgrees(u) ==
  Compare(release[u], exe.version) < 0 => Compare(release[u], cur[u]) < 0

\* dpkg or rpm refuses a damaged package, or renames the new file into place.
Unpack(u) ==
  /\ UNCHANGED temp
  /\ \/ /\ ctx[u] = "live" /\ got[u].file # "damaged"
        /\ session.how = "rpm" => RpmAgrees(u)
        /\ Advance(u, "package", "unpacked") /\ Place(u, got[u].file, TRUE)
        /\ UNCHANGED <<cur, release, got, dir>>
     \/ Return(u, "package", "engine")

\* And it may still fail, or be killed, after that.
Configure(u) ==
  /\ UNCHANGED temp
  /\ \/ ctx[u] = "live" /\ Advance(u, "unpacked", "check")
          /\ UNCHANGED <<exe, cur, release, got, dir>>
     \/ Return(u, "unpacked", "engine")

----------------------------------------------------------------------------
(* The binary itself (replaceFile).                                        *)

\* The new binary must run and report the version of the release.
Try(u) ==
  /\ UNCHANGED temp
  /\ \/ /\ ctx[u] = "live" /\ got[u].file = "whole" /\ Advance(u, "try", "create")
        /\ UNCHANGED <<exe, cur, release, got, dir>>
     \/ \E code \in {"prereq", "engine"} : Return(u, "try", code)

\* A step on the file next to the binary.  When it fails, the file is removed.
Write(u, from, to, state) ==
  \/ /\ Advance(u, from, to) /\ temp' = [temp EXCEPT ![u] = state]
     /\ UNCHANGED <<exe, cur, release, got, dir>>
  \/ Return(u, from, "prereq") /\ temp' = [temp EXCEPT ![u] = "none"]

Create(u) == Write(u, "create", "copy", "partial")
Copy(u)   == Write(u, "copy", "chmod", "copied")

\* Mutant: a failure leaves the file where it is.
ChmodLeaves(u) ==
  \/ Write(u, "chmod", "rename", "runnable")
  \/ Return(u, "chmod", "prereq") /\ UNCHANGED temp

\* Mutant: the mode of the old binary is set after the rename.
ChmodLate(u) == Write(u, "chmod", "rename", "copied")

Chmod(u)  == Write(u, "chmod", "rename", "runnable")

\* The file takes the place of the binary, with what it holds at that moment.
Rename(u) ==
  \/ /\ Advance(u, "rename", "check") /\ temp' = [temp EXCEPT ![u] = "none"]
     /\ Place(u, IF temp[u] = "partial" THEN "damaged" ELSE got[u].file,
              temp[u] = "runnable")
     /\ UNCHANGED <<cur, release, got, dir>>
  \/ Return(u, "rename", "prereq") /\ temp' = [temp EXCEPT ![u] = "none"]

\* Mutant: an upgrade that cannot confirm its version says that nothing changed.
CheckMildly(u) ==
  /\ UNCHANGED temp
  /\ \/ /\ ctx[u] = "live" /\ Runs(exe) /\ exe.version = release[u]
        /\ Return(u, "check", "installed")
     \/ Return(u, "check", "prereq")

\* What stands at the path of the binary must report the release.
Check(u) ==
  /\ UNCHANGED temp
  /\ \/ /\ ctx[u] = "live" /\ Runs(exe) /\ exe.version = release[u]
        /\ Return(u, "check", "installed")
     \/ Return(u, "check", "engine")

----------------------------------------------------------------------------

\* The timeout, or Ctrl-C.
Expire(u) ==
  /\ at[u] \notin {"idle", "ended"} /\ ctx[u] = "live"
  /\ ctx' = [ctx EXCEPT ![u] = "done"]
  /\ UNCHANGED <<session, exe, at, cur, release, got, dir, temp, result>>

\* Nothing deferred runs in a process that is killed.
Kill(u) ==
  /\ at[u] \notin {"idle", "ended"}
  /\ at' = [at EXCEPT ![u] = "ended"] /\ result' = [result EXCEPT ![u] = "killed"]
  /\ got' = [got EXCEPT ![u] = Nothing]
  /\ UNCHANGED <<session, exe, ctx, cur, release, dir, temp>>

Init ==
  /\ session \in Sessions
  /\ exe \in [version : Versions, state : {"whole"}, executable : {TRUE}]
  /\ at = [u \in Upgrades |-> "idle"] /\ ctx = [u \in Upgrades |-> "live"]
  /\ cur = [u \in Upgrades |-> exe.version] /\ release = [u \in Upgrades |-> Latest]
  /\ got = [u \in Upgrades |-> Nothing]
  /\ dir = [u \in Upgrades |-> "none"] /\ temp = [u \in Upgrades |-> "none"]
  /\ result = [u \in Upgrades |-> "none"]

\* The steps that wait for a server or for another program.
Outside(u) == Find(u) \/ Sums(u) \/ Fetch(u) \/ Bundle(u) \/ Verify(u)
                \/ Unpack(u) \/ Configure(u) \/ Try(u) \/ Check(u)
Inside(u)  == Writable(u) \/ MkTemp(u) \/ Create(u) \/ Copy(u) \/ Chmod(u) \/ Rename(u)

Next ==
  \E u \in Upgrades :
    \/ Begin(u) \/ Confirm(u) \/ Inside(u) \/ Outside(u) \/ Expire(u) \/ Kill(u)

Spec == Init /\ [][Next]_vars

\* A process takes its own steps and its timer fires.  A server or a program may
\* never answer: what it is waited for with is cut when the context ends.
Moves(u) ==
  \/ Inside(u)
  \/ ctx[u] = "done" /\ Outside(u)
  \/ Plan(u).answer # "terminal" /\ Confirm(u)

FairSpec == Spec /\ \A u \in Upgrades : WF_vars(Moves(u)) /\ WF_vars(Expire(u))

----------------------------------------------------------------------------

TypeOK ==
  /\ session \in Sessions
  /\ exe \in [version : Versions, state : States, executable : BOOLEAN]
  /\ at \in [Upgrades -> Steps] /\ ctx \in [Upgrades -> {"live", "done"}]
  /\ cur \in [Upgrades -> Versions] /\ release \in [Upgrades -> Published]
  /\ got \in [Upgrades -> Downloads]
  /\ dir \in [Upgrades -> {"none", "there", "gone"}]
  /\ temp \in [Upgrades -> {"none", "test", "partial", "copied", "runnable"}]
  /\ result \in [Upgrades -> Results]

\* Whatever is killed, fails or runs at the same time, the binary at its path can
\* be run; unless a package brought it, it is a whole build of its version.
BinaryAlwaysRuns ==
  /\ exe.state # "damaged" /\ exe.executable
  /\ session.how = "binary" => exe.state = "whole"

\* The binary is only ever replaced by a file that has the digest the sums of its
\* release list, and with --strict by one whose origin a tool confirmed.
OnlyVerifiedIsInstalled ==
  [][exe' # exe =>
       \E u \in Upgrades :
         /\ at[u] \in {"package", "rename"} /\ at'[u] \in {"unpacked", "check"}
         /\ exe'.version = release[u] /\ got[u].file = got[u].sums
         /\ Plan(u).strict => got[u].tool # "none"]_vars

\* Without --version and --force an upgrade only ever goes forward, in the order
\* the versions were made, leaves a development build alone, and installs what
\* sdw-armor update announced.
OnlyForward ==
  \A u \in Upgrades :
    at[u] \notin {"idle", "release", "ended"} /\ ~Plan(u).tagged /\ ~Plan(u).force =>
      \E i, j \in 1 .. Len(History) :
        i < j /\ History[i] = cur[u] /\ History[j] = release[u] /\ Announces(cur[u])

\* What the test of the directory and replaceFile create next to the binary, and
\* the private directory, are gone when an upgrade that was not killed has ended.
NoLitter ==
  \A u \in Upgrades :
    at[u] = "ended" /\ result[u] # "killed" => temp[u] = "none" /\ dir[u] # "there"

\* An upgrade ends after its timeout or Ctrl-C, unless it waits for an answer.
EndsAfterTimeout ==
  \A u \in Upgrades :
    \/ <>[](at[u] \in {"idle", "ended"})
    \/ <>[](at[u] = "confirm" /\ Plan(u).answer = "terminal")

\* "When cosign is installed, the signature of SHA256SUMS is verified too" (help of
\* upgrade, docs/CLI.md).
CosignIsUsed ==
  \A u \in Upgrades :
    at[u] \in {"package", "try"} /\ "cosign" \in session.tools => got[u].tool = "cosign"

----------------------------------------------------------------------------
(* What it promises (InstalledBinary).                                     *)

Stage(u) ==
  CASE result[u] = "none" ->
         IF at[u] \in {"unpacked", "check"} THEN "after" ELSE "before"
    [] result[u] \in {"nothing", "usage", "prereq"} -> "declined"
    [] result[u] = "installed" -> "done"
    [] result[u] = "engine" -> "broken"
    [] OTHER -> "killed"

Promise ==
  INSTANCE InstalledBinary WITH
    Wanted    <- Published,
    Whole     <- [version : Versions, state : {"whole", "misbuilt"}, executable : {TRUE}],
    installed <- exe,
    stage     <- [u \in Upgrades |-> Stage(u)]

\* Every upgrade keeps the promise: "Nothing was changed" when it says so, and the
\* release in place, at once, before it says that it is installed.
KeepsItsPromise == Promise!Spec
=============================================================================
