----------------------------- MODULE StagedRun -----------------------------
(***************************************************************************)
(* Staged runs on a target.  A private directory is made there, files are  *)
(* copied into it, a program runs on them, its report is read back and the *)
(* directory is removed: an audit on the target (engine.OnTarget), the     *)
(* installation of a package (cinc.installFile) and a converge             *)
(* (harden.Apply) all work this way, and one command strings several of    *)
(* them together under one context.                                        *)
(*                                                                         *)
(* Every step is one call of target.Run: a client process here (sh, ssh or *)
(* docker exec) and a process on the target.  The context may end at any   *)
(* moment, and an ssh connection may be lost.                              *)
(***************************************************************************)
EXTENDS Naturals, Sequences

CONSTANT Commands  \* the commands explored: their runs, and over which transport

Whats == {"audit", "install", "converge"}
Kinds == {"local", "ssh", "docker"}

\* Only install-cinc strings two installations together, and it does nothing else.
ASSUME StagedRunAssumption ==
  \A c \in Commands :
    /\ c \in [runs : Seq(Whats), kind : Kinds] /\ c.runs # <<>>
    /\ \A i \in 1 .. Len(c.runs) - 1 :
         c.runs[i] = "install" /\ c.runs[i + 1] = "install" =>
           \A j \in 1 .. Len(c.runs) : c.runs[j] = "install"

VARIABLES
  command,  \* the command
  ctx,      \* its context: "live", or "done" after --timeout or a signal
  n,        \* the run it is at
  at,       \* the step of that run
  call,     \* the call of that step
  remote,   \* the processes of this command alive on the target
  dir,      \* the staged directory of each run: "none", "there", "gone"
  staged,   \* the steps whose files are complete in that of run n
  effect,   \* what the program of each run has done: "none", "partial", "done"
  raw,      \* what of the report of run n was read back
  result,   \* what run n returns
  trouble   \* history: a connection was lost, or rm failed

vars == <<command, ctx, n, at, call, remote, dir, staged, effect, raw, result, trouble>>

Runs    == 1 .. Len(command.runs)
Steps   == {"mktemp", "upload", "write", "run", "read", "remove"}
Process == [run : Runs, step : Steps]
Amount  == {"none", "partial", "done"}
Answers == {"ok", "failed", "lost", "refused"}  \* "lost": no exit code of the script
Calls   == {"none", "running", "cut"} \union Answers

What == command.runs[n]
Here == [run |-> n, step |-> at]

\* The files a program needs: the profile or the cookbook, then single files.
Needs == IF What = "install" THEN {"write"} ELSE {"upload", "write"}

Following(s) ==
  CASE s = "mktemp" -> IF What = "install" THEN "write" ELSE "upload"
    [] s = "upload" -> "write"
    [] s = "write"  -> "run"
    [] s = "run"    -> IF What = "audit" THEN "read" ELSE "remove"
    [] OTHER        -> "remove"

----------------------------------------------------------------------------
(* A call (target.Run).                                                    *)

\* No process is started under a context that has ended.
Start ==
  /\ at # "ended" /\ call = "none"
  /\ IF ctx = "done"
       THEN call' = "refused" /\ UNCHANGED remote
       ELSE call' = "running" /\ remote' = remote \union {Here}
  /\ UNCHANGED <<command, ctx, n, at, dir, staged, effect, raw, result, trouble>>

\* How the call sees the end of a process: the client of a call that was cut is
\* gone, only the pipe kept it open.
Seen(p, code) ==
  CASE p = Here /\ call = "running" -> code
    [] p = Here /\ call = "cut"     -> "lost"
    [] OTHER                        -> call

\* A process on the target succeeds.
Succeed(p) ==
  /\ p \in remote
  /\ p.step \in {"upload", "write", "read"} => dir[p.run] = "there"
  /\ p.step = "read" => effect[p.run] # "none"
  /\ remote' = remote \ {p}
  /\ call' = Seen(p, "ok")
  /\ dir' = [dir EXCEPT ![p.run] = CASE p.step = "mktemp" -> "there"
                                     [] p.step = "remove" -> "gone"
                                     [] OTHER -> @]
  /\ staged' = IF p.run = n /\ p.step \in {"upload", "write"}
                 THEN staged \union {p.step} ELSE staged
  /\ effect' = [effect EXCEPT ![p.run] = IF p.step = "run" THEN "done" ELSE @]
  /\ raw' = IF p.step = "read" THEN effect[p.run] ELSE raw
  /\ UNCHANGED <<command, ctx, n, at, result, trouble>>

\* Or it fails, with what it did so far in place.
Fail(p) ==
  /\ p \in remote
  /\ remote' = remote \ {p}
  /\ call' = Seen(p, "failed")
  /\ trouble' = (trouble \/ p.step = "remove")
  /\ UNCHANGED <<command, ctx, n, at, dir, staged, effect, raw, result>>

\* The program changes the host or writes its report, a part after the other.
Work(p) ==
  /\ p \in remote /\ p.step = "run" /\ effect[p.run] # "done"
  /\ \E amount \in {"partial", "done"} : effect' = [effect EXCEPT ![p.run] = amount]
  /\ UNCHANGED <<command, ctx, n, at, call, remote, dir, staged, raw, result, trouble>>

\* The context ends.
Expire ==
  /\ at # "ended" /\ ctx = "live"
  /\ ctx' = "done"
  /\ UNCHANGED <<command, n, at, call, remote, dir, staged, effect, raw, result, trouble>>

\* Mutant: the client is not bound to the context.
KillNever == FALSE /\ UNCHANGED vars

\* The client is then killed.  The process on the target dies with it or goes
\* on; a local one that goes on still holds the output pipe, and Run waits.
Kill ==
  /\ ctx = "done" /\ call = "running"
  /\ \/ call' = "lost" /\ remote' = remote \ {Here}
     \/ call' = (IF command.kind = "local" THEN "cut" ELSE "lost") /\ UNCHANGED remote
  /\ UNCHANGED <<command, ctx, n, at, dir, staged, effect, raw, result, trouble>>

\* An ssh connection breaks.
Drop ==
  /\ command.kind = "ssh" /\ call = "running"
  /\ call' = "lost" /\ trouble' = TRUE
  /\ \E dies \in BOOLEAN : remote' = IF dies THEN remote \ {Here} ELSE remote
  /\ UNCHANGED <<command, ctx, n, at, dir, staged, effect, raw, result>>

----------------------------------------------------------------------------
(* The caller.                                                             *)

\* Mutant: the exit code of a transfer is not looked at.
AcceptsTransfers ==
  \/ call = "ok"
  \/ at \in {"upload", "write"} /\ call # "refused"
  \/ at = "run" /\ What = "audit" /\ call # "refused"

\* Mutant: a program without an exit code is taken for a success.
AcceptsLost ==
  \/ call = "ok"
  \/ at = "run" /\ call = "lost"
  \/ at = "run" /\ What = "audit" /\ call # "refused"

\* The exit code of an audit is not looked at: its report tells.
Accepts ==
  \/ call = "ok"
  \/ at = "run" /\ What = "audit" /\ call # "refused"

\* install-cinc tries the second project after the first one failed.
KeepsGoing == n < Len(command.runs) /\ What = "install" /\ command.runs[n + 1] = "install"

Answered == call \in Answers /\ call' = "none"

\* Without a directory there is nothing to clean up.
NoDirectory ==
  /\ at = "mktemp" /\ ~Accepts /\ Answered
  /\ IF KeepsGoing
       THEN n' = n + 1 /\ UNCHANGED <<at, result>>
       ELSE at' = "ended" /\ result' = "error" /\ UNCHANGED n
  /\ UNCHANGED <<command, ctx, remote, dir, staged, effect, raw, trouble>>

\* Mutant: any text that was read back is taken for a report.
ProceedUnparsed ==
  /\ at \notin {"remove", "ended"} /\ Accepts /\ Answered
  /\ at' = Following(at)
  /\ result' = CASE at = "run" /\ What # "audit" -> "ok"
                 [] at = "read" -> "ok"
                 [] OTHER -> result
  /\ UNCHANGED <<command, ctx, n, remote, dir, staged, effect, raw, trouble>>

\* A report that is not complete does not parse.
Proceed ==
  /\ at \notin {"remove", "ended"} /\ Accepts /\ Answered
  /\ at' = Following(at)
  /\ result' = CASE at = "run" /\ What # "audit" -> "ok"
                 [] at = "read" -> IF raw = "done" THEN "ok" ELSE "error"
                 [] OTHER -> result
  /\ UNCHANGED <<command, ctx, n, remote, dir, staged, effect, raw, trouble>>

\* Mutant: the directory is only removed after a success.
GiveUpAtOnce ==
  /\ at \notin {"mktemp", "remove", "ended"} /\ ~Accepts /\ Answered
  /\ at' = "ended" /\ result' = "error"
  /\ UNCHANGED <<command, ctx, n, remote, dir, staged, effect, raw, trouble>>

GiveUp ==
  /\ at \notin {"mktemp", "remove", "ended"} /\ ~Accepts /\ Answered
  /\ at' = "remove" /\ result' = "error"
  /\ UNCHANGED <<command, ctx, n, remote, dir, staged, effect, raw, trouble>>

\* Whatever became of the removal, the run returns; the command goes on after a
\* run without error.
Return ==
  /\ at = "remove" /\ Answered
  /\ IF (result = "ok" /\ n < Len(command.runs)) \/ KeepsGoing
       THEN /\ n' = n + 1 /\ at' = "mktemp"
            /\ staged' = {} /\ raw' = "none" /\ result' = "none"
       ELSE at' = "ended" /\ UNCHANGED <<n, staged, raw, result>>
  /\ UNCHANGED <<command, ctx, remote, dir, effect, trouble>>

----------------------------------------------------------------------------

Init ==
  /\ command \in Commands
  /\ ctx = "live" /\ n = 1 /\ at = "mktemp" /\ call = "none" /\ remote = {}
  /\ dir = [i \in Runs |-> "none"] /\ staged = {}
  /\ effect = [i \in Runs |-> "none"] /\ raw = "none"
  /\ result = "none" /\ trouble = FALSE

Caller == Start \/ NoDirectory \/ Proceed \/ GiveUp \/ Return

Target == \E p \in remote : Succeed(p) \/ Fail(p) \/ Work(p)

Next == Caller \/ Target \/ Expire \/ Kill \/ Drop

Spec == Init /\ [][Next]_vars

\* The timer of the context fires, a killed client dies, and the command takes
\* its own steps; nothing is assumed of the processes on the target.
FairSpec == Spec /\ WF_vars(Caller) /\ WF_vars(Expire) /\ WF_vars(Kill)

----------------------------------------------------------------------------

TypeOK ==
  /\ command \in Commands /\ ctx \in {"live", "done"}
  /\ n \in Runs /\ at \in Steps \union {"ended"} /\ call \in Calls
  /\ remote \subseteq Process
  /\ dir \in [Runs -> {"none", "there", "gone"}] /\ staged \subseteq {"upload", "write"}
  /\ effect \in [Runs -> Amount] /\ raw \in Amount
  /\ result \in {"none", "ok", "error"} /\ trouble \in BOOLEAN

\* cinc-client, the engine and the package tool only ever run on a complete
\* stage, whatever failed, was cut or is still being written.
RunsOnAWholeStage ==
  [run |-> n, step |-> "run"] \in remote \/ effect[n] # "none" => Needs \subseteq staged

\* A run that reports success was not cut short: the whole report of this very
\* run was read, or the program ended, and ended well.
OkMeansFinished ==
  result = "ok" =>
    /\ effect[n] = "done"
    /\ IF What = "audit" THEN raw = "done" ELSE [run |-> n, step |-> "run"] \notin remote

\* An audit or a converge never works on a host that an earlier program of the
\* same command is still changing: the re-audit of harden sees a finished host.
AuditsAQuietHost ==
  \A p, q \in {r \in remote : r.step = "run" /\ effect[r.run] # "done"} :
    p.run < q.run => command.runs[q.run] = "install"

\* Whichever step failed, nothing stays on the target after a command whose
\* context is still live, unless a connection was lost or rm itself failed.
CleanUnlessCut ==
  at = "ended" /\ ctx = "live" /\ ~trouble => \A i \in Runs : dir[i] # "there"

\* "Nothing is left behind." (engine.OnTarget), with connections that hold.
NothingLeftBehind == at = "ended" /\ ~trouble => \A i \in Runs : dir[i] # "there"

\* A command ends after its timeout, even when the target hangs, unless a
\* process of a local script survives its shell for ever.
EndsAfterTimeout ==
  <>(at = "ended") \/ (command.kind = "local" /\ <>[](Here \in remote))
=============================================================================
