-------------------------- MODULE StagedRun_proofs --------------------------
(***************************************************************************)
(* For any commands, of any length: programs run on a whole stage, success *)
(* means that the program ended well, a host that is audited is quiet, and *)
(* nothing is left behind by a command that was not cut.                   *)
(***************************************************************************)
EXTENDS StagedRun, TLAPS

\* The files of a step that ended well are complete, and so are those of the
\* steps before it.
Whole ==
  /\ at \in {"upload", "write"} /\ call = "ok" => at \in staged
  /\ at = "write" /\ What # "install" => "upload" \in staged
  /\ at \in {"run", "read"} => Needs \subseteq staged
  /\ RunsOnAWholeStage

\* Nothing exists yet of the runs to come.
Fresh ==
  /\ \A p \in remote : p.run <= n /\ (p.run = n /\ at = "mktemp" => p.step = "mktemp")
  /\ \A i \in Runs : i > n \/ (i = n /\ at = "mktemp") => effect[i] = "none"

\* A call that was answered with success has left no process, and a report that
\* is read can only be the one of this run.
Finished ==
  /\ call = "ok" => Here \notin remote
  /\ at = "run" /\ call = "ok" => effect[n] = "done"
  /\ raw = "done" => effect[n] = "done"
  /\ result # "none" => at \in {"remove", "ended"}
  /\ at = "read" => What = "audit"
  /\ \A p \in remote :
       p.step = "read" => p.run = n /\ What = "audit" /\ (at = "read" \/ result = "error")
  /\ OkMeansFinished

\* A program that goes on after its run is an installation of install-cinc.
Quiet ==
  \A p \in remote :
    p.step = "run" /\ effect[p.run] # "done" /\ p.run < n =>
      \A i \in Runs : command.runs[i] = "install"

\* Without a cut, calls and processes end together and each run cleans up.
Clean ==
  ctx = "live" /\ ~trouble =>
    /\ call \in {"none", "running", "ok", "failed"}
    /\ remote = IF call = "running" THEN {Here} ELSE {}
    /\ \A i \in Runs : i # n => dir[i] # "there"
    /\ \/ at \in {"upload", "write", "run", "read"}
       \/ at = "mktemp" /\ call = "ok"
       \/ at = "remove" /\ call # "ok"
       \/ dir[n] # "there"
    /\ at = "remove" => call # "failed"

IInv == TypeOK /\ Whole /\ Fresh /\ Finished /\ Quiet /\ Clean

----------------------------------------------------------------------------
(* Types.                                                                  *)

LEMMA CommandFacts ==
  ASSUME NEW c \in Commands
  PROVE  /\ c.runs \in Seq(Whats) /\ Len(c.runs) \in Nat \ {0}
         /\ c.kind \in Kinds
         /\ \A i \in 1 .. Len(c.runs) : c.runs[i] \in Whats
         /\ \A i \in 1 .. Len(c.runs) - 1 :
              c.runs[i] = "install" /\ c.runs[i + 1] = "install" =>
                \A j \in 1 .. Len(c.runs) : c.runs[j] = "install"
<1>1. c.runs \in Seq(Whats) /\ c.runs # <<>> /\ c.kind \in Kinds
  BY StagedRunAssumption
<1>2. Len(c.runs) \in Nat \ {0}
  BY <1>1
<1>3. \A i \in 1 .. Len(c.runs) : c.runs[i] \in Whats
  BY <1>1
<1> QED
  BY <1>1, <1>2, <1>3, StagedRunAssumption

LEMMA HereType == ASSUME TypeOK, at # "ended" PROVE Here \in Process
BY DEF TypeOK, Here, Process

\* A process is told by its run and its step.
LEMMA ProcessFacts ==
  ASSUME NEW p \in Process
  PROVE  /\ p = [run |-> p.run, step |-> p.step]
         /\ p.run \in Runs /\ p.step \in Steps
BY DEF Process

LEMMA FollowingType ==
  ASSUME TypeOK
  PROVE  Following(at) \in Steps
BY DEF Following, Steps

LEMMA SeenType ==
  ASSUME TypeOK, NEW p, NEW code \in Answers
  PROVE  Seen(p, code) \in Calls
BY DEF TypeOK, Seen, Answers, Calls

LEMMA TypeIsInductive == TypeOK /\ [Next]_vars => TypeOK'
<1> SUFFICES ASSUME TypeOK, [Next]_vars PROVE TypeOK'
  OBVIOUS
<1>c. command \in Commands /\ Len(command.runs) \in Nat \ {0}
  BY CommandFacts DEF TypeOK
<1>1. CASE Start
  BY <1>1, HereType DEF Start, TypeOK, Calls, Answers, Runs, Process, Here
<1>2. CASE NoDirectory
  <2>1. n' \in Runs
    BY <1>2, <1>c DEF NoDirectory, KeepsGoing, Runs, TypeOK
  <2>2. UNCHANGED <<command, ctx, remote, dir, staged, effect, raw, trouble>>
    BY <1>2 DEF NoDirectory
  <2>3. at' \in Steps \union {"ended"} /\ result' \in {"none", "ok", "error"} /\ call' \in Calls
    BY <1>2 DEF NoDirectory, Answered, TypeOK, Calls
  <2> QED
    BY <2>1, <2>2, <2>3 DEF TypeOK, Runs, Process
<1>3. CASE Proceed
  <2>1. at' \in Steps /\ result' \in {"none", "ok", "error"} /\ call' \in Calls
    BY <1>3, FollowingType DEF Proceed, Answered, TypeOK, Calls
  <2>2. UNCHANGED <<command, ctx, n, remote, dir, staged, effect, raw, trouble>>
    BY <1>3 DEF Proceed
  <2> QED
    BY <2>1, <2>2 DEF TypeOK, Runs, Process
<1>4. CASE GiveUp
  BY <1>4 DEF GiveUp, Answered, TypeOK, Calls, Runs, Process, Steps
<1>5. CASE Return
  <2>1. n' \in Runs
    BY <1>5, <1>c DEF Return, KeepsGoing, Runs, TypeOK
  <2>2. UNCHANGED <<command, ctx, remote, dir, effect, trouble>>
    BY <1>5 DEF Return
  <2>3. /\ at' \in Steps \union {"ended"} /\ result' \in {"none", "ok", "error"}
        /\ call' \in Calls /\ raw' \in Amount /\ staged' \subseteq {"upload", "write"}
    BY <1>5 DEF Return, Answered, TypeOK, Calls, Steps, Amount
  <2> QED
    BY <2>1, <2>2, <2>3 DEF TypeOK, Runs, Process
<1>6. ASSUME NEW p \in remote, Succeed(p) PROVE TypeOK'
  <2>1. p \in Process /\ p.run \in Runs
    BY ProcessFacts DEF TypeOK
  <2>2. call' \in Calls
    BY <1>6, SeenType DEF Succeed, Answers
  <2>3. UNCHANGED <<command, ctx, n, at, result, trouble>> /\ remote' \subseteq remote
    BY <1>6 DEF Succeed
  <2>4. dir' \in [Runs -> {"none", "there", "gone"}]
    BY <1>6, <2>1 DEF Succeed, TypeOK
  <2>5. effect' \in [Runs -> Amount] /\ raw' \in Amount
    BY <1>6, <2>1 DEF Succeed, TypeOK, Amount
  <2>6. staged' \subseteq {"upload", "write"}
    BY <1>6 DEF Succeed, TypeOK
  <2> QED
    BY <2>2, <2>3, <2>4, <2>5, <2>6 DEF TypeOK, Runs, Process
<1>7. ASSUME NEW p \in remote, Fail(p) PROVE TypeOK'
  <2>1. call' \in Calls
    BY <1>7, SeenType DEF Fail, Answers
  <2>2. UNCHANGED <<command, ctx, n, at, dir, staged, effect, raw, result>>
        /\ remote' \subseteq remote /\ trouble' \in BOOLEAN
    BY <1>7 DEF Fail, TypeOK
  <2> QED
    BY <2>1, <2>2 DEF TypeOK, Runs, Process
<1>8. ASSUME NEW p \in remote, Work(p) PROVE TypeOK'
  <2>1. effect' \in [Runs -> Amount]
    BY <1>8, ProcessFacts DEF Work, TypeOK, Amount
  <2> QED
    BY <1>8, <2>1 DEF Work, TypeOK, Runs, Process
<1>9. CASE Expire
  BY <1>9 DEF Expire, TypeOK, Runs, Process
<1>10. CASE Kill
  BY <1>10 DEF Kill, TypeOK, Runs, Process, Calls, Answers
<1>11. CASE Drop
  BY <1>11 DEF Drop, TypeOK, Runs, Process, Calls, Answers
<1>12. CASE UNCHANGED vars
  BY <1>12 DEF vars, TypeOK, Runs, Process
<1> QED
  BY <1>1, <1>2, <1>3, <1>4, <1>5, <1>6, <1>7, <1>8, <1>9, <1>10, <1>11, <1>12
  DEF Next, Caller, Target

----------------------------------------------------------------------------
(* What a process of this command does when it succeeds.                   *)

LEMMA SucceedFacts ==
  ASSUME TypeOK, NEW p \in remote, Succeed(p)
  PROVE  /\ p \in Process /\ remote' = remote \ {p}
         /\ call' = "ok" => call = "ok" \/ (p = Here /\ call = "running")
         /\ p.run = n /\ p.step \in {"upload", "write"} => p.step \in staged'
         /\ staged \subseteq staged'
         /\ \A i \in Runs : effect'[i] = IF i = p.run /\ p.step = "run" THEN "done" ELSE effect[i]
         /\ raw' = IF p.step = "read" THEN effect[p.run] ELSE raw
         /\ \A i \in Runs : dir'[i] = IF i = p.run /\ p.step = "mktemp" THEN "there"
                                      ELSE IF i = p.run /\ p.step = "remove" THEN "gone"
                                      ELSE dir[i]
         /\ UNCHANGED <<command, ctx, n, at, result, trouble>>
<1>1. p \in Process /\ p.run \in Runs
  BY ProcessFacts DEF TypeOK
<1>2. remote' = remote \ {p} /\ UNCHANGED <<command, ctx, n, at, result, trouble>>
  BY DEF Succeed
<1>3. call' = Seen(p, "ok")
  BY DEF Succeed
<1>4. call' = "ok" => call = "ok" \/ (p = Here /\ call = "running")
  BY <1>3 DEF Seen
<1>5. /\ p.run = n /\ p.step \in {"upload", "write"} => p.step \in staged'
      /\ staged \subseteq staged'
  BY DEF Succeed
<1>6. \A i \in Runs : effect'[i] = IF i = p.run /\ p.step = "run" THEN "done" ELSE effect[i]
  BY <1>1 DEF Succeed, TypeOK
<1>7. raw' = IF p.step = "read" THEN effect[p.run] ELSE raw
  BY DEF Succeed
<1>8. \A i \in Runs : dir'[i] = IF i = p.run /\ p.step = "mktemp" THEN "there"
                                ELSE IF i = p.run /\ p.step = "remove" THEN "gone"
                                ELSE dir[i]
  BY <1>1 DEF Succeed, TypeOK
<1> QED
  BY <1>1, <1>2, <1>4, <1>5, <1>6, <1>7, <1>8

LEMMA WorkFacts ==
  ASSUME TypeOK, NEW p \in remote, Work(p)
  PROVE  /\ p \in Process /\ p.step = "run" /\ effect[p.run] # "done"
         /\ \A i \in Runs : i # p.run => effect'[i] = effect[i]
         /\ UNCHANGED <<command, ctx, n, at, call, remote, dir, staged, raw, result, trouble>>
BY ProcessFacts DEF Work, TypeOK

LEMMA FailFacts ==
  ASSUME TypeOK, NEW p \in remote, Fail(p)
  PROVE  /\ p \in Process /\ remote' = remote \ {p}
         /\ call' = "ok" => call = "ok"
         /\ UNCHANGED <<command, ctx, n, at, dir, staged, effect, raw, result>>
BY DEF Fail, Seen, TypeOK

\* The command goes on to its next run only here.
LEMMA NextRunFacts ==
  ASSUME TypeOK, NoDirectory \/ Return
  PROVE  /\ UNCHANGED <<command, ctx, remote, dir, effect, trouble>> /\ call' = "none"
         /\ \/ /\ n' = n /\ at' = "ended" /\ UNCHANGED <<staged, raw>>
               /\ result' = "error" \/ result' = result
            \/ /\ n' = n + 1 /\ n < Len(command.runs) /\ at' = "mktemp"
               /\ at = "remove" => raw' = "none" /\ result' = "none"
               /\ at = "mktemp" => UNCHANGED <<raw, result>>
               /\ (result = "ok" /\ at = "remove") \/ KeepsGoing
<1>1. CASE NoDirectory
  BY <1>1 DEF NoDirectory, Answered, KeepsGoing
<1>2. CASE Return
  BY <1>2 DEF Return, Answered, KeepsGoing
<1> QED
  BY <1>1, <1>2

----------------------------------------------------------------------------
(* Each part of the invariant is kept by every step.                       *)

LEMMA InitInductive == Init => IInv
<1> SUFFICES ASSUME Init PROVE IInv
  OBVIOUS
<1>c. command \in Commands /\ Len(command.runs) \in Nat \ {0}
  BY CommandFacts DEF Init
<1>1. TypeOK
  <2>1. n \in Runs /\ remote \subseteq Process
    BY <1>c DEF Init, Runs
  <2>2. dir \in [Runs -> {"none", "there", "gone"}] /\ effect \in [Runs -> Amount]
    BY DEF Init, Amount
  <2> QED
    BY <1>c, <2>1, <2>2 DEF Init, TypeOK, Steps, Calls, Amount
<1>2. Whole /\ Fresh /\ Finished /\ Quiet /\ Clean
  BY <1>c DEF Init, Whole, Fresh, Finished, Quiet, Clean, RunsOnAWholeStage, OkMeansFinished, Runs
<1> QED
  BY <1>1, <1>2 DEF IInv

LEMMA FreshIsInductive == TypeOK /\ Fresh /\ [Next]_vars => Fresh'
<1> SUFFICES ASSUME TypeOK, Fresh, [Next]_vars PROVE Fresh'
  OBVIOUS
<1>c. n \in Nat /\ Runs \subseteq Nat
  BY CommandFacts DEF TypeOK, Runs
<1>1. CASE Start
  <2>1. UNCHANGED <<command, n, at, effect>> /\ remote' \subseteq remote \union {Here}
    BY <1>1 DEF Start
  <2>2. Here.run = n /\ Here.step = at
    BY DEF Here
  <2> QED
    BY <1>c, <2>1, <2>2 DEF Fresh, Runs
<1>2. CASE NoDirectory \/ Return
  <2>1. CASE n' = n /\ at' = "ended"
    BY <1>2, <2>1, NextRunFacts DEF Fresh, Runs
  <2>2. CASE n' = n + 1
    BY <1>2, <1>c, <2>2, NextRunFacts, ProcessFacts DEF Fresh, Runs, TypeOK
  <2> QED
    BY <1>2, <2>1, <2>2, NextRunFacts
<1>3. CASE Proceed
  <2>1. at' # "mktemp" /\ UNCHANGED <<command, n, remote, effect>>
    BY <1>3 DEF Proceed, Following
  <2> QED
    BY <2>1 DEF Fresh, Runs
<1>4. CASE GiveUp
  BY <1>4 DEF GiveUp, Fresh, Runs
<1>5. ASSUME NEW p \in remote, Succeed(p) PROVE Fresh'
  <2>1. p.step = "run" => p.run <= n /\ ~(p.run = n /\ at = "mktemp")
    BY DEF Fresh
  <2>2. \A i \in Runs : i > n \/ (i = n /\ at = "mktemp") => ~(i = p.run /\ p.step = "run")
    BY <1>c, <2>1, <1>5, SucceedFacts, ProcessFacts
  <2> QED
    BY <1>5, <2>2, SucceedFacts DEF Fresh, Runs
<1>6. ASSUME NEW p \in remote, Fail(p) PROVE Fresh'
  BY <1>6, FailFacts DEF Fresh, Runs
<1>7. ASSUME NEW p \in remote, Work(p) PROVE Fresh'
  <2>1. p.run <= n /\ ~(p.run = n /\ at = "mktemp")
    BY <1>7, WorkFacts DEF Fresh
  <2>2. \A i \in Runs : i > n \/ (i = n /\ at = "mktemp") => i # p.run
    BY <1>c, <2>1, <1>7, WorkFacts, ProcessFacts
  <2> QED
    BY <1>7, <2>2, WorkFacts DEF Fresh, Runs
<1>8. CASE Expire \/ Kill \/ Drop
  <2>1. UNCHANGED <<command, n, at, effect>> /\ remote' \subseteq remote
    BY <1>8 DEF Expire, Kill, Drop
  <2> QED
    BY <2>1 DEF Fresh, Runs
<1>9. CASE UNCHANGED vars
  BY <1>9 DEF vars, Fresh, Runs
<1> QED
  BY <1>1, <1>2, <1>3, <1>4, <1>5, <1>6, <1>7, <1>8, <1>9 DEF Next, Caller, Target

LEMMA WholeIsInductive == TypeOK /\ Fresh /\ Whole /\ [Next]_vars => Whole'
<1> SUFFICES ASSUME TypeOK, Fresh, Whole, [Next]_vars PROVE Whole'
  OBVIOUS
<1>c. n \in Nat /\ n \in Runs /\ Runs \subseteq Nat
  BY CommandFacts DEF TypeOK, Runs
<1>1. CASE Start
  <2>1. /\ UNCHANGED <<command, n, at, staged, effect>>
        /\ remote' \subseteq remote \union {Here} /\ call' # "ok"
    BY <1>1 DEF Start
  <2>2. [run |-> n, step |-> "run"] = Here => at = "run"
    BY DEF Here
  <2> QED
    BY <2>1, <2>2 DEF Whole, RunsOnAWholeStage, Needs, What
<1>2. CASE NoDirectory \/ Return
  <2>1. CASE n' = n /\ at' = "ended"
    BY <1>2, <2>1, NextRunFacts DEF Whole, RunsOnAWholeStage, Needs, What
  <2>2. CASE n' = n + 1
    <3>1. n + 1 \in Runs /\ at' = "mktemp" /\ UNCHANGED <<command, remote, effect>> /\ call' = "none"
      BY <1>2, <1>c, <2>2, NextRunFacts, CommandFacts DEF Runs, TypeOK
    <3>2. [run |-> n + 1, step |-> "run"] \notin remote /\ effect[n + 1] = "none"
      BY <1>c, <3>1 DEF Fresh
    <3> QED
      BY <2>2, <3>1, <3>2 DEF Whole, RunsOnAWholeStage
  <2> QED
    BY <1>2, <2>1, <2>2, NextRunFacts
<1>3. CASE Proceed
  <2>1. /\ UNCHANGED <<command, n, remote, staged, effect>> /\ call' = "none"
        /\ at' = Following(at) /\ Accepts /\ at \notin {"remove", "ended"}
    BY <1>3 DEF Proceed, Answered
  <2>2. at' = "write" /\ What # "install" => at = "upload" /\ call = "ok"
    BY <2>1 DEF Following, Accepts, TypeOK, Steps
  <2>3. at' = "run" => at = "write" /\ call = "ok"
    BY <2>1 DEF Following, Accepts, TypeOK, Steps
  <2>4. at' = "read" => at = "run"
    BY <2>1 DEF Following, TypeOK, Steps
  <2> QED
    BY <2>1, <2>2, <2>3, <2>4 DEF Whole, RunsOnAWholeStage, Needs, What
<1>4. CASE GiveUp
  BY <1>4 DEF GiveUp, Answered, Whole, RunsOnAWholeStage, Needs, What
<1>5. ASSUME NEW p \in remote, Succeed(p) PROVE Whole'
  <2>1. call' = "ok" /\ call # "ok" => p = Here
    BY <1>5, SucceedFacts
  <2>2. p = Here /\ at \in {"upload", "write"} => at \in staged'
    BY <1>5, SucceedFacts DEF Here
  <2>3. effect'[n] # "none" => effect[n] # "none" \/ p = [run |-> n, step |-> "run"]
    BY <1>5, <1>c, SucceedFacts, ProcessFacts
  <2> QED
    BY <1>5, <2>1, <2>2, <2>3, SucceedFacts DEF Whole, RunsOnAWholeStage, Needs, What
<1>6. ASSUME NEW p \in remote, Fail(p) PROVE Whole'
  BY <1>6, FailFacts DEF Whole, RunsOnAWholeStage, Needs, What
<1>7. ASSUME NEW p \in remote, Work(p) PROVE Whole'
  <2>1. effect'[n] # "none" => effect[n] # "none" \/ p = [run |-> n, step |-> "run"]
    BY <1>7, <1>c, WorkFacts, ProcessFacts
  <2> QED
    BY <1>7, <2>1, WorkFacts DEF Whole, RunsOnAWholeStage, Needs, What
<1>8. CASE Expire \/ Kill \/ Drop
  <2>1. /\ UNCHANGED <<command, n, at, staged, effect>> /\ remote' \subseteq remote
        /\ call' = "ok" => call = "ok"
    BY <1>8 DEF Expire, Kill, Drop
  <2> QED
    BY <2>1 DEF Whole, RunsOnAWholeStage, Needs, What
<1>9. CASE UNCHANGED vars
  BY <1>9 DEF vars, Whole, RunsOnAWholeStage, Needs, What
<1> QED
  BY <1>1, <1>2, <1>3, <1>4, <1>5, <1>6, <1>7, <1>8, <1>9 DEF Next, Caller, Target

LEMMA FinishedIsInductive == TypeOK /\ Fresh /\ Finished /\ [Next]_vars => Finished'
<1> SUFFICES ASSUME TypeOK, Fresh, Finished, [Next]_vars PROVE Finished'
  OBVIOUS
<1>c. n \in Nat /\ n \in Runs /\ Runs \subseteq Nat
  BY CommandFacts DEF TypeOK, Runs
<1>1. CASE Start
  <2>1. /\ UNCHANGED <<command, n, at, effect, raw, result>> /\ at # "ended"
        /\ remote' \subseteq remote \union {Here} /\ call' # "ok"
    BY <1>1 DEF Start
  <2>2. Here.run = n /\ Here.step = at
    BY DEF Here
  <2>3. [run |-> n, step |-> "run"] \in remote' /\ result = "ok" =>
          [run |-> n, step |-> "run"] \in remote
    <3>1. result = "ok" => at = "remove"
      BY <2>1 DEF Finished
    <3> QED
      BY <2>1, <2>2, <3>1
  <2> QED
    BY <2>1, <2>2, <2>3 DEF Finished, OkMeansFinished, What
<1>2. CASE NoDirectory \/ Return
  <2>0. call' = "none" /\ UNCHANGED <<command, remote, effect>>
    BY <1>2, NextRunFacts
  <2>1. CASE n' = n /\ at' = "ended"
    <3>1. UNCHANGED raw /\ (result' = "error" \/ result' = result)
      BY <1>2, <1>c, <2>1, NextRunFacts
    <3>2. \A p \in remote : p.step = "read" => result = "error" \/ at = "read"
      BY DEF Finished
    <3>3. at # "read"
      BY <1>2 DEF NoDirectory, Return
    <3> QED
      BY <2>0, <2>1, <3>1, <3>2, <3>3 DEF Finished, OkMeansFinished, What
  <2>2. CASE n' = n + 1
    <3>1. at' = "mktemp" /\ raw' # "done" /\ result' = "none"
      <4>1. at = "mktemp" => result = "none" /\ raw # "done"
        BY <1>c DEF Finished, Fresh
      <4> QED
        BY <1>2, <1>c, <2>2, <4>1, NextRunFacts DEF NoDirectory, Return
    <3>2. \A p \in remote : p.step # "read"
      <4>1. at # "read" /\ (result = "ok" \/ What = "install" \/ result = "none")
        BY <1>2, <1>c, <2>2, NextRunFacts DEF NoDirectory, Return, KeepsGoing
      <4> QED
        BY <4>1 DEF Finished
    <3> QED
      BY <2>0, <2>2, <3>1, <3>2 DEF Finished, OkMeansFinished
  <2> QED
    BY <1>2, <2>1, <2>2, NextRunFacts
<1>3. CASE Proceed
  <2>1. /\ UNCHANGED <<command, n, remote, effect, raw>> /\ call' = "none"
        /\ at' = Following(at) /\ Accepts /\ at \in Steps \ {"remove"} /\ result = "none"
    BY <1>3 DEF Proceed, Answered, TypeOK, Finished
  <2>2. /\ at = "run" /\ What # "audit" => result' = "ok"
        /\ at = "read" => result' = IF raw = "done" THEN "ok" ELSE "error"
        /\ ~(at = "run" /\ What # "audit") /\ at # "read" => result' = "none"
    BY <1>3, <2>1 DEF Proceed
  <2>3. CASE at = "run" /\ What # "audit"
    <3>1. at' = "remove" /\ call = "ok" /\ Here = [run |-> n, step |-> "run"]
      BY <2>1, <2>3 DEF Following, Accepts, Here
    <3> QED
      BY <2>1, <2>2, <2>3, <3>1 DEF Finished, OkMeansFinished, What
  <2>4. CASE at = "read"
    <3>1. at' = "remove" /\ call = "ok" /\ Here = [run |-> n, step |-> "read"]
      BY <2>1, <2>4 DEF Following, Accepts, Here
    <3>2. \A p \in remote : p.step # "read"
      BY <3>1, ProcessFacts DEF Finished, TypeOK
    <3> QED
      BY <2>1, <2>2, <2>4, <3>1, <3>2 DEF Finished, OkMeansFinished, What
  <2>5. CASE ~(at = "run" /\ What # "audit") /\ at # "read"
    <3>1. at' = "read" => What = "audit"
      BY <2>1, <2>5 DEF Following, Steps
    <3>2. result' = "none" /\ (\A p \in remote : p.step # "read")
      BY <2>1, <2>2, <2>5 DEF Finished
    <3> QED
      BY <2>1, <3>1, <3>2 DEF Finished, OkMeansFinished, What
  <2> QED
    BY <2>3, <2>4, <2>5
<1>4. CASE GiveUp
  BY <1>4 DEF GiveUp, Answered, Finished, OkMeansFinished, What
<1>5. ASSUME NEW p \in remote, Succeed(p) PROVE Finished'
  <2>1. /\ UNCHANGED <<command, n, at, result>> /\ remote' = remote \ {p}
        /\ (call' = "ok" => call = "ok" \/ p = Here)
    BY <1>5, SucceedFacts
  <2>2. /\ effect[n] = "done" => effect'[n] = "done"
        /\ p = [run |-> n, step |-> "run"] => effect'[n] = "done"
    BY <1>5, <1>c, SucceedFacts
  <2>3. raw' = "done" => effect[n] = "done"
    BY <1>5, SucceedFacts DEF Finished
  <2>4. result = "ok" => UNCHANGED raw
    BY <1>5, SucceedFacts DEF Finished
  <2> QED
    BY <2>1, <2>2, <2>3, <2>4 DEF Finished, OkMeansFinished, What, Here
<1>6. ASSUME NEW p \in remote, Fail(p) PROVE Finished'
  BY <1>6, FailFacts DEF Finished, OkMeansFinished, What, Here
<1>7. ASSUME NEW p \in remote, Work(p) PROVE Finished'
  <2>1. effect[n] = "done" => effect'[n] = "done"
    BY <1>7, <1>c, WorkFacts
  <2> QED
    BY <1>7, <2>1, WorkFacts DEF Finished, OkMeansFinished, What, Here
<1>8. CASE Expire \/ Kill \/ Drop
  <2>1. /\ UNCHANGED <<command, n, at, effect, raw, result>> /\ remote' \subseteq remote
        /\ call' = "ok" => call = "ok"
    BY <1>8 DEF Expire, Kill, Drop
  <2> QED
    BY <2>1 DEF Finished, OkMeansFinished, What, Here
<1>9. CASE UNCHANGED vars
  BY <1>9 DEF vars, Finished, OkMeansFinished, What, Here
<1> QED
  BY <1>1, <1>2, <1>3, <1>4, <1>5, <1>6, <1>7, <1>8, <1>9 DEF Next, Caller, Target

\* Two installations in a row: the command is install-cinc.
LEMMA KeepsGoingInstalls ==
  ASSUME TypeOK, KeepsGoing
  PROVE  \A i \in Runs : command.runs[i] = "install"
<1>1. n \in 1 .. Len(command.runs) - 1 /\ command.runs[n] = "install" /\ command.runs[n + 1] = "install"
  BY CommandFacts DEF TypeOK, KeepsGoing, What, Runs
<1> QED
  BY <1>1, CommandFacts DEF TypeOK, Runs

LEMMA QuietIsInductive ==
  TypeOK /\ Fresh /\ OkMeansFinished /\ Quiet /\ [Next]_vars => Quiet'
<1> SUFFICES ASSUME TypeOK, Fresh, OkMeansFinished, Quiet, [Next]_vars PROVE Quiet'
  OBVIOUS
<1>c. n \in Nat /\ n \in Runs /\ Runs \subseteq Nat
  BY CommandFacts DEF TypeOK, Runs
<1>1. CASE Start
  <2>1. UNCHANGED <<command, n, effect>> /\ remote' \subseteq remote \union {Here}
    BY <1>1 DEF Start
  <2> QED
    BY <1>c, <2>1 DEF Quiet, Here, Runs
<1>2. CASE NoDirectory \/ Return
  <2>1. CASE n' = n
    BY <1>2, <1>c, <2>1, NextRunFacts DEF Quiet, Runs
  <2>2. CASE n' = n + 1
    <3>0. UNCHANGED <<command, remote, effect>> /\ (result = "ok" \/ KeepsGoing)
      BY <1>2, <1>c, <2>2, NextRunFacts
    <3>1. CASE KeepsGoing
      BY <3>0, <3>1, KeepsGoingInstalls DEF Quiet, Runs
    <3>2. CASE result = "ok"
      <4>1. effect[n] = "done"
        BY <3>2 DEF OkMeansFinished
      <4>2. \A p \in remote : p.run < n + 1 /\ effect[p.run] # "done" => p.run < n
        BY <1>c, <4>1, ProcessFacts DEF TypeOK
      <4> QED
        BY <2>2, <3>0, <4>2 DEF Quiet, Runs
    <3> QED
      BY <3>0, <3>1, <3>2
  <2> QED
    BY <1>2, <2>1, <2>2, NextRunFacts
<1>3. CASE Proceed \/ GiveUp \/ Expire \/ Kill \/ Drop
  <2>1. UNCHANGED <<command, n, effect>> /\ remote' \subseteq remote
    BY <1>3 DEF Proceed, GiveUp, Expire, Kill, Drop
  <2> QED
    BY <2>1 DEF Quiet, Runs
<1>4. ASSUME NEW p \in remote, Succeed(p) PROVE Quiet'
  <2>1. UNCHANGED <<command, n>> /\ remote' \subseteq remote
    BY <1>4, SucceedFacts
  <2>2. \A i \in Runs : effect'[i] # "done" => effect[i] # "done"
    BY <1>4, SucceedFacts
  <2> QED
    BY <2>1, <2>2, ProcessFacts DEF Quiet, Runs, TypeOK
<1>5. ASSUME NEW p \in remote, Fail(p) PROVE Quiet'
  BY <1>5, FailFacts DEF Quiet, Runs
<1>6. ASSUME NEW p \in remote, Work(p) PROVE Quiet'
  <2>1. \A i \in Runs : effect'[i] # "done" => effect[i] # "done"
    BY <1>6, WorkFacts, ProcessFacts
  <2> QED
    BY <1>6, <2>1, WorkFacts, ProcessFacts DEF Quiet, Runs, TypeOK
<1>7. CASE UNCHANGED vars
  BY <1>7 DEF vars, Quiet, Runs
<1> QED
  BY <1>1, <1>2, <1>3, <1>4, <1>5, <1>6, <1>7 DEF Next, Caller, Target

LEMMA CleanIsInductive == TypeOK /\ Clean /\ [Next]_vars => Clean'
<1> SUFFICES ASSUME TypeOK, Clean, [Next]_vars, ctx' = "live", ~trouble'
             PROVE  /\ call' \in {"none", "running", "ok", "failed"}
                    /\ remote' = IF call' = "running" THEN {Here'} ELSE {}
                    /\ \A i \in Runs' : i # n' => dir'[i] # "there"
                    /\ \/ at' \in {"upload", "write", "run", "read"}
                       \/ at' = "mktemp" /\ call' = "ok"
                       \/ at' = "remove" /\ call' # "ok"
                       \/ dir'[n'] # "there"
                    /\ at' = "remove" => call' # "failed"
  BY DEF Clean
<1>c. n \in Nat /\ n \in Runs /\ Runs \subseteq Nat
  BY CommandFacts DEF TypeOK, Runs
<1>d. ctx = "live" /\ ~trouble
  <2>1. CASE Caller
    BY <2>1 DEF Caller, Start, NoDirectory, Proceed, GiveUp, Return
  <2>2. ASSUME NEW p \in remote, Succeed(p) \/ Work(p) PROVE ctx = "live" /\ ~trouble
    BY <2>2 DEF Succeed, Work
  <2>3. ASSUME NEW p \in remote, Fail(p) PROVE ctx = "live" /\ ~trouble
    BY <2>3 DEF Fail
  <2>4. CASE Expire \/ Kill \/ Drop
    BY <2>4 DEF Expire, Kill, Drop
  <2>5. CASE UNCHANGED vars
    BY <2>5 DEF vars
  <2> QED
    BY <2>1, <2>2, <2>3, <2>4, <2>5 DEF Next, Target
<1>e. /\ call \in {"none", "running", "ok", "failed"}
      /\ remote = IF call = "running" THEN {Here} ELSE {}
      /\ \A i \in Runs : i # n => dir[i] # "there"
      /\ \/ at \in {"upload", "write", "run", "read"}
         \/ at = "mktemp" /\ call = "ok"
         \/ at = "remove" /\ call # "ok"
         \/ dir[n] # "there"
      /\ at = "remove" => call # "failed"
  BY <1>d DEF Clean
<1>1. CASE Start
  BY <1>1, <1>d, <1>e DEF Start, Here, Runs
<1>2. CASE NoDirectory \/ Return
  <2>1. UNCHANGED <<command, remote, dir>> /\ call' = "none" /\ call \in Answers
    BY <1>2, NextRunFacts DEF NoDirectory, Return, Answered
  <2>2. remote = {} /\ dir[n] # "there"
    BY <1>2, <1>e, <2>1 DEF NoDirectory, Return, Answers, Accepts
  <2>3. at' \in {"ended", "mktemp"} /\ n' \in Runs
    BY <1>2, <1>c, NextRunFacts, CommandFacts DEF Runs, TypeOK
  <2> QED
    BY <1>c, <1>e, <2>1, <2>2, <2>3 DEF Runs
<1>3. CASE Proceed
  <2>1. /\ UNCHANGED <<command, n, remote, dir>> /\ call' = "none" /\ call \in Answers
        /\ at' = Following(at)
    BY <1>3 DEF Proceed, Answered
  <2>2. at' \in {"upload", "write", "run", "read", "remove"}
    BY <2>1 DEF Following
  <2> QED
    BY <1>e, <2>1, <2>2 DEF Answers, Runs
<1>4. CASE GiveUp
  BY <1>4, <1>e DEF GiveUp, Answered, Answers, Runs
<1>5. ASSUME NEW p \in remote, Succeed(p)
      PROVE  /\ call' \in {"none", "running", "ok", "failed"}
             /\ remote' = IF call' = "running" THEN {Here'} ELSE {}
             /\ \A i \in Runs' : i # n' => dir'[i] # "there"
             /\ \/ at' \in {"upload", "write", "run", "read"}
                \/ at' = "mktemp" /\ call' = "ok"
                \/ at' = "remove" /\ call' # "ok"
                \/ dir'[n'] # "there"
             /\ at' = "remove" => call' # "failed"
  <2>1. p = Here /\ call = "running" /\ remote' = {}
    BY <1>5, <1>e, SucceedFacts
  <2>2. call' = "ok"
    BY <1>5, <2>1 DEF Succeed, Seen
  <2>3. UNCHANGED <<command, n, at>>
    BY <1>5, SucceedFacts
  <2>4. p.run = n /\ p.step = at
    BY <2>1 DEF Here
  <2>5. \A i \in Runs : i # n => dir'[i] # "there"
    BY <1>5, <1>e, <2>4, SucceedFacts
  <2>6. at = "remove" \/ (dir[n] # "there" /\ at # "mktemp") => dir'[n] # "there"
    BY <1>5, <1>c, <2>4, SucceedFacts
  <2>7. at = "ended" => dir'[n] # "there"
    BY <1>e, <2>6
  <2>8. at \in Steps \union {"ended"}
    BY DEF TypeOK
  <2> QED
    BY <2>1, <2>2, <2>3, <2>5, <2>6, <2>7, <2>8 DEF Runs, Steps
<1>6. ASSUME NEW p \in remote, Fail(p)
      PROVE  /\ call' \in {"none", "running", "ok", "failed"}
             /\ remote' = IF call' = "running" THEN {Here'} ELSE {}
             /\ \A i \in Runs' : i # n' => dir'[i] # "there"
             /\ \/ at' \in {"upload", "write", "run", "read"}
                \/ at' = "mktemp" /\ call' = "ok"
                \/ at' = "remove" /\ call' # "ok"
                \/ dir'[n'] # "there"
             /\ at' = "remove" => call' # "failed"
  <2>1. p = Here /\ call = "running" /\ remote' = {}
    BY <1>6, <1>e, FailFacts
  <2>2. call' = "failed"
    BY <1>6, <2>1 DEF Fail, Seen
  <2>3. UNCHANGED <<command, n, at, dir>>
    BY <1>6, FailFacts
  <2>4. at # "remove"
    BY <1>6, <2>1 DEF Fail, Here
  <2> QED
    BY <1>e, <2>1, <2>2, <2>3, <2>4 DEF Runs
<1>7. ASSUME NEW p \in remote, Work(p)
      PROVE  UNCHANGED <<command, n, at, call, remote, dir>>
  BY <1>7, WorkFacts
<1>8. CASE Expire \/ Kill \/ Drop
  BY <1>8, <1>d DEF Expire, Kill, Drop
<1>9. CASE UNCHANGED <<command, n, at, call, remote, dir>>
  BY <1>e, <1>9 DEF Here, Runs
<1>10. UNCHANGED vars => UNCHANGED <<command, n, at, call, remote, dir>>
  BY DEF vars
<1> QED
  BY <1>1, <1>2, <1>3, <1>4, <1>5, <1>6, <1>7, <1>8, <1>9, <1>10 DEF Next, Caller, Target

----------------------------------------------------------------------------

\* All parts of the invariant hold of every command, however it is cut.
THEOREM StagesAreKept == Spec => []IInv
<1>1. IInv /\ [Next]_vars => IInv'
  <2> SUFFICES ASSUME IInv, [Next]_vars PROVE IInv'
    OBVIOUS
  <2>1. TypeOK /\ Whole /\ Fresh /\ Finished /\ OkMeansFinished /\ Quiet /\ Clean
    BY DEF IInv, Finished
  <2>2. TypeOK' /\ Whole' /\ Fresh' /\ Finished'
    BY <2>1, TypeIsInductive, WholeIsInductive, FreshIsInductive, FinishedIsInductive
  <2>3. Quiet' /\ Clean'
    BY <2>1, QuietIsInductive, CleanIsInductive
  <2> QED
    BY <2>2, <2>3 DEF IInv
<1> QED
  BY <1>1, InitInductive, PTL DEF Spec

THEOREM TypeCorrect == Spec => []TypeOK
<1>1. IInv => TypeOK
  BY DEF IInv
<1> QED
  BY <1>1, StagesAreKept, PTL

\* No program ever runs on an incomplete stage.
THEOREM WholeStages == Spec => []RunsOnAWholeStage
<1>1. IInv => RunsOnAWholeStage
  BY DEF IInv, Whole
<1> QED
  BY <1>1, StagesAreKept, PTL

\* Success is never reported of a run that was cut short.
THEOREM SuccessIsReal == Spec => []OkMeansFinished
<1>1. IInv => OkMeansFinished
  BY DEF IInv, Finished
<1> QED
  BY <1>1, StagesAreKept, PTL

\* No audit or converge meets a program of the same command that still works.
THEOREM QuietHost == Spec => []AuditsAQuietHost
<1>1. IInv => AuditsAQuietHost
  <2> SUFFICES ASSUME IInv,
                      NEW p \in remote, p.step = "run", effect[p.run] # "done",
                      NEW q \in remote, p.run < q.run
               PROVE  command.runs[q.run] = "install"
    BY DEF AuditsAQuietHost
  <2>1. p.run \in Nat /\ q.run \in Nat /\ n \in Nat /\ q.run \in Runs /\ q.run <= n
    BY CommandFacts, ProcessFacts DEF IInv, TypeOK, Runs, Fresh
  <2>2. p.run < n
    BY <2>1
  <2> QED
    BY <2>1, <2>2 DEF IInv, Quiet
<1> QED
  BY <1>1, StagesAreKept, PTL

\* A command that was not cut removes every directory it made.
THEOREM NothingStays == Spec => []CleanUnlessCut
<1>1. IInv => CleanUnlessCut
  BY DEF IInv, Clean, CleanUnlessCut
<1> QED
  BY <1>1, StagesAreKept, PTL
=============================================================================
