----------------------------- MODULE EngineRun ------------------------------
(***************************************************************************)
(* One run of a program whose output is read while it runs: the engine on  *)
(* this machine (engine.Exec), in a container (engine.Docker.Exec), or the *)
(* Chef client (target.Run).  Its context may end at any moment.           *)
(*                                                                         *)
(* The engine in a container is two processes: the docker client, started  *)
(* here, and the container, which the daemon creates later and which does  *)
(* not die with its client.                                                *)
(***************************************************************************)
EXTENDS Naturals, Sequences

Modes   == {"native", "docker", "chef"}
Amounts == {"none", "partial", "whole"}

VARIABLES
  mode,       \* how the program runs
  ctx,        \* "live", or "done" after --timeout or a signal
  exec,       \* where Exec is
  client,     \* the process started here: "none", "running", "exited"
  container,  \* in docker mode: "none", "running", "gone"
  code,       \* how the program ended: "none", "ok", "failed"
  todo,       \* the output that is still to come
  report,     \* the report file
  result      \* what Exec, and then the parser of the report, return

engine == <<mode, ctx, exec, client, container, code, todo, report, result>>

Waits == {"waiting", "removing", "draining"}
Execs == {"before", "flush", "returned"} \union Waits

\* The program is at work.
Alive == IF mode = "docker" THEN container = "running" ELSE client = "running"

----------------------------------------------------------------------------
(* Exec.                                                                   *)

\* Nothing is started under a context that has ended, except the docker client,
\* which is not bound to it.
StartExec ==
  /\ exec = "before"
  /\ \/ (mode = "docker" \/ ctx = "live") /\ client' = "running" /\ exec' = "waiting" /\ UNCHANGED result
     \/ result' = "error" /\ exec' = "returned" /\ UNCHANGED client
  /\ UNCHANGED <<mode, ctx, container, code, todo, report>>

\* Wait returns after the last of the output was handled (handled).
WaitReturns(handled) ==
  /\ exec = "waiting" /\ client = "exited" /\ handled
  /\ exec' = "flush"
  /\ UNCHANGED <<mode, ctx, client, container, code, todo, report, result>>

\* Without a report the engine failed; a report that is not whole is no JSON.
\* The exit code only counts when there is no report.
ResultOf == CASE mode = "chef"     -> IF code = "ok" THEN "ok" ELSE "error"
              [] report = "whole"  -> "ok"
              [] OTHER             -> "error"

Return ==
  /\ exec = "flush"
  /\ result' = ResultOf /\ exec' = "returned"
  /\ UNCHANGED <<mode, ctx, client, container, code, todo, report>>

\* The native engine and the local client of a transport die with the context.
Kill ==
  /\ mode # "docker" /\ ctx = "done" /\ client = "running"
  /\ client' = "exited" /\ code' = "failed" /\ todo' = <<>>
  /\ UNCHANGED <<mode, ctx, exec, container, report, result>>

\* "Killing the docker CLI does not stop the container: remove it."
Abandon ==
  /\ mode = "docker" /\ exec = "waiting" /\ ctx = "done"
  /\ exec' = "removing"
  /\ UNCHANGED <<mode, ctx, client, container, code, todo, report, result>>

\* docker rm -f: it finds nothing before the daemon has created the container.
RemoveContainer ==
  /\ exec = "removing"
  /\ exec' = "draining"
  /\ IF container = "running"
       THEN container' = "gone" /\ code' = "failed" /\ todo' = <<>>
       ELSE UNCHANGED <<container, code, todo>>
  /\ UNCHANGED <<mode, ctx, client, report, result>>

\* Mutant: the client is not waited for.
DrainedAtOnce(handled) ==
  /\ exec = "draining" /\ handled
  /\ exec' = "returned" /\ result' = "error"
  /\ UNCHANGED <<mode, ctx, client, container, code, todo, report>>

\* Then the client is waited for, however long it stays.
Drained(handled) ==
  /\ exec = "draining" /\ client = "exited" /\ handled
  /\ exec' = "returned" /\ result' = "error"
  /\ UNCHANGED <<mode, ctx, client, container, code, todo, report>>

Expire ==
  /\ ctx = "live"
  /\ ctx' = "done"
  /\ UNCHANGED <<mode, exec, client, container, code, todo, report, result>>

----------------------------------------------------------------------------
(* The processes.                                                          *)

\* The daemon creates the container, or cannot.
Create ==
  /\ mode = "docker" /\ client = "running" /\ container = "none"
  /\ \/ container' = "running" /\ UNCHANGED <<client, code, todo>>
     \/ client' = "exited" /\ code' = "failed" /\ todo' = <<>> /\ UNCHANGED container
  /\ UNCHANGED <<mode, ctx, exec, report, result>>

\* A client that is attached ends after its container, never before.
ClientExits ==
  /\ mode = "docker" /\ client = "running" /\ container = "gone"
  /\ client' = "exited"
  /\ UNCHANGED <<mode, ctx, exec, container, code, todo, report, result>>

\* The program writes its report after its last line of output.
WriteReport ==
  /\ Alive /\ mode # "chef" /\ todo = <<>> /\ report # "whole"
  /\ \E amount \in {"partial", "whole"} : report' = amount
  /\ UNCHANGED <<mode, ctx, exec, client, container, code, todo, result>>

\* The program ends: well, with everything written, or anywhere.
ProgramEnds ==
  /\ Alive
  /\ \/ code' = "ok" /\ todo = <<>> /\ (mode # "chef" => report = "whole")
     \/ code' = "failed"
  /\ todo' = <<>>
  /\ IF mode = "docker" THEN container' = "gone" /\ UNCHANGED client
                        ELSE client' = "exited" /\ UNCHANGED container
  /\ UNCHANGED <<mode, ctx, exec, report, result>>

\* The first n of what is still to come is read.
Output(n) ==
  /\ Alive /\ n \in 1 .. Len(todo)
  /\ todo' = SubSeq(todo, n + 1, Len(todo))
  /\ UNCHANGED <<mode, ctx, exec, client, container, code, report, result>>

EngineTypeOK ==
  /\ mode \in Modes /\ ctx \in {"live", "done"} /\ exec \in Execs
  /\ client \in {"none", "running", "exited"} /\ container \in {"none", "running", "gone"}
  /\ code \in {"none", "ok", "failed"} /\ report \in Amounts
  /\ result \in {"none", "ok", "error"}
=============================================================================
