------------------------------ MODULE LiveRun -------------------------------
(***************************************************************************)
(* A scan (cli.scanLive) or a converge (cli.chefView) with its progress on *)
(* the terminal: the main goroutine goes through its phases, runs the      *)
(* program and cleans up, a writer turns the program's output into what a  *)
(* view counts, and the ticker of the live region draws the view.          *)
(***************************************************************************)
EXTENDS LiveRegion, EngineRun, ProgressStream, ConvergeOutput, FiniteSets

CONSTANT Commands  \* the commands explored

\* A scan has phases; the last is the audit.  The output of an engine is the
\* stream of its progress bar, that of the Chef client a sequence of lines.
ASSUME LiveRunAssumption ==
  \A c \in Commands :
    /\ c.tty \in BOOLEAN /\ c.mode \in Modes /\ c.phases \in Seq(STRING)
    /\ c.mode = "chef" <=> c.phases = <<>>
    /\ c.stream \in Seq(IF c.mode = "chef" THEN Lines ELSE Symbols)

VARIABLES
  command,  \* the command
  pc,       \* where the main goroutine is
  phase,    \* the phase of the scan it is in
  reader,   \* the ProgressWriter of a scan
  due,      \* what of the output is read and not yet in the view
  tally,    \* what the view of a scan shows
  chef      \* what the view of a converge shows

view == <<reader, due, tally, chef>>
own  == <<command, pc, phase, view>>
vars == <<region, engine, own>>

Converge == mode = "chef"

NoTally == [done |-> 0, passed |-> 0, failed |-> 0, skipped |-> 0, errors |-> 0]

\* The lines of a frame: the head, then the progress, then up to three results.
Results == tally.passed + tally.failed + tally.skipped + tally.errors

FrameLines ==
  IF Converge THEN (IF chef.total > 0 THEN 2 ELSE 1)
  ELSE 1 + (IF tally.done = 0 THEN 0 ELSE 1 + (IF Results < 3 THEN Results ELSE 3))

----------------------------------------------------------------------------
(* The main goroutine.                                                     *)

Begin ==
  /\ pc = "start" /\ ~Converge
  /\ IF command.tty THEN Start ELSE UNCHANGED region
  /\ pc' = "phases"
  /\ UNCHANGED <<engine, command, phase, view>>

\* What a phase prints: the one before ticked off above the region and a
\* redraw, or off a terminal its own name.
PhaseLines(i) ==
  IF ~command.tty THEN <<<<command.phases[i]>>>>
  ELSE IF i = 1   THEN <<Redraw>>
  ELSE <<<<command.phases[i - 1]>>, Redraw>>

NextPhase ==
  /\ pc = "phases" /\ Idle("main") /\ phase < Len(command.phases)
  /\ viewer = "none"
  /\ phase' = phase + 1
  /\ calls' = [calls EXCEPT !["main"] = PhaseLines(phase + 1)]
  /\ UNCHANGED <<width, narrowed, screen, running, stop, ticker, holder, viewer>>
  /\ UNCHANGED <<engine, command, pc, view>>

\* The engine is missing, the target cannot be reached, the context ended.
PhaseFails ==
  /\ pc = "phases" /\ Idle("main") /\ phase < Len(command.phases)
  /\ pc' = "finish" /\ result' = "error"
  /\ UNCHANGED <<region, mode, ctx, exec, client, container, code, todo, report>>
  /\ UNCHANGED <<command, phase, view>>

Audit ==
  /\ pc = "phases" /\ Idle("main") /\ phase = Len(command.phases)
  /\ StartExec /\ pc' = "exec"
  /\ UNCHANGED <<region, command, phase, view>>

\* A converge shows its region from the moment the Chef client starts ...
BeginConverge ==
  /\ pc = "start" /\ Converge
  /\ IF command.tty THEN Start ELSE UNCHANGED region
  /\ StartExec /\ pc' = "exec"
  /\ UNCHANGED <<command, phase, view>>

\* ... or never, when the staging failed.
StagingFails ==
  /\ pc = "start" /\ Converge
  /\ pc' = "finish" /\ result' = "error"
  /\ UNCHANGED <<region, mode, ctx, exec, client, container, code, todo, report>>
  /\ UNCHANGED <<command, phase, view>>

\* Everything that was read is in the view.
Handled == due = <<>> /\ viewer = "none" /\ Idle("writer")

Waited == (WaitReturns(Handled) \/ Drained(Handled)) /\ UNCHANGED <<region, own>>

Abandoned == (Abandon \/ RemoveContainer) /\ UNCHANGED <<region, own>>

\* The last line may have no end.
FlushOutput ==
  /\ exec = "flush" /\ reader.buf # <<>>
  /\ reader' = Flush(reader)
  /\ due' = SubSeq(reader'.events, Len(reader.events) + 1, Len(reader'.events))
  /\ UNCHANGED <<region, engine, command, pc, phase, tally, chef>>

Returned ==
  /\ reader.buf = <<>> /\ Handled
  /\ Return
  /\ UNCHANGED <<region, own>>

\* The resource that a converge ended with.
Over ==
  /\ pc = "exec" /\ exec = "returned"
  /\ pc' = "finish"
  /\ chef' = FinishRes([chef EXCEPT !.cur = NoResource], chef.cur)
  /\ calls' = [calls EXCEPT !["main"] = IF Changed(chef.cur) THEN <<<<chef.cur.name>>>> ELSE <<>>]
  /\ UNCHANGED <<width, narrowed, screen, running, stop, ticker, holder, viewer>>
  /\ UNCHANGED <<engine, command, phase, reader, due, tally>>

Finish ==
  /\ pc = "finish" /\ Idle("main")
  /\ IF running THEN Stop /\ pc' = "stopping" ELSE pc' = "summary" /\ UNCHANGED region
  /\ UNCHANGED <<engine, command, phase, view>>

Clean ==
  /\ pc = "stopping" /\ Stopped /\ pc' = "summary"
  /\ UNCHANGED <<engine, command, phase, view>>

\* One line, after a converge that failed the end of its output.
Summary ==
  /\ pc = "summary"
  /\ pc' = "ended"
  /\ printed' = IF result = "ok" \/ Converge THEN Append(printed, "summary") ELSE printed
  /\ UNCHANGED <<width, narrowed, cursor, painted, junk, running, stop, ticker, holder, viewer, calls>>
  /\ UNCHANGED <<engine, command, phase, view>>

----------------------------------------------------------------------------
(* The writer.                                                             *)

\* It reads some of the output, of any length; a converge is read by lines.
Read ==
  /\ Handled
  /\ \E n \in 1 .. IF Converge THEN 1 ELSE Len(todo) :
       /\ Output(n)
       /\ IF Converge
            THEN due' = <<todo[1]>> /\ UNCHANGED reader
            ELSE /\ reader' = Write(reader, SubSeq(todo, 1, n))
                 /\ due' = SubSeq(reader'.events, Len(reader.events) + 1, Len(reader'.events))
  /\ UNCHANGED <<region, command, pc, phase, tally, chef>>

\* Who reads: the writer, or at the end the main goroutine in Flush.
Deliverer == IF exec = "flush" THEN "main" ELSE "writer"

Counted(t, e) ==
  LET class == CASE e.status \in {"passed", "failed"}   -> e.status
                 [] e.status \in {"skipped", "waived"}  -> "skipped"
                 [] OTHER                               -> "errors"
  IN IF e.id = "" THEN [t EXCEPT !.done = e.done]
     ELSE [t EXCEPT !.done = e.done, ![class] = @ + 1]

\* An event takes the lock of the view ...
TakeView ==
  /\ ~Converge /\ due # <<>> /\ viewer = "none"
  /\ viewer' = Deliverer
  /\ UNCHANGED <<width, narrowed, screen, running, stop, ticker, holder, calls>>
  /\ UNCHANGED <<engine, own>>

\* Mutant: an event redraws the region before it gives the lock back.
CountRedrawing ==
  /\ ~Converge /\ viewer \in {"main", "writer"} /\ holder = "none"
  /\ tally' = Counted(tally, Head(due)) /\ due' = Tail(due)
  /\ holder' = viewer /\ calls' = [calls EXCEPT ![viewer] = <<Redraw>>]
  /\ UNCHANGED <<width, narrowed, screen, running, stop, ticker, viewer>>
  /\ UNCHANGED <<engine, command, pc, phase, reader, chef>>

\* ... counts, and gives it back; the ticker will draw it.
CountEvent ==
  /\ ~Converge /\ viewer \in {"main", "writer"}
  /\ tally' = Counted(tally, Head(due)) /\ due' = Tail(due)
  /\ viewer' = "none"
  /\ UNCHANGED <<width, narrowed, screen, running, stop, ticker, holder, calls>>
  /\ UNCHANGED <<engine, command, pc, phase, reader, chef>>

\* A line of a converge; what it ended is printed without the lock of the view.
ReadLine ==
  /\ Converge /\ due # <<>> /\ viewer = "none"
  /\ LET line == Head(due)
         r    == Ended(chef, line)
         said == (IF Changed(r) THEN <<r.name>> ELSE <<>>) \o Notes(line)
     IN /\ chef' = FinishRes(OneLine(chef, line), r)
        /\ calls' = [calls EXCEPT !["writer"] = [i \in 1 .. Len(said) |-> <<said[i]>>]]
  /\ due' = <<>>
  /\ UNCHANGED <<width, narrowed, screen, running, stop, ticker, holder, viewer>>
  /\ UNCHANGED <<engine, command, pc, phase, reader, tally>>

----------------------------------------------------------------------------

Printing(a) ==
  (Enter(a) \/ Leave(a, FrameLines) \/ PrintPlain(a)) /\ UNCHANGED <<engine, own>>

Ticking == (Tick \/ TickerStops) /\ UNCHANGED <<engine, own>>

Main == \/ Begin \/ NextPhase \/ PhaseFails \/ Audit \/ BeginConverge \/ StagingFails
        \/ Waited \/ Abandoned \/ FlushOutput \/ Returned \/ Over \/ Finish \/ Clean \/ Summary

Program == (Create \/ ClientExits \/ WriteReport \/ ProgramEnds) /\ UNCHANGED <<region, own>>

Ends == (Expire \/ Kill) /\ UNCHANGED <<region, own>>

Resizes == \E w \in Widths : Resize(w) /\ UNCHANGED <<engine, own>>

Next ==
  \/ Main \/ Program \/ Ends \/ Resizes
  \/ Read \/ TakeView \/ CountEvent \/ ReadLine
  \/ Ticking \/ \E a \in Actors : Printing(a)

Init ==
  /\ InitRegion
  /\ command \in Commands
  /\ mode = command.mode /\ ctx = "live" /\ exec = "before" /\ client = "none"
  /\ container = "none" /\ code = "none" /\ todo = command.stream
  /\ report = "none" /\ result = "none"
  /\ pc = "start" /\ phase = 0
  /\ reader = Empty /\ due = <<>> /\ tally = NoTally /\ chef = EmptyView

Spec == Init /\ [][Next]_vars

\* Goroutines are scheduled, a sync.Mutex starves nobody (SF), select chooses at
\* random among what is ready (SF for the stop of the ticker), the timer fires,
\* the daemon answers.  Nothing is assumed of the program itself.
FairSpec ==
  /\ Spec
  /\ WF_vars(Main) /\ WF_vars(Ends)
  /\ WF_vars(TakeView \/ CountEvent \/ ReadLine)
  /\ WF_vars((Create \/ ClientExits) /\ UNCHANGED <<region, own>>)
  /\ SF_vars(TickerStops /\ UNCHANGED <<engine, own>>)
  /\ \A a \in Actors : SF_vars(Printing(a))

----------------------------------------------------------------------------

TypeOK ==
  /\ RegionTypeOK /\ EngineTypeOK /\ command \in Commands
  /\ pc \in {"start", "phases", "exec", "finish", "stopping", "summary", "ended"}
  /\ phase \in 0 .. Len(command.phases)
  /\ Len(reader.buf) <= MaxBuffer
  /\ tally \in [DOMAIN NoTally -> Nat]

\* The lines that a scan leaves on the screen.
ScanLines ==
  LET ticked == IF command.tty /\ phase > 0 THEN phase - 1 ELSE phase
  IN SubSeq(command.phases, 1, ticked) \o IF result = "ok" THEN <<"summary">> ELSE <<>>

\* Whoever drew last, and however the run ended, the terminal is given back as
\* it was: the cursor shown, no row of a frame left over (unless the terminal
\* became too narrow), no draw after the end, every line kept and in order.
ScreenRestored ==
  /\ ~narrowed => junk = 0
  /\ pc = "ended" => /\ cursor = "shown" /\ painted = NoFrame /\ ~running
                     /\ ~Converge => printed = ScanLines

\* The lines say what changed, once each and in order, and nothing else but notes.
Listed(said, changed, lines) ==
  \E at \in [changed -> DOMAIN said] :
    /\ \A i, j \in changed : i < j => at[i] < at[j]
    /\ \A i \in changed : said[at[i]] = lines[i].name
    /\ \A p \in DOMAIN said : (\A i \in changed : at[i] # p) => said[p] \in {"note", "summary"}

\* The counts of a run that succeeded are those of its whole output, however it
\* was cut into pieces: each result once, each changed resource once and
\* printed once.
CountsAreRight ==
  pc = "ended" /\ result = "ok" =>
    IF Converge
      THEN /\ chef.seen = chef.updated + chef.upToDate + chef.skipped
           /\ chef.updated = Cardinality(ChangedIn(command.stream))
           /\ Listed(printed, ChangedIn(command.stream), command.stream)
      ELSE tally = FoldLeft(Counted, NoTally, Whole(command.stream).events)

\* When Exec has returned nothing of the run is left at work, in particular no
\* container, and a result is that of a whole report.
ReturnedMeansOver ==
  exec = "returned" =>
    /\ client # "running" /\ container # "running"
    /\ result = "ok" /\ ~Converge => report = "whole"

\* A command ends after its timeout, unless the docker client was abandoned
\* before its container existed and that container goes on.
EndsUnlessLate ==
  <>(pc = "ended") \/ <>[](exec = "draining" /\ container = "running")

\* --timeout: "abort the audit after this long".
EndsAfterTimeout == <>(pc = "ended")
=============================================================================
