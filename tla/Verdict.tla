------------------------------ MODULE Verdict ------------------------------
(***************************************************************************)
(* How the assertions of one control become its qualified verdict          *)
(* (internal/verdict).  The engine reports assertions one at a time; each  *)
(* becomes a piece of evidence with a kind and a status and is added to    *)
(* the counters of Classify.  CurrentVerdict is what Classify returns when *)
(* the evidence stops there.                                               *)
(***************************************************************************)
EXTENDS Naturals

CONSTANTS
  Declared,      \* evidence types the catalog may declare for the control
  MaxResults     \* bound on the assertions reported for one control

\* "" is a control without a declared type.
ASSUME VerdictAssumption ==
  /\ Declared \subseteq {"", "runtime", "config", "inventory", "filesystem", "transient"}
  /\ MaxResults \in Nat

VARIABLES
  declared,  \* evidence type of the unprefixed assertions of the control
  waiver,    \* the waiver entry the engine attached to the control
  tally,     \* the counters of Classify
  seen       \* the evidence reported so far (history, read by properties only)

vars == <<declared, waiver, tally, seen>>

Kinds == {"runtime", "persistent", "config", "inventory", "filesystem", "transient"}
Statuses == {"passed", "failed", "skipped", "error"}

\* An engine result: how its property is named, and what the engine said.
\* "unset" is a failure whose message says that the live value does not exist,
\* "resourceSkipped" a failure raised by a ResourceSkipped exception,
\* "exception" any other exception or a control source error.
Names == {"runtime", "persistent", "effective"}
Outcomes == {"passed", "failed", "unset", "skipped", "resourceSkipped", "exception"}

Evidence == [kind: Kinds, status: Statuses, unset: BOOLEAN]

KindOf(name, decl) ==
  IF name # "effective" THEN name ELSE IF decl = "" THEN "config" ELSE decl

StatusOf(outcome) ==
  CASE outcome \in {"skipped", "resourceSkipped"} -> "skipped"
    [] outcome = "exception"                      -> "error"
    [] outcome \in {"failed", "unset"}            -> "failed"
    [] OTHER                                      -> "passed"

EvidenceOf(name, outcome, decl) ==
  [kind |-> KindOf(name, decl), status |-> StatusOf(outcome), unset |-> outcome = "unset"]

ReadsNow(kind)  == kind # "persistent"
ReadsDisk(kind) == kind \notin {"runtime", "transient"}

----------------------------------------------------------------------------
(* Waivers: an expired one is ignored, and so is one that changed nothing. *)

Waivers == [present: BOOLEAN, expired: BOOLEAN, skipped: BOOLEAN, run: BOOLEAN]

WaiverActive(w) == w.present /\ ~w.expired /\ (w.skipped \/ w.run)

----------------------------------------------------------------------------
(* The counters of Classify.                                               *)

Counters == [errs: Nat, run: Nat, nowPass: Nat, nowFail: Nat, diskPass: Nat,
             diskFail: Nat, rtFail: Nat, otherFail: Nat, pCount: Nat,
             rtAbsent: Nat, skipped: Nat, transientOnly: BOOLEAN]

NoEvidence == [errs |-> 0, run |-> 0, nowPass |-> 0, nowFail |-> 0, diskPass |-> 0,
               diskFail |-> 0, rtFail |-> 0, otherFail |-> 0, pCount |-> 0,
               rtAbsent |-> 0, skipped |-> 0, transientOnly |-> TRUE]

Bit(b) == IF b THEN 1 ELSE 0

\* An assertion that ran is counted in every column it fills.
CountRun(t, e) ==
  LET failed == e.status = "failed"
      now    == ReadsNow(e.kind)
      disk   == ReadsDisk(e.kind)
  IN [errs          |-> t.errs,
      skipped       |-> t.skipped,
      run           |-> t.run + 1,
      nowPass       |-> t.nowPass + Bit(now /\ ~failed),
      nowFail       |-> t.nowFail + Bit(now /\ failed),
      diskPass      |-> t.diskPass + Bit(disk /\ ~failed),
      diskFail      |-> t.diskFail + Bit(disk /\ failed),
      rtFail        |-> t.rtFail + Bit(failed /\ e.kind = "runtime"),
      rtAbsent      |-> t.rtAbsent + Bit(failed /\ e.kind = "runtime" /\ e.unset),
      otherFail     |-> t.otherFail + Bit(failed /\ e.kind \notin {"runtime", "persistent"}),
      pCount        |-> t.pCount + Bit(e.kind = "persistent"),
      transientOnly |-> t.transientOnly /\ e.kind = "transient"]

Column(pass, fail) ==
  IF fail > 0 THEN "failed" ELSE IF pass > 0 THEN "proven" ELSE "not_measured"

NowColumn(t)  == Column(t.nowPass, t.nowFail)
DiskColumn(t) == Column(t.diskPass, t.diskFail)
RebootColumn(t) ==
  CASE DiskColumn(t) = "failed" -> "failed"
    [] DiskColumn(t) = "proven" -> "expected"
    [] DiskColumn(t) = "not_measured" /\ t.transientOnly -> "n/a"
    [] OTHER -> "not_measured"

\* Mutant: a live value that does not exist would no longer rule pending out.
IsPendingAbsent(t) ==
  t.otherFail = 0 /\ t.rtFail = t.nowFail /\ t.pCount > 0 /\ DiskColumn(t) = "proven"

IsPending(t) ==
  /\ t.otherFail = 0
  /\ t.rtFail = t.nowFail
  /\ t.rtAbsent = 0
  /\ t.pCount > 0
  /\ DiskColumn(t) = "proven"

\* Mutant: errors looked at after the failures, and only when nothing ran.
ClassifyErrorsLate(w, t) ==
  IF WaiverActive(w)    THEN <<"waived", "">>
  ELSE IF t.nowFail > 0 THEN <<"fail", IF IsPending(t) THEN "pending" ELSE "">>
  ELSE IF t.run > 0     THEN <<"pass", "durable">>
  ELSE IF t.errs > 0    THEN <<"error", "">>
  ELSE <<"skip", "">>

\* The verdict, as the final switch of Classify orders its cases.
Classify(w, t) ==
  IF WaiverActive(w)    THEN <<"waived", "">>
  ELSE IF t.errs > 0    THEN <<"error", "">>
  ELSE IF t.run = 0     THEN <<"skip", "">>
  ELSE IF t.nowFail > 0 THEN <<"fail", IF IsPending(t) THEN "pending" ELSE "">>
  ELSE IF NowColumn(t) = "not_measured" /\ DiskColumn(t) = "failed" THEN <<"fail", "">>
  ELSE IF RebootColumn(t) \in {"failed", "not_measured"} THEN <<"pass", "runtime-only">>
  ELSE <<"pass", "durable">>

CurrentVerdict == Classify(waiver, tally)

----------------------------------------------------------------------------

TypeOK ==
  /\ declared \in Declared
  /\ waiver \in Waivers
  /\ tally \in Counters
  /\ seen \subseteq Evidence

Init ==
  /\ declared \in Declared
  /\ waiver \in {w \in Waivers : w.present \/ ~(w.expired \/ w.skipped \/ w.run)}
  /\ tally = NoEvidence
  /\ seen = {}

Reported == tally.run + tally.skipped + tally.errs

Report(name, outcome) ==
  LET e == EvidenceOf(name, outcome, declared)
  IN /\ Reported < MaxResults
     /\ tally' = CASE e.status = "skipped" -> [tally EXCEPT !.skipped = @ + 1]
                   [] e.status = "error"   -> [tally EXCEPT !.errs = @ + 1]
                   [] OTHER                -> CountRun(tally, e)
     /\ seen' = seen \union {e}
     /\ UNCHANGED <<declared, waiver>>

Next == \E name \in Names, outcome \in Outcomes : Report(name, outcome)

Spec == Init /\ [][Next]_vars

----------------------------------------------------------------------------
(* What docs/SCORING.md promises of a verdict, stated on the evidence      *)
(* itself instead of on the counters.                                      *)

Ran        == {e \in seen : e.status \in {"passed", "failed"}}
LiveSide   == {e \in Ran : e.kind # "persistent"}
DiskSide   == {e \in Ran : e.kind \notin {"runtime", "transient"}}
Failed(S)  == \E e \in S : e.status = "failed"

OnlyLiveIsWrong ==
  /\ \A e \in Ran : e.status = "failed" => e.kind = "runtime" /\ ~e.unset
  /\ \E e \in Ran : e.kind = "persistent"

Documented ==
  CASE WaiverActive(waiver)                  -> <<"waived", "">>
    [] ~WaiverActive(waiver) /\ (\E e \in seen : e.status = "error") -> <<"error", "">>
    [] ~WaiverActive(waiver) /\ (\A e \in seen : e.status = "skipped") -> <<"skip", "">>
    [] OTHER ->
         IF Failed(LiveSide)
           THEN <<"fail", IF OnlyLiveIsWrong THEN "pending" ELSE "">>
         ELSE IF LiveSide = {} /\ Failed(DiskSide) THEN <<"fail", "">>
         ELSE IF Failed(DiskSide) THEN <<"pass", "runtime-only">>
         ELSE IF DiskSide = {} /\ (\E e \in Ran : e.kind # "transient")
           THEN <<"pass", "runtime-only">>
         ELSE <<"pass", "durable">>

\* The counters never lose what the evidence says: whatever the order and the
\* number of the assertions, Classify returns the verdict that the tables of
\* docs/SCORING.md give for that evidence (fail closed on any error, pending
\* only when every failure is a live value that exists, runtime-only whenever
\* the disk contradicts the pass or says nothing).
VerdictMatchesEvidence == CurrentVerdict = Documented

\* A pass that a later assertion of the same control contradicts does not
\* survive: once a live-side assertion failed, no further result makes the
\* control pass, and once one could not be evaluated, the verdict is error.
FailClosed ==
  [][ /\ CurrentVerdict[1] = "error" => CurrentVerdict'[1] = "error"
      /\ (CurrentVerdict[1] = "fail" /\ Failed(LiveSide))
           => CurrentVerdict'[1] \in {"fail", "error"} ]_vars

=============================================================================
