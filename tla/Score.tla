------------------------------- MODULE Score -------------------------------
(***************************************************************************)
(* The published grade (internal/score/score.go, and its JavaScript twin   *)
(* internal/report/assets/score.js) of any report, and of the reports it   *)
(* becomes when a control fails, is hardened or does not survive a reboot. *)
(*                                                                         *)
(* The formula sees how many controls of each severity came out how, so a  *)
(* report is a count per severity and result, taken control by control.    *)
(***************************************************************************)
EXTENDS Integers

CONSTANT MaxControls   \* how many controls a report evaluates at most

ASSUME ScoreAssumption == MaxControls \in Nat

VARIABLE n   \* n[severity][result]: how many evaluated controls

Severities == {"critical", "high", "medium", "low", "info"}

\* Errors count as failures.  "fixable-..." has an automatic remediation; a skipped
\* or waived control is not counted at all.
Passes   == {"durable", "runtime-only", "fixable-runtime"}
Failures == {"fail", "fixable-fail", "pending"}
Results  == Passes \union Failures

Reports == [Severities -> [Results -> Nat]]

----------------------------------------------------------------------------
(* The formula.                                                            *)

Weighted(m, r) == 10 * m["critical"][r] + 5 * m["high"][r] + 3 * m["medium"][r] + m["low"][r]

RuntimeOnly(m) == Weighted(m, "runtime-only") + Weighted(m, "fixable-runtime")
Earned(m)      == Weighted(m, "durable") + RuntimeOnly(m)
Possible(m)    == Earned(m) + Weighted(m, "fail") + Weighted(m, "fixable-fail")
                            + Weighted(m, "pending")

CriticalFails(m)    == \E r \in Failures : m["critical"][r] > 0
CriticalUnproven(m) == m["critical"]["runtime-only"] + m["critical"]["fixable-runtime"] > 0
AnyUnproven(m)      ==
  \E s \in Severities : m[s]["runtime-only"] + m[s]["fixable-runtime"] > 0

\* In tenths of a point: Math.round of a value that is never negative.
Round(earned, possible) == (2000 * earned + possible) \div (2 * possible)

Grades == {"A", "B", "C", "D", "E"}

Rank(g) == CASE g = "A" -> 0 [] g = "B" -> 1 [] g = "C" -> 2 [] g = "D" -> 3 [] g = "E" -> 4
             [] OTHER -> 5

Worse(a, b) == IF Rank(b) > Rank(a) THEN b ELSE a

RawGrade(tenths) ==
  CASE tenths >= 900 -> "A" [] tenths >= 800 -> "B" [] tenths >= 650 -> "C"
    [] tenths >= 500 -> "D" [] OTHER -> "E"

CriticalCap(grade, critical) == IF critical THEN Worse(grade, "D") ELSE grade

\* The worst case after a reboot: every runtime-only pass fails.
WorstCase(m) ==
  CriticalCap(RawGrade(Round(Earned(m) - RuntimeOnly(m), Possible(m))),
              CriticalFails(m) \/ CriticalUnproven(m))

\* Mutant: any runtime-only pass caps the grade.
RestsOnRuntimeFlat(m) == AnyUnproven(m)

\* Mutant: a critical control that only passes in the running kernel is no
\* different from another.
RestsOnRuntimePoints(m) ==
  AnyUnproven(m) /\ RawGrade(Round(Earned(m) - RuntimeOnly(m), Possible(m))) # "A"

RestsOnRuntime(m) == AnyUnproven(m) /\ WorstCase(m) # "A"

Grade(m) ==
  IF Possible(m) = 0 THEN "N/A"
  ELSE LET capped == CriticalCap(RawGrade(Round(Earned(m), Possible(m))), CriticalFails(m))
       IN IF capped = "A" /\ RestsOnRuntime(m) THEN "B" ELSE capped

\* Mutant: the verdict becomes a pass and keeps its qualifier.
HardenedQualified(of) ==
  [of EXCEPT !["durable"] = of["durable"] + of["pending"],
             !["fixable-runtime"] = of["fixable-runtime"] + of["fixable-fail"],
             !["fixable-fail"] = 0, !["pending"] = 0]

\* Every automatic fix applied, every pending reboot done.
Hardened(of) ==
  [of EXCEPT !["durable"] = of["durable"] + of["fixable-runtime"]
                              + of["fixable-fail"] + of["pending"],
             !["fixable-runtime"] = 0, !["fixable-fail"] = 0, !["pending"] = 0]

Projected(m) == Grade([s \in Severities |-> Hardened(m[s])])

----------------------------------------------------------------------------
(* The loop over the controls of the report; a skipped or waived one leaves *)
(* the counts alone.                                                        *)

Total == LET Of(s) == n[s]["durable"] + n[s]["runtime-only"] + n[s]["fixable-runtime"]
                        + n[s]["fail"] + n[s]["fixable-fail"] + n[s]["pending"]
         IN Of("critical") + Of("high") + Of("medium") + Of("low") + Of("info")

Evaluate(s, r) == Total < MaxControls /\ n' = [n EXCEPT ![s][r] = @ + 1]

InitScore == n = [s \in Severities |-> [r \in Results |-> 0]]

NextScore == \E s \in Severities, r \in Results : Evaluate(s, r)

ScoreSpec == InitScore /\ [][NextScore]_n

ScoreTypeOK == n \in Reports /\ Grade(n) \in Grades \union {"N/A"}

----------------------------------------------------------------------------
(* What the published formula promises, of the report and of the same one  *)
(* with one control gone from a result to another.                         *)

Changed(s, from, to) == [n EXCEPT ![s][from] = @ - 1, ![s][to] = @ + 1]

\* SCORING.md: "failing a control can never earn a better grade than passing
\* it", whatever the rest of the report and however the control passed.
FailingNeverHelps ==
  \A s \in Severities, from \in Passes, to \in Failures :
    n[s][from] > 0 => Rank(Grade(Changed(s, from, to))) >= Rank(Grade(n))

\* SCORING.md: "An A must mean and it will still be true after the next reboot":
\* whichever runtime-only pass fails after it, the grade is A again, and so on
\* to the last of them.
AOutlivesAReboot ==
  \A s \in Severities, from \in Passes \ {"durable"}, to \in Failures :
    n[s][from] > 0 /\ Grade(n) = "A" => Grade(Changed(s, from, to)) = "A"

\* The screen shows the grade harden can reach: the present one is not better,
\* and no fix, in any order and over any part of the plan, moves the goal.
ProjectedIsWhereHardenLeads ==
  /\ Rank(Grade(n)) >= Rank(Projected(n))
  /\ \A s \in Severities, from \in {"fixable-fail", "fixable-runtime", "pending"} :
       n[s][from] > 0 => Projected(Changed(s, from, "durable")) = Projected(n)
=============================================================================
