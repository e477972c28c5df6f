---------------------------- MODULE Score_proofs ----------------------------
(***************************************************************************)
(* From the assertions of a control to the grade of a report.              *)
(*                                                                         *)
(* The counters of Classify are right for every number and every order of  *)
(* assertions: the verdict is the one the evidence calls for.              *)
(*                                                                         *)
(* The promises of the formula hold of every report of any length.  The    *)
(* formula is monotone in three numbers (the points, the points that do    *)
(* not rest on runtime-only passes, and the possible points, which a       *)
(* change of result leaves alone), and each promise is one comparison.     *)
(***************************************************************************)
EXTENDS Verdict, Score, TLAPS

----------------------------------------------------------------------------
(* The verdict of a control.                                               *)

\* Each counter is positive exactly when the evidence it counts was reported,
\* and the live failures are the runtime ones plus the other ones.
CountersMatch ==
  /\ tally.errs > 0      <=> \E e \in seen : e.status = "error"
  /\ tally.skipped > 0   <=> \E e \in seen : e.status = "skipped"
  /\ tally.run > 0       <=> Ran # {}
  /\ tally.nowPass > 0   <=> \E e \in Ran : ReadsNow(e.kind) /\ e.status = "passed"
  /\ tally.nowFail > 0   <=> \E e \in Ran : ReadsNow(e.kind) /\ e.status = "failed"
  /\ tally.diskPass > 0  <=> \E e \in Ran : ReadsDisk(e.kind) /\ e.status = "passed"
  /\ tally.diskFail > 0  <=> \E e \in Ran : ReadsDisk(e.kind) /\ e.status = "failed"
  /\ tally.rtAbsent > 0  <=> \E e \in Ran : e.status = "failed" /\ e.kind = "runtime" /\ e.unset
  /\ tally.otherFail > 0 <=> \E e \in Ran : e.status = "failed"
                                            /\ e.kind \notin {"runtime", "persistent"}
  /\ tally.pCount > 0    <=> \E e \in Ran : e.kind = "persistent"
  /\ tally.nowFail = tally.rtFail + tally.otherFail
  /\ tally.transientOnly <=> \A e \in Ran : e.kind = "transient"

IInv == TypeOK /\ CountersMatch

\* One reported assertion is a well-formed piece of evidence.
LEMMA EvidenceType ==
  ASSUME NEW name \in Names, NEW outcome \in Outcomes, NEW d \in Declared
  PROVE  EvidenceOf(name, outcome, d) \in Evidence
  BY VerdictAssumption
     DEF EvidenceOf, Evidence, KindOf, StatusOf, Kinds, Statuses, Names, Outcomes

LEMMA InitInductive == Init => IInv
<1> SUFFICES ASSUME Init PROVE IInv
    OBVIOUS
<1>1. TypeOK
  BY DEF Init, TypeOK, NoEvidence, Counters
<1>2. seen = {} /\ Ran = {}
  BY DEF Init, Ran
<1>3. /\ tally.errs = 0 /\ tally.skipped = 0 /\ tally.run = 0 /\ tally.nowPass = 0
      /\ tally.nowFail = 0 /\ tally.diskPass = 0 /\ tally.diskFail = 0
      /\ tally.rtAbsent = 0 /\ tally.otherFail = 0 /\ tally.pCount = 0
      /\ tally.rtFail = 0
  BY DEF Init, NoEvidence
<1>4. tally.transientOnly = TRUE
  BY DEF Init, NoEvidence
<1> QED
  BY <1>1, <1>2, <1>3, <1>4 DEF IInv, CountersMatch

\* What one assertion adds to the evidence that ran.
LEMMA RanGrows ==
  ASSUME NEW e, seen' = seen \union {e}
  PROVE  Ran' = IF e.status \in {"passed", "failed"} THEN Ran \union {e} ELSE Ran
  BY DEF Ran

LEMMA StepInductive == IInv /\ [Next]_vars => IInv'
<1> SUFFICES ASSUME IInv, [Next]_vars PROVE IInv'
    OBVIOUS
<1>1. CASE UNCHANGED vars
  BY <1>1 DEF vars, IInv, TypeOK, CountersMatch, Ran
<1>2. ASSUME NEW name \in Names, NEW outcome \in Outcomes, Report(name, outcome)
      PROVE  IInv'
  <2> DEFINE e == EvidenceOf(name, outcome, declared)
  <2>1. e \in Evidence
    BY EvidenceType DEF IInv, TypeOK
  <2>2. e.kind \in Kinds /\ e.status \in Statuses /\ e.unset \in BOOLEAN
    BY <2>1 DEF Evidence
  <2>3. seen' = seen \union {e} /\ declared' = declared /\ waiver' = waiver
    BY <1>2 DEF Report
  <2>4. CASE e.status = "skipped"
    <3>1. tally' = [tally EXCEPT !.skipped = @ + 1]
      BY <1>2, <2>4 DEF Report
    <3>2. Ran' = Ran
      BY <2>3, <2>4, RanGrows
    <3> QED
      BY <2>1, <2>3, <2>4, <3>1, <3>2 DEF IInv, TypeOK, CountersMatch, Counters
  <2>5. CASE e.status = "error"
    <3>1. tally' = [tally EXCEPT !.errs = @ + 1]
      BY <1>2, <2>5 DEF Report
    <3>2. Ran' = Ran
      BY <2>3, <2>5, RanGrows
    <3> QED
      BY <2>1, <2>3, <2>5, <3>1, <3>2 DEF IInv, TypeOK, CountersMatch, Counters
  <2>6. CASE e.status \in {"passed", "failed"}
    <3>1. tally' = CountRun(tally, e)
      BY <1>2, <2>6 DEF Report
    <3>2. Ran' = Ran \union {e}
      BY <2>3, <2>6, RanGrows
    <3> HIDE DEF e
    <3>3. TypeOK'
      BY <2>1, <2>2, <2>3, <3>1 DEF IInv, TypeOK, Counters, CountRun, Bit
    <3>5. tally \in Counters /\ CountersMatch
      BY DEF IInv, TypeOK
    <3>4. CountersMatch'
      <4>1. (/\ tally.errs > 0 <=> \E x \in seen : x.status = "error"
             /\ tally.skipped > 0 <=> \E x \in seen : x.status = "skipped"
             /\ tally.run > 0 <=> Ran # {})'
        BY <2>3, <2>6, <3>1, <3>2, <3>5 DEF CountersMatch, Counters, CountRun
      <4>2. (tally.nowPass > 0 <=> \E x \in Ran : ReadsNow(x.kind) /\ x.status = "passed")'
        BY <2>2, <2>6, <3>1, <3>2, <3>5 DEF CountersMatch, Counters, CountRun, Bit, ReadsNow
      <4>3. (tally.nowFail > 0 <=> \E x \in Ran : ReadsNow(x.kind) /\ x.status = "failed")'
        BY <2>2, <2>6, <3>1, <3>2, <3>5 DEF CountersMatch, Counters, CountRun, Bit, ReadsNow
      <4>4. (tally.diskPass > 0 <=> \E x \in Ran : ReadsDisk(x.kind) /\ x.status = "passed")'
        BY <2>2, <2>6, <3>1, <3>2, <3>5 DEF CountersMatch, Counters, CountRun, Bit, ReadsDisk
      <4>5. (tally.diskFail > 0 <=> \E x \in Ran : ReadsDisk(x.kind) /\ x.status = "failed")'
        BY <2>2, <2>6, <3>1, <3>2, <3>5 DEF CountersMatch, Counters, CountRun, Bit, ReadsDisk
      <4>6. (tally.rtAbsent > 0 <=> \E x \in Ran : x.status = "failed" /\ x.kind = "runtime" /\ x.unset)'
        BY <2>2, <2>6, <3>1, <3>2, <3>5 DEF CountersMatch, Counters, CountRun, Bit
      <4>7. (tally.otherFail > 0 <=> \E x \in Ran : x.status = "failed"
                                                /\ x.kind \notin {"runtime", "persistent"})'
        BY <2>2, <2>6, <3>1, <3>2, <3>5 DEF CountersMatch, Counters, CountRun, Bit
      <4>8. (tally.pCount > 0 <=> \E x \in Ran : x.kind = "persistent")'
        BY <2>2, <2>6, <3>1, <3>2, <3>5 DEF CountersMatch, Counters, CountRun, Bit
      <4>9. (tally.nowFail = tally.rtFail + tally.otherFail)'
        BY <2>2, <2>6, <3>1, <3>2, <3>5 DEF CountersMatch, Counters, CountRun, Bit, ReadsNow
      <4>10. (tally.transientOnly <=> \A x \in Ran : x.kind = "transient")'
        BY <2>2, <2>6, <3>1, <3>2, <3>5 DEF CountersMatch, Counters, CountRun, Bit
      <4> QED
        BY <4>1, <4>2, <4>3, <4>4, <4>5, <4>6, <4>7, <4>8, <4>9, <4>10 DEF CountersMatch
    <3> QED
      BY <3>3, <3>4 DEF IInv
  <2> QED
    BY <2>2, <2>4, <2>5, <2>6 DEF Statuses
<1> QED
  BY <1>1, <1>2 DEF Next

\* The counters decide as the evidence does.
LEMMA InductiveImpliesMatch == IInv => VerdictMatchesEvidence
<1> SUFFICES ASSUME IInv PROVE CurrentVerdict = Documented
    BY DEF VerdictMatchesEvidence
<1>1. CASE WaiverActive(waiver)
  BY <1>1 DEF CurrentVerdict, Classify, Documented
<1>2. CASE ~WaiverActive(waiver) /\ tally.errs > 0
  BY <1>2 DEF CurrentVerdict, Classify, Documented, IInv, CountersMatch
<1>3. CASE ~WaiverActive(waiver) /\ ~(tally.errs > 0)
  <2>1. \A e \in seen : e.status # "error" /\ e.status \in Statuses
    BY <1>3 DEF IInv, TypeOK, CountersMatch, Evidence
  <2>2. (tally.run = 0) <=> Ran = {}
    BY DEF IInv, TypeOK, CountersMatch, Counters
  <2>3. Ran = {} <=> \A e \in seen : e.status = "skipped"
    BY <2>1 DEF Ran, Statuses
  <2>4. CASE Ran = {}
    BY <1>3, <2>1, <2>2, <2>3, <2>4 DEF CurrentVerdict, Classify, Documented
  <2>5. CASE Ran # {}
    <3>1. (tally.nowFail > 0) <=> Failed(LiveSide)
      BY DEF IInv, CountersMatch, Failed, LiveSide, ReadsNow
    <3>2. (tally.diskFail > 0) <=> Failed(DiskSide)
      BY DEF IInv, CountersMatch, Failed, DiskSide, ReadsDisk
    <3>3. \A e \in Ran : e.status \in {"passed", "failed"}
      BY DEF Ran
    <3>4. (tally.nowPass > 0 \/ tally.nowFail > 0) <=> LiveSide # {}
      BY <3>3 DEF IInv, CountersMatch, LiveSide, ReadsNow
    <3>5. (tally.diskPass > 0 \/ tally.diskFail > 0) <=> DiskSide # {}
      BY <3>3 DEF IInv, CountersMatch, DiskSide, ReadsDisk
    <3>6. ASSUME Failed(LiveSide) PROVE IsPending(tally) <=> OnlyLiveIsWrong
      <4>1. tally.otherFail = 0 => tally.rtFail = tally.nowFail
        BY DEF IInv, TypeOK, CountersMatch, Counters
      <4>2. /\ (tally.otherFail = 0) <=> ~(tally.otherFail > 0)
            /\ (tally.rtAbsent = 0) <=> ~(tally.rtAbsent > 0)
        BY DEF IInv, TypeOK, Counters
      <4>3. (DiskColumn(tally) = "proven")
              <=> ~(tally.diskFail > 0) /\ tally.diskPass > 0
        BY DEF DiskColumn, Column
      <4>4. (\E e \in Ran : e.kind = "persistent") => DiskSide # {}
        BY DEF DiskSide
      <4>5. ASSUME IsPending(tally) PROVE OnlyLiveIsWrong
        BY <4>2, <4>3, <4>5 DEF IsPending, OnlyLiveIsWrong, IInv, CountersMatch, ReadsDisk
      <4>6. ASSUME OnlyLiveIsWrong PROVE IsPending(tally)
        <5>1. ~Failed(DiskSide)
          BY <4>6 DEF OnlyLiveIsWrong, Failed, DiskSide
        <5>2. DiskColumn(tally) = "proven"
          BY <3>2, <3>5, <4>3, <4>4, <4>6, <5>1 DEF OnlyLiveIsWrong
        <5>3. ~(tally.otherFail > 0) /\ ~(tally.rtAbsent > 0) /\ tally.pCount > 0
          BY <4>6 DEF OnlyLiveIsWrong, IInv, CountersMatch
        <5> QED
          BY <4>1, <4>2, <5>2, <5>3 DEF IsPending
      <4> QED
        BY <4>5, <4>6
    <3>7. Classify(waiver, tally) =
            IF tally.nowFail > 0 THEN <<"fail", IF IsPending(tally) THEN "pending" ELSE "">>
            ELSE IF NowColumn(tally) = "not_measured" /\ DiskColumn(tally) = "failed"
              THEN <<"fail", "">>
            ELSE IF RebootColumn(tally) \in {"failed", "not_measured"}
              THEN <<"pass", "runtime-only">>
            ELSE <<"pass", "durable">>
      BY <1>3, <2>2, <2>5 DEF Classify
    <3>8. Documented =
            IF Failed(LiveSide) THEN <<"fail", IF OnlyLiveIsWrong THEN "pending" ELSE "">>
            ELSE IF LiveSide = {} /\ Failed(DiskSide) THEN <<"fail", "">>
            ELSE IF Failed(DiskSide) THEN <<"pass", "runtime-only">>
            ELSE IF DiskSide = {} /\ (\E e \in Ran : e.kind # "transient")
              THEN <<"pass", "runtime-only">>
            ELSE <<"pass", "durable">>
      BY <1>3, <2>1, <2>3, <2>5 DEF Documented
    <3>9. /\ (NowColumn(tally) = "not_measured") <=> LiveSide = {}
          /\ (DiskColumn(tally) = "failed") <=> Failed(DiskSide)
          /\ (DiskColumn(tally) = "not_measured") <=> DiskSide = {}
          /\ DiskColumn(tally) \in {"failed", "proven", "not_measured"}
      BY <3>2, <3>4, <3>5 DEF NowColumn, DiskColumn, Column
    <3>10. tally.transientOnly <=> ~(\E e \in Ran : e.kind # "transient")
      BY DEF IInv, CountersMatch
    <3>11. (RebootColumn(tally) \in {"failed", "not_measured"})
             <=> Failed(DiskSide) \/ (DiskSide = {} /\ \E e \in Ran : e.kind # "transient")
      BY <3>9, <3>10 DEF RebootColumn, Failed
    <3> QED
      BY <3>1, <3>6, <3>7, <3>8, <3>9, <3>11 DEF CurrentVerdict
  <2> QED
    BY <2>4, <2>5
<1> QED
  BY <1>1, <1>2, <1>3

\* The counters of Classify keep their types.
THEOREM TypeCorrect == Spec => []TypeOK
<1>1. IInv => TypeOK
  BY DEF IInv
<1> QED
  BY InitInductive, StepInductive, <1>1, PTL DEF Spec

\* Whatever the order and the number of the assertions, Classify returns the
\* verdict docs/SCORING.md gives for the evidence.
THEOREM VerdictCorrect == Spec => []VerdictMatchesEvidence
  BY InitInductive, StepInductive, InductiveImpliesMatch, PTL DEF Spec

\* Errors stay errors and live failures never become passes, for any number and
\* order of assertions.
THEOREM NothingIsForgiven == Spec => FailClosed
<1>1. VerdictMatchesEvidence /\ VerdictMatchesEvidence' /\ [Next]_vars =>
        [ /\ CurrentVerdict[1] = "error" => CurrentVerdict'[1] = "error"
          /\ (CurrentVerdict[1] = "fail" /\ Failed(LiveSide))
               => CurrentVerdict'[1] \in {"fail", "error"} ]_vars
  <2> SUFFICES ASSUME VerdictMatchesEvidence, VerdictMatchesEvidence', Next
               PROVE  /\ CurrentVerdict[1] = "error" => CurrentVerdict'[1] = "error"
                      /\ (CurrentVerdict[1] = "fail" /\ Failed(LiveSide))
                           => CurrentVerdict'[1] \in {"fail", "error"}
    OBVIOUS
  <2>1. waiver' = waiver /\ seen \subseteq seen'
    BY DEF Next, Report
  <2>2. WaiverActive(waiver)' = WaiverActive(waiver)
    BY <2>1
  <2>3. CurrentVerdict = Documented /\ CurrentVerdict' = Documented'
    BY DEF VerdictMatchesEvidence
  <2>4. ASSUME CurrentVerdict[1] = "error" PROVE CurrentVerdict'[1] = "error"
    <3>1. ~WaiverActive(waiver) /\ \E e \in seen : e.status = "error"
      BY <2>3, <2>4 DEF Documented
    <3>2. \E e \in seen' : e.status = "error"
      BY <2>1, <3>1
    <3>3. Documented' = <<"error", "">>
      BY <2>2, <3>1, <3>2 DEF Documented
    <3> QED
      BY <2>3, <3>3
  <2>5. ASSUME CurrentVerdict[1] = "fail", Failed(LiveSide)
        PROVE  CurrentVerdict'[1] \in {"fail", "error"}
    <3>1. ~WaiverActive(waiver)
      BY <2>3, <2>5 DEF Documented
    <3>2. PICK e \in LiveSide : e.status = "failed"
      BY <2>5 DEF Failed
    <3>3. e \in LiveSide'
      BY <2>1, <3>2 DEF LiveSide, Ran
    <3>4. Failed(LiveSide)' /\ e \in seen'
      BY <2>1, <3>2, <3>3 DEF Failed, LiveSide, Ran
    <3>5. CASE \E d \in seen' : d.status = "error"
      <4>1. Documented' = <<"error", "">>
        BY <2>2, <3>1, <3>5 DEF Documented
      <4> QED
        BY <2>3, <4>1
    <3>6. CASE ~\E d \in seen' : d.status = "error"
      <4>1. Documented' = <<"fail", IF OnlyLiveIsWrong' THEN "pending" ELSE "">>
        BY <2>2, <3>1, <3>2, <3>4, <3>6 DEF Documented
      <4> QED
        BY <2>3, <4>1
    <3> QED
      BY <3>5, <3>6
  <2> QED
    BY <2>4, <2>5
<1> QED
  BY <1>1, VerdictCorrect, PTL DEF Spec, FailClosed

----------------------------------------------------------------------------
(* The grade of a report.                                                  *)

\* Math.round of a division grows with what is divided.
LEMMA RoundMonotone ==
  ASSUME NEW a \in Nat, NEW b \in Nat, NEW p \in Nat, p > 0, a <= b
  PROVE  /\ Round(a, p) \in Nat
         /\ Round(a, p) <= Round(b, p)
<1> DEFINE x == 2000 * a + p
           y == 2000 * b + p
           d == 2 * p
<1>1. x \in Nat /\ y \in Nat /\ d \in Nat /\ d > 0 /\ x <= y
  OBVIOUS
<1> HIDE DEF x, y, d
<1>2. x \div d \in Nat /\ x \div d <= y \div d
  BY <1>1, Z3
<1>3. Round(a, p) = x \div d /\ Round(b, p) = y \div d
  BY DEF Round, x, y, d
<1>4. QED
  BY <1>2, <1>3

\* More tenths of a point, no worse a letter.
LEMMA RawGradeMonotone ==
  ASSUME NEW a \in Nat, NEW b \in Nat, a <= b
  PROVE  /\ RawGrade(a) \in Grades
         /\ Rank(RawGrade(a)) >= Rank(RawGrade(b))
<1>1. RawGrade(a) \in Grades
  BY DEF RawGrade, Grades
<1>2. Rank(RawGrade(a)) >= Rank(RawGrade(b))
  BY DEF RawGrade, Rank
<1>3. QED
  BY <1>1, <1>2

\* The counts of a report are natural numbers, and so is every sum of them.
LEMMA Sums ==
  ASSUME NEW m \in Reports
  PROVE  /\ \A r \in Results : Weighted(m, r) \in Nat
         /\ Earned(m) \in Nat /\ RuntimeOnly(m) \in Nat /\ Possible(m) \in Nat
         /\ Earned(m) - RuntimeOnly(m) = Weighted(m, "durable")
         /\ ~AnyUnproven(m) => RuntimeOnly(m) = 0
         /\ CriticalUnproven(m) => AnyUnproven(m)
<1>1. \A s \in Severities, r \in Results : m[s][r] \in Nat
  BY DEF Reports
<1>2. \A r \in Results : Weighted(m, r) \in Nat
  BY <1>1 DEF Weighted, Severities
<1>3. /\ "durable" \in Results /\ "runtime-only" \in Results /\ "fixable-runtime" \in Results
      /\ "fail" \in Results /\ "fixable-fail" \in Results /\ "pending" \in Results
  BY DEF Results, Passes, Failures
<1>4. /\ Weighted(m, "durable") \in Nat
      /\ Weighted(m, "runtime-only") \in Nat /\ Weighted(m, "fixable-runtime") \in Nat
      /\ Weighted(m, "fail") \in Nat /\ Weighted(m, "fixable-fail") \in Nat
      /\ Weighted(m, "pending") \in Nat
  BY <1>2, <1>3
<1>5. RuntimeOnly(m) \in Nat
  BY <1>4 DEF RuntimeOnly
<1>6. Earned(m) \in Nat /\ Earned(m) - RuntimeOnly(m) = Weighted(m, "durable")
  BY <1>4, <1>5 DEF Earned
<1>7. Possible(m) \in Nat
  BY <1>4, <1>6 DEF Possible
<1>8. ~AnyUnproven(m) => RuntimeOnly(m) = 0
  <2> SUFFICES ASSUME ~AnyUnproven(m) PROVE RuntimeOnly(m) = 0
    OBVIOUS
  <2>1. ASSUME NEW s \in Severities
        PROVE  m[s]["runtime-only"] = 0 /\ m[s]["fixable-runtime"] = 0
    <3>1. m[s]["runtime-only"] \in Nat /\ m[s]["fixable-runtime"] \in Nat
      BY <1>1, <1>3
    <3>2. ~(m[s]["runtime-only"] + m[s]["fixable-runtime"] > 0)
      BY DEF AnyUnproven
    <3>3. QED
      BY <3>1, <3>2
  <2>2. /\ Weighted(m, "runtime-only") = 0
        /\ Weighted(m, "fixable-runtime") = 0
    BY <2>1 DEF Weighted, Severities
  <2>3. QED
    BY <2>2 DEF RuntimeOnly
<1>9. CriticalUnproven(m) => AnyUnproven(m)
  BY DEF CriticalUnproven, AnyUnproven, Severities
<1>10. QED
  BY <1>2, <1>5, <1>6, <1>7, <1>8, <1>9

\* A report with no more points, no more points that last, and no fewer critical
\* failures than another of the same possible points has no better grade.
LEMMA GradeMonotone ==
  ASSUME NEW m \in Reports, NEW k \in Reports,
         Possible(k) = Possible(m),
         Earned(k) <= Earned(m),
         Weighted(k, "durable") <= Weighted(m, "durable"),
         CriticalFails(m) => CriticalFails(k),
         CriticalUnproven(m) => CriticalFails(k) \/ CriticalUnproven(k)
  PROVE  Rank(Grade(k)) >= Rank(Grade(m))
<1> DEFINE raw(x)   == RawGrade(Round(Earned(x), Possible(x)))
           worst(x) == RawGrade(Round(Earned(x) - RuntimeOnly(x), Possible(x)))
<1>1. CASE Possible(m) = 0
  <2>1. Grade(k) = "N/A" /\ Grade(m) = "N/A"
    BY <1>1 DEF Grade
  <2>2. QED
    BY <2>1 DEF Rank
<1>2. CASE Possible(m) # 0
  <2>1. /\ Possible(m) \in Nat /\ Possible(m) > 0
        /\ Earned(k) \in Nat /\ Earned(m) \in Nat
        /\ Weighted(k, "durable") \in Nat /\ Weighted(m, "durable") \in Nat
        /\ Earned(m) - RuntimeOnly(m) = Weighted(m, "durable")
        /\ Earned(k) - RuntimeOnly(k) = Weighted(k, "durable")
    <3>1. "durable" \in Results
      BY DEF Results, Passes
    <3>2. /\ Possible(m) \in Nat
          /\ Earned(m) \in Nat /\ Earned(m) - RuntimeOnly(m) = Weighted(m, "durable")
          /\ Weighted(m, "durable") \in Nat
      BY <3>1, Sums
    <3>3. /\ Earned(k) \in Nat /\ Earned(k) - RuntimeOnly(k) = Weighted(k, "durable")
          /\ Weighted(k, "durable") \in Nat
      BY <3>1, Sums
    <3>4. QED
      BY <1>2, <3>2, <3>3
  <2>2. /\ Round(Earned(k), Possible(k)) <= Round(Earned(m), Possible(m))
        /\ Round(Earned(k), Possible(k)) \in Nat /\ Round(Earned(m), Possible(m)) \in Nat
    BY <2>1, RoundMonotone
  <2>3. /\ Round(Earned(k) - RuntimeOnly(k), Possible(k))
             <= Round(Earned(m) - RuntimeOnly(m), Possible(m))
        /\ Round(Earned(k) - RuntimeOnly(k), Possible(k)) \in Nat
        /\ Round(Earned(m) - RuntimeOnly(m), Possible(m)) \in Nat
    BY <2>1, RoundMonotone
  <2>4. /\ raw(k) \in Grades /\ raw(m) \in Grades /\ Rank(raw(k)) >= Rank(raw(m))
    BY <2>2, RawGradeMonotone
  <2>5. /\ worst(k) \in Grades /\ worst(m) \in Grades /\ Rank(worst(k)) >= Rank(worst(m))
    BY <2>3, RawGradeMonotone
  \* Without a runtime-only pass, the points of k are points that last.
  <2>6. ~AnyUnproven(k) => raw(k) = worst(k) /\ ~CriticalUnproven(k)
    <3>1. ~AnyUnproven(k) => RuntimeOnly(k) = 0 /\ ~CriticalUnproven(k)
      BY Sums
    <3>2. QED
      BY <3>1, <2>1
  <2> HIDE DEF raw, worst
  <2>7. /\ Grade(m) = LET capped == CriticalCap(raw(m), CriticalFails(m))
                      IN IF capped = "A" /\ RestsOnRuntime(m) THEN "B" ELSE capped
        /\ Grade(k) = LET capped == CriticalCap(raw(k), CriticalFails(k))
                      IN IF capped = "A" /\ RestsOnRuntime(k) THEN "B" ELSE capped
    BY <1>2 DEF Grade, raw
  <2>8. \A x : WorstCase(x) = CriticalCap(worst(x), CriticalFails(x) \/ CriticalUnproven(x))
    BY DEF WorstCase, worst
  <2>9. CASE CriticalFails(k)
    <3>1. Rank(Grade(k)) >= 3
      BY <2>4, <2>7, <2>9 DEF CriticalCap, Worse, Rank, Grades
    <3>2. Rank(Grade(k)) >= Rank(raw(k))
      BY <2>4, <2>7, <2>9 DEF CriticalCap, Worse, Rank, Grades
    <3>3. Grade(m) \in {raw(m), "B"} \/ (CriticalFails(m) /\ Grade(m) \in {raw(m), "D"})
      BY <2>7 DEF CriticalCap, Worse
    <3>4. QED
      BY <2>4, <3>1, <3>2, <3>3 DEF Rank, Grades
  <2>10. CASE ~CriticalFails(k) /\ raw(k) # "A"
    <3>1. Grade(k) = raw(k) /\ ~CriticalFails(m)
      BY <2>7, <2>10 DEF CriticalCap
    <3>2. Grade(m) \in {raw(m), "B"}
      BY <2>7, <3>1 DEF CriticalCap
    <3>3. Rank(raw(k)) >= 1
      BY <2>4, <2>10 DEF Rank, Grades
    <3>4. QED
      BY <2>4, <3>1, <3>2, <3>3 DEF Rank, Grades
  <2>11. CASE ~CriticalFails(k) /\ raw(k) = "A"
    <3>1. raw(m) = "A" /\ ~CriticalFails(m)
      BY <2>4, <2>11 DEF Rank, Grades
    <3>2. Grade(m) = IF RestsOnRuntime(m) THEN "B" ELSE "A"
      BY <2>7, <3>1 DEF CriticalCap
    <3>3. Grade(k) = IF RestsOnRuntime(k) THEN "B" ELSE "A"
      BY <2>7, <2>11 DEF CriticalCap
    <3>4. RestsOnRuntime(m) => RestsOnRuntime(k)
      <4> SUFFICES ASSUME RestsOnRuntime(m) PROVE RestsOnRuntime(k)
        OBVIOUS
      <4>1. worst(m) # "A" \/ CriticalUnproven(m)
        BY <2>8, <3>1 DEF RestsOnRuntime, CriticalCap
      <4>2. worst(k) # "A" \/ CriticalUnproven(k)
        BY <2>5, <2>11, <4>1 DEF Rank, Grades
      <4>3. WorstCase(k) # "A"
        BY <2>5, <2>8, <4>2 DEF CriticalCap, Worse, Rank, Grades
      <4>4. AnyUnproven(k)
        BY <2>6, <2>11, <4>2
      <4>5. QED
        BY <4>3, <4>4 DEF RestsOnRuntime
    <3>5. QED
      BY <3>2, <3>3, <3>4 DEF Rank
  <2>12. QED
    BY <2>9, <2>10, <2>11
<1>3. QED
  BY <1>1, <1>2

----------------------------------------------------------------------------
(* What a changed result does to the sums.                                 *)

Points(s) ==
  CASE s = "critical" -> 10 [] s = "high" -> 5 [] s = "medium" -> 3 [] s = "low" -> 1
    [] s = "info" -> 0

LEMMA ChangedReport ==
  ASSUME n \in Reports, NEW s \in Severities, NEW from \in Results, NEW to \in Results,
         from # to, n[s][from] > 0
  PROVE  /\ Changed(s, from, to) \in Reports
         /\ \A t \in Severities, r \in Results :
              Changed(s, from, to)[t][r] = IF t = s /\ r = from THEN n[s][from] - 1
                                           ELSE IF t = s /\ r = to THEN n[s][to] + 1
                                           ELSE n[t][r]
<1>1. n[s] \in [Results -> Nat] /\ n[s][from] - 1 \in Nat /\ n[s][to] + 1 \in Nat
  BY DEF Reports
<1>2. [n[s] EXCEPT ![from] = @ - 1, ![to] = @ + 1] \in [Results -> Nat]
  BY <1>1
<1>3. Changed(s, from, to) = [n EXCEPT ![s] = [n[s] EXCEPT ![from] = @ - 1, ![to] = @ + 1]]
  BY <1>1 DEF Changed, Reports
<1>4. QED
  BY <1>1, <1>2, <1>3 DEF Reports

LEMMA ChangedWeight ==
  ASSUME n \in Reports, NEW s \in Severities, NEW from \in Results, NEW to \in Results,
         from # to, n[s][from] > 0
  PROVE  /\ Points(s) \in Nat
         /\ \A r \in Results :
              Weighted(Changed(s, from, to), r)
                = IF r = from THEN Weighted(n, r) - Points(s)
                  ELSE IF r = to THEN Weighted(n, r) + Points(s)
                  ELSE Weighted(n, r)
<1> DEFINE k == Changed(s, from, to)
<1>1. \A t \in Severities, r \in Results :
        k[t][r] = IF t = s /\ r = from THEN n[s][from] - 1
                  ELSE IF t = s /\ r = to THEN n[s][to] + 1 ELSE n[t][r]
  BY ChangedReport
<1>2. \A t \in Severities, r \in Results : n[t][r] \in Nat
  BY DEF Reports
<1> HIDE DEF k
<1>3. Points(s) \in Nat
  BY DEF Points, Severities
<1>4. ASSUME NEW r \in Results
      PROVE  Weighted(k, r) = IF r = from THEN Weighted(n, r) - Points(s)
                              ELSE IF r = to THEN Weighted(n, r) + Points(s)
                              ELSE Weighted(n, r)
  <2> DEFINE delta == IF r = from THEN -1 ELSE IF r = to THEN 1 ELSE 0
             c == n["critical"][r]
             h == n["high"][r]
             m == n["medium"][r]
             l == n["low"][r]
  <2>1. c \in Nat /\ h \in Nat /\ m \in Nat /\ l \in Nat
    BY <1>2 DEF Severities
  <2>2. \A t \in Severities : k[t][r] = IF t = s THEN n[t][r] + delta ELSE n[t][r]
    BY <1>1, <1>2
  <2>3. /\ k["critical"][r] = IF s = "critical" THEN c + delta ELSE c
        /\ k["high"][r] = IF s = "high" THEN h + delta ELSE h
        /\ k["medium"][r] = IF s = "medium" THEN m + delta ELSE m
        /\ k["low"][r] = IF s = "low" THEN l + delta ELSE l
    BY <2>2 DEF Severities
  <2>4. Weighted(n, r) = 10 * c + 5 * h + 3 * m + l
    BY DEF Weighted
  <2>5. delta \in {-1, 0, 1}
    OBVIOUS
  <2> HIDE DEF delta, c, h, m, l
  <2>6. Weighted(k, r) = Weighted(n, r) + Points(s) * delta
    <3>1. CASE s = "critical"
      BY <2>1, <2>3, <2>4, <2>5, <3>1 DEF Weighted, Points
    <3>2. CASE s = "high"
      BY <2>1, <2>3, <2>4, <2>5, <3>2 DEF Weighted, Points
    <3>3. CASE s = "medium"
      BY <2>1, <2>3, <2>4, <2>5, <3>3 DEF Weighted, Points
    <3>4. CASE s = "low"
      BY <2>1, <2>3, <2>4, <2>5, <3>4 DEF Weighted, Points
    <3>5. CASE s = "info"
      BY <2>1, <2>3, <2>4, <2>5, <3>5 DEF Weighted, Points
    <3>6. QED
      BY <3>1, <3>2, <3>3, <3>4, <3>5 DEF Severities
  <2>7. Weighted(n, r) \in Nat
    BY <2>1, <2>4
  <2>8. QED
    BY <1>3, <2>6, <2>7 DEF delta
<1>5. QED
  BY <1>3, <1>4 DEF k

\* A pass that becomes a failure: the points go down by its weight, or stay for a
\* pass that did not last; what can be earned is the same.
LEMMA RegressedSums ==
  ASSUME n \in Reports, NEW s \in Severities, NEW from \in Passes, NEW to \in Failures,
         n[s][from] > 0
  PROVE  LET k == Changed(s, from, to)
         IN /\ k \in Reports
            /\ Possible(k) = Possible(n)
            /\ Earned(k) = Earned(n) - Points(s)
            /\ Weighted(k, "durable")
                 = IF from = "durable" THEN Weighted(n, "durable") - Points(s)
                   ELSE Weighted(n, "durable")
<1> DEFINE k == Changed(s, from, to)
<1>1. from \in Results /\ to \in Results /\ from # to
  BY DEF Results, Passes, Failures
<1>2. k \in Reports
  BY <1>1, ChangedReport
<1>3. /\ Points(s) \in Nat
      /\ \A r \in Results : Weighted(k, r) = IF r = from THEN Weighted(n, r) - Points(s)
                                             ELSE IF r = to THEN Weighted(n, r) + Points(s)
                                             ELSE Weighted(n, r)
  BY <1>1, ChangedWeight
<1>4. \A r \in Results : Weighted(n, r) \in Nat
  BY Sums
<1> HIDE DEF k
<1>5. /\ RuntimeOnly(k) = IF from = "durable" THEN RuntimeOnly(n) ELSE RuntimeOnly(n) - Points(s)
      /\ Weighted(k, "durable") = IF from = "durable" THEN Weighted(n, "durable") - Points(s)
                                  ELSE Weighted(n, "durable")
  BY <1>3, <1>4 DEF RuntimeOnly, Results, Passes, Failures
<1>6. RuntimeOnly(n) \in Nat
  BY Sums
<1>7. Earned(k) = Earned(n) - Points(s)
  BY <1>3, <1>4, <1>5, <1>6 DEF Earned, Results, Passes, Failures
<1>8. Earned(n) \in Nat
  BY Sums
<1>9. Weighted(k, "fail") + Weighted(k, "fixable-fail") + Weighted(k, "pending")
        = Weighted(n, "fail") + Weighted(n, "fixable-fail") + Weighted(n, "pending") + Points(s)
  BY <1>3, <1>4 DEF Results, Passes, Failures
<1>10. /\ \A r \in {"fail", "fixable-fail", "pending"} : Weighted(k, r) \in Nat
       /\ \A r \in {"fail", "fixable-fail", "pending"} : Weighted(n, r) \in Nat
  BY <1>2, Sums DEF Results, Failures
<1>11. Possible(k) = Possible(n)
  BY <1>3, <1>7, <1>8, <1>9, <1>10 DEF Possible
<1>12. QED
  BY <1>2, <1>5, <1>7, <1>11 DEF k

----------------------------------------------------------------------------
(* The promises, of every report.                                          *)

\* A failing control fails in the changed report as well.
LEMMA CriticalStays ==
  ASSUME n \in Reports, NEW s \in Severities, NEW from \in Passes, NEW to \in Failures,
         n[s][from] > 0
  PROVE  LET k == Changed(s, from, to)
         IN /\ CriticalFails(n) => CriticalFails(k)
            /\ CriticalUnproven(n) => CriticalFails(k) \/ CriticalUnproven(k)
            /\ ~CriticalUnproven(n) /\ ~CriticalFails(n) /\ from # "durable"
                 => ~CriticalFails(k) /\ ~CriticalUnproven(k)
<1> DEFINE k == Changed(s, from, to)
<1>1. from \in Results /\ to \in Results /\ from # to
  BY DEF Results, Passes, Failures
<1>2. \A t \in Severities, r \in Results :
        k[t][r] = IF t = s /\ r = from THEN n[s][from] - 1
                  ELSE IF t = s /\ r = to THEN n[s][to] + 1 ELSE n[t][r]
  BY <1>1, ChangedReport
<1>3. \A r \in Results : k["critical"][r] =
        IF "critical" = s /\ r = from THEN n["critical"][r] - 1
        ELSE IF "critical" = s /\ r = to THEN n["critical"][r] + 1 ELSE n["critical"][r]
  BY <1>2 DEF Severities
<1>4. \A r \in Results : n["critical"][r] \in Nat
  BY DEF Reports, Severities
<1> HIDE DEF k
<1>5. \A r \in Failures : k["critical"][r] >= n["critical"][r]
  BY <1>3, <1>4 DEF Results, Passes, Failures
<1>6. CriticalFails(n) => CriticalFails(k)
  <2> SUFFICES ASSUME NEW r \in Failures, n["critical"][r] > 0 PROVE CriticalFails(k)
    BY DEF CriticalFails
  <2>1. r \in Results
    BY DEF Results
  <2>2. k["critical"][r] > 0
    BY <1>3, <1>4, <1>5, <2>1 DEF Passes, Failures
  <2>3. QED
    BY <2>2 DEF CriticalFails
<1>7. CASE s = "critical"
  <2>1. k["critical"][to] > 0
    BY <1>1, <1>3, <1>4, <1>7
  <2>2. CriticalFails(k)
    BY <2>1 DEF CriticalFails
  <2>3. from # "durable" => CriticalUnproven(n)
    <3>1. /\ n["critical"]["runtime-only"] \in Nat
          /\ n["critical"]["fixable-runtime"] \in Nat
      BY <1>4 DEF Results, Passes
    <3>2. QED
      BY <1>7, <3>1 DEF CriticalUnproven, Passes
  <2>4. QED
    BY <1>6, <2>2, <2>3 DEF k
<1>8. CASE s # "critical"
  <2>1. \A r \in Results : k["critical"][r] = n["critical"][r]
    BY <1>3, <1>8
  <2>2. CriticalFails(k) = CriticalFails(n)
    BY <2>1 DEF CriticalFails, Results
  <2>3. CriticalUnproven(k) = CriticalUnproven(n)
    BY <2>1 DEF CriticalUnproven, Results, Passes
  <2>4. QED
    BY <2>2, <2>3 DEF k
<1>9. QED
  BY <1>7, <1>8

LEMMA ReportFailing == n \in Reports => FailingNeverHelps
<1> SUFFICES ASSUME n \in Reports, NEW s \in Severities, NEW from \in Passes,
                    NEW to \in Failures, n[s][from] > 0
             PROVE  Rank(Grade(Changed(s, from, to))) >= Rank(Grade(n))
  BY DEF FailingNeverHelps
<1> DEFINE k == Changed(s, from, to)
<1>1. /\ k \in Reports
      /\ Possible(k) = Possible(n)
      /\ Earned(k) = Earned(n) - Points(s)
      /\ Weighted(k, "durable")
           = IF from = "durable" THEN Weighted(n, "durable") - Points(s)
             ELSE Weighted(n, "durable")
  BY RegressedSums
<1>2. /\ CriticalFails(n) => CriticalFails(k)
      /\ CriticalUnproven(n) => CriticalFails(k) \/ CriticalUnproven(k)
  BY CriticalStays
<1>3. Earned(n) \in Nat
  BY Sums
<1>4. Weighted(n, "durable") \in Nat
  BY Sums DEF Results, Passes
<1>5. Points(s) \in Nat
  BY DEF Points, Severities
<1> HIDE DEF k
<1>6. Earned(k) <= Earned(n) /\ Weighted(k, "durable") <= Weighted(n, "durable")
  BY <1>1, <1>3, <1>4, <1>5
<1>7. Rank(Grade(k)) >= Rank(Grade(n))
  BY <1>1, <1>2, <1>6, GradeMonotone
<1>8. QED
  BY <1>7 DEF k

LEMMA ReportReboot == n \in Reports => AOutlivesAReboot
<1> SUFFICES ASSUME n \in Reports, NEW s \in Severities, NEW from \in Passes \ {"durable"},
                    NEW to \in Failures, n[s][from] > 0, Grade(n) = "A"
             PROVE  Grade(Changed(s, from, to)) = "A"
  BY DEF AOutlivesAReboot
<1> DEFINE k == Changed(s, from, to)
           raw(x)   == RawGrade(Round(Earned(x), Possible(x)))
           worst(x) == RawGrade(Round(Earned(x) - RuntimeOnly(x), Possible(x)))
<1>1. /\ k \in Reports
      /\ Possible(k) = Possible(n)
      /\ Weighted(k, "durable") = Weighted(n, "durable")
  BY RegressedSums
<1>2. Possible(n) # 0
  BY DEF Grade
\* The pass that fails is one of those the A could have rested on.
<1>3. AnyUnproven(n)
  <2>1. n[s]["runtime-only"] \in Nat /\ n[s]["fixable-runtime"] \in Nat
    BY DEF Reports, Results, Passes
  <2>2. QED
    BY <2>1 DEF AnyUnproven, Passes
<1>4. ~RestsOnRuntime(n)
  BY <1>2 DEF Grade
<1>5. WorstCase(n) = "A"
  BY <1>3, <1>4 DEF RestsOnRuntime
<1>6. worst(n) = "A" /\ ~CriticalFails(n) /\ ~CriticalUnproven(n)
  <2>1. worst(n) \in Grades
    BY DEF RawGrade, Grades
  <2> HIDE DEF worst
  <2>2. WorstCase(n) = CriticalCap(worst(n), CriticalFails(n) \/ CriticalUnproven(n))
    BY DEF WorstCase, worst
  <2>3. QED
    BY <1>5, <2>1, <2>2 DEF CriticalCap, Worse, Rank, Grades
<1>7. ~CriticalFails(k) /\ ~CriticalUnproven(k)
  BY <1>6, CriticalStays
<1>8. /\ Earned(k) \in Nat /\ RuntimeOnly(k) \in Nat /\ Possible(k) \in Nat
      /\ Earned(k) - RuntimeOnly(k) = Weighted(k, "durable")
      /\ Weighted(k, "durable") \in Nat
  BY <1>1, Sums DEF Results, Passes
<1>9. Earned(n) - RuntimeOnly(n) = Weighted(n, "durable")
  BY Sums
<1>10. worst(k) = worst(n)
  BY <1>1, <1>8, <1>9
<1> HIDE DEF k
<1>11. raw(k) = "A"
  <2>1. Possible(k) > 0
    BY <1>1, <1>2, <1>8
  <2>2. /\ Round(Earned(k) - RuntimeOnly(k), Possible(k)) <= Round(Earned(k), Possible(k))
        /\ Round(Earned(k) - RuntimeOnly(k), Possible(k)) \in Nat
        /\ Round(Earned(k), Possible(k)) \in Nat
    BY <1>8, <2>1, RoundMonotone
  <2>3. /\ raw(k) \in Grades
        /\ Rank(worst(k)) >= Rank(raw(k))
    BY <2>2, RawGradeMonotone DEF RawGrade, Grades
  <2> HIDE DEF raw, worst
  <2>4. QED
    BY <1>6, <1>10, <2>3 DEF Rank, Grades
<1>12. ~RestsOnRuntime(k)
  BY <1>6, <1>7, <1>10 DEF RestsOnRuntime, WorstCase, CriticalCap
<1>13. Grade(k) = "A"
  BY <1>1, <1>2, <1>7, <1>11, <1>12 DEF Grade, CriticalCap
<1>14. QED
  BY <1>13 DEF k

\* The hardened report, count by count.
LEMMA HardenedReport ==
  ASSUME NEW m \in Reports
  PROVE  LET h == [s \in Severities |-> Hardened(m[s])]
         IN /\ h \in Reports
            /\ \A s \in Severities :
                 /\ h[s]["durable"] = m[s]["durable"] + m[s]["fixable-runtime"]
                                        + m[s]["fixable-fail"] + m[s]["pending"]
                 /\ h[s]["runtime-only"] = m[s]["runtime-only"]
                 /\ h[s]["fail"] = m[s]["fail"]
                 /\ h[s]["fixable-runtime"] = 0 /\ h[s]["fixable-fail"] = 0
                 /\ h[s]["pending"] = 0
<1> DEFINE h == [s \in Severities |-> Hardened(m[s])]
<1>1. ASSUME NEW s \in Severities
      PROVE  /\ h[s] \in [Results -> Nat]
             /\ h[s]["durable"] = m[s]["durable"] + m[s]["fixable-runtime"]
                                    + m[s]["fixable-fail"] + m[s]["pending"]
             /\ h[s]["runtime-only"] = m[s]["runtime-only"] /\ h[s]["fail"] = m[s]["fail"]
             /\ h[s]["fixable-runtime"] = 0 /\ h[s]["fixable-fail"] = 0 /\ h[s]["pending"] = 0
  <2>1. m[s] \in [Results -> Nat] /\ h[s] = Hardened(m[s])
    BY DEF Reports
  <2> HIDE DEF h
  <2>2. /\ m[s]["durable"] \in Nat /\ m[s]["fixable-runtime"] \in Nat
        /\ m[s]["fixable-fail"] \in Nat /\ m[s]["pending"] \in Nat
    BY <2>1 DEF Results, Passes, Failures
  <2>3. m[s]["durable"] + m[s]["fixable-runtime"] + m[s]["fixable-fail"] + m[s]["pending"] \in Nat
    BY <2>2
  <2>4. Hardened(m[s]) \in [Results -> Nat]
    BY <2>1, <2>3 DEF Hardened
  <2>5. QED
    BY <2>1, <2>4 DEF Hardened, Results, Passes, Failures
<1>2. h \in Reports
  BY <1>1 DEF Reports
<1>3. QED
  BY <1>1, <1>2

\* Weighing four counts together is weighing each.
LEMMA WeighedTogether ==
  \A c1, c2, c3, c4, h1, h2, h3, h4, m1, m2, m3, m4, l1, l2, l3, l4 \in Nat :
    10 * (c1 + c2 + c3 + c4) + 5 * (h1 + h2 + h3 + h4) + 3 * (m1 + m2 + m3 + m4)
        + (l1 + l2 + l3 + l4)
      = (10 * c1 + 5 * h1 + 3 * m1 + l1) + (10 * c2 + 5 * h2 + 3 * m2 + l2)
        + (10 * c3 + 5 * h3 + 3 * m3 + l3) + (10 * c4 + 5 * h4 + 3 * m4 + l4)
  OBVIOUS

\* The projected grade is the grade of a report with at least the points.
LEMMA HardenedIsBetter ==
  ASSUME NEW m \in Reports
  PROVE  Rank(Grade(m)) >= Rank(Projected(m))
<1> DEFINE h == [s \in Severities |-> Hardened(m[s])]
<1>1. /\ h \in Reports
      /\ \A s \in Severities :
           /\ h[s]["durable"] = m[s]["durable"] + m[s]["fixable-runtime"]
                                  + m[s]["fixable-fail"] + m[s]["pending"]
           /\ h[s]["runtime-only"] = m[s]["runtime-only"] /\ h[s]["fail"] = m[s]["fail"]
           /\ h[s]["fixable-runtime"] = 0 /\ h[s]["fixable-fail"] = 0 /\ h[s]["pending"] = 0
  BY HardenedReport
<1> HIDE DEF h
<1>2. \A s \in Severities : /\ m[s]["durable"] \in Nat /\ m[s]["fixable-runtime"] \in Nat
                            /\ m[s]["fixable-fail"] \in Nat /\ m[s]["pending"] \in Nat
                            /\ m[s]["fail"] \in Nat /\ m[s]["runtime-only"] \in Nat
  BY DEF Reports, Results, Passes, Failures
<1>3. Weighted(h, "durable") = Weighted(m, "durable") + Weighted(m, "fixable-runtime")
                                 + Weighted(m, "fixable-fail") + Weighted(m, "pending")
  <2> DEFINE c(r)  == m["critical"][r]
             hi(r) == m["high"][r]
             md(r) == m["medium"][r]
             lo(r) == m["low"][r]
  <2>1. \A r \in {"durable", "fixable-runtime", "fixable-fail", "pending"} :
          c(r) \in Nat /\ hi(r) \in Nat /\ md(r) \in Nat /\ lo(r) \in Nat
    BY <1>2 DEF Severities
  <2>2. /\ h["critical"]["durable"] = c("durable") + c("fixable-runtime") + c("fixable-fail") + c("pending")
        /\ h["high"]["durable"] = hi("durable") + hi("fixable-runtime") + hi("fixable-fail") + hi("pending")
        /\ h["medium"]["durable"] = md("durable") + md("fixable-runtime") + md("fixable-fail") + md("pending")
        /\ h["low"]["durable"] = lo("durable") + lo("fixable-runtime") + lo("fixable-fail") + lo("pending")
    BY <1>1 DEF Severities
  <2>3. \A r : Weighted(m, r) = 10 * c(r) + 5 * hi(r) + 3 * md(r) + lo(r)
    BY DEF Weighted
  <2> HIDE DEF c, hi, md, lo
  <2>4. Weighted(h, "durable")
          = 10 * (c("durable") + c("fixable-runtime") + c("fixable-fail") + c("pending"))
            + 5 * (hi("durable") + hi("fixable-runtime") + hi("fixable-fail") + hi("pending"))
            + 3 * (md("durable") + md("fixable-runtime") + md("fixable-fail") + md("pending"))
            + (lo("durable") + lo("fixable-runtime") + lo("fixable-fail") + lo("pending"))
    BY <2>2 DEF Weighted
  <2>5. QED
    BY <2>1, <2>3, <2>4, WeighedTogether
<1>4. /\ Weighted(h, "runtime-only") = Weighted(m, "runtime-only")
      /\ Weighted(h, "fail") = Weighted(m, "fail")
      /\ Weighted(h, "fixable-runtime") = 0
      /\ Weighted(h, "fixable-fail") = 0
      /\ Weighted(h, "pending") = 0
  BY <1>1 DEF Weighted, Severities
<1>5. /\ Weighted(m, "durable") \in Nat /\ Weighted(m, "fixable-runtime") \in Nat
      /\ Weighted(m, "fixable-fail") \in Nat /\ Weighted(m, "pending") \in Nat
      /\ Weighted(m, "runtime-only") \in Nat /\ Weighted(m, "fail") \in Nat
  BY Sums DEF Results, Passes, Failures
<1>6. /\ RuntimeOnly(h) = Weighted(m, "runtime-only")
      /\ RuntimeOnly(m) = Weighted(m, "runtime-only") + Weighted(m, "fixable-runtime")
  BY <1>4, <1>5 DEF RuntimeOnly
<1>7. Possible(h) = Possible(m) /\ Earned(m) <= Earned(h)
  BY <1>3, <1>4, <1>5, <1>6 DEF Possible, Earned
<1>8. Weighted(m, "durable") <= Weighted(h, "durable")
  BY <1>3, <1>5
<1>9. CriticalFails(h) => CriticalFails(m)
  BY <1>1 DEF CriticalFails, Severities, Failures
<1>10. CriticalUnproven(h) => CriticalUnproven(m)
  BY <1>1, <1>2 DEF CriticalUnproven, Severities
<1>11. Rank(Grade(m)) >= Rank(Grade(h))
  BY <1>1, <1>7, <1>8, <1>9, <1>10, GradeMonotone
<1>12. QED
  BY <1>11 DEF Projected, h

LEMMA ReportProjected == n \in Reports => ProjectedIsWhereHardenLeads
<1> SUFFICES ASSUME n \in Reports PROVE ProjectedIsWhereHardenLeads
  OBVIOUS
<1>1. Rank(Grade(n)) >= Rank(Projected(n))
  BY HardenedIsBetter
<1>2. ASSUME NEW s \in Severities, NEW from \in {"fixable-fail", "fixable-runtime", "pending"},
             n[s][from] > 0
      PROVE  Projected(Changed(s, from, "durable")) = Projected(n)
  <2> DEFINE k == Changed(s, from, "durable")
  <2>1. from \in Results /\ "durable" \in Results /\ from # "durable"
    BY DEF Results, Passes, Failures
  <2>2. \A t \in Severities, r \in Results :
          k[t][r] = IF t = s /\ r = from THEN n[s][from] - 1
                    ELSE IF t = s /\ r = "durable" THEN n[s]["durable"] + 1 ELSE n[t][r]
    BY <1>2, <2>1, ChangedReport
  <2>3. k \in Reports
    BY <1>2, <2>1, ChangedReport
  <2> HIDE DEF k
  <2>4. ASSUME NEW t \in Severities PROVE Hardened(k[t]) = Hardened(n[t])
    <3>1. k[t] \in [Results -> Nat] /\ n[t] \in [Results -> Nat]
      BY <2>3 DEF Reports
    <3>2. \A r \in {"runtime-only", "fail"} : k[t][r] = n[t][r]
      BY <2>2 DEF Results, Passes, Failures
    <3>3. k[t]["durable"] + k[t]["fixable-runtime"] + k[t]["fixable-fail"] + k[t]["pending"]
          = n[t]["durable"] + n[t]["fixable-runtime"] + n[t]["fixable-fail"] + n[t]["pending"]
      <4>1. \A r \in {"durable", "fixable-runtime", "fixable-fail", "pending"} :
              /\ n[t][r] \in Nat
              /\ k[t][r] = IF t = s /\ r = from THEN n[s][from] - 1
                           ELSE IF t = s /\ r = "durable" THEN n[s]["durable"] + 1 ELSE n[t][r]
        BY <2>2, <3>1 DEF Results, Passes, Failures
      <4>2. CASE t = s
        BY <4>1, <4>2
      <4>3. CASE t # s
        BY <4>1, <4>3
      <4>4. QED
        BY <4>2, <4>3
    <3>4. \A r \in Results : Hardened(k[t])[r] = Hardened(n[t])[r]
      BY <3>1, <3>2, <3>3 DEF Hardened, Results, Passes, Failures
    <3>5. QED
      BY <3>1, <3>4 DEF Hardened
  <2>5. [t \in Severities |-> Hardened(k[t])] = [t \in Severities |-> Hardened(n[t])]
    BY <2>4
  <2>6. Projected(k) = Projected(n)
    BY <2>5 DEF Projected
  <2>7. QED
    BY <2>6 DEF k
<1>3. QED
  BY <1>1, <1>2 DEF ProjectedIsWhereHardenLeads

----------------------------------------------------------------------------

\* Whatever the report, its counts are natural numbers and its grade is one of
\* the published ones.
THEOREM ScoreTypeCorrect == ScoreSpec => []ScoreTypeOK
<1> DEFINE Counted == n \in Reports
<1>1. InitScore => Counted
  BY DEF InitScore, Reports
<1>2. Counted /\ [NextScore]_n => Counted'
  <2>1. ASSUME n \in Reports, NEW s \in Severities, NEW r \in Results, Evaluate(s, r)
        PROVE  n' \in Reports
    <3>1. n[s] \in [Results -> Nat] /\ n[s][r] + 1 \in Nat
      BY <2>1 DEF Reports
    <3>2. [n[s] EXCEPT ![r] = @ + 1] \in [Results -> Nat]
      BY <3>1
    <3>3. n' = [n EXCEPT ![s] = [n[s] EXCEPT ![r] = @ + 1]]
      BY <2>1, <3>1 DEF Evaluate, Reports
    <3>4. QED
      BY <2>1, <3>2, <3>3 DEF Reports
  <2>2. QED
    BY <2>1 DEF NextScore
<1>3. Counted => ScoreTypeOK
  <2> SUFFICES ASSUME n \in Reports PROVE Grade(n) \in Grades \union {"N/A"}
    BY DEF ScoreTypeOK
  <2>1. \A x : RawGrade(x) \in Grades
    BY DEF RawGrade, Grades
  <2>2. CriticalCap(RawGrade(Round(Earned(n), Possible(n))), CriticalFails(n)) \in Grades
    BY <2>1 DEF CriticalCap, Worse, Grades
  <2>3. QED
    BY <2>2 DEF Grade, Grades
<1> HIDE DEF Counted
<1>4. QED
  BY <1>1, <1>2, <1>3, PTL DEF ScoreSpec

\* Failing a control never earns a better grade than passing it, whatever the
\* length of the report and the mix of severities.
THEOREM FailingIsMonotone == ScoreSpec => []FailingNeverHelps
<1>1. ScoreTypeOK => FailingNeverHelps
  BY ReportFailing DEF ScoreTypeOK
<1>2. QED
  BY <1>1, ScoreTypeCorrect, PTL

\* An A survives the loss of any of its runtime-only passes.
THEOREM AIsKept == ScoreSpec => []AOutlivesAReboot
<1>1. ScoreTypeOK => AOutlivesAReboot
  BY ReportReboot DEF ScoreTypeOK
<1>2. QED
  BY <1>1, ScoreTypeCorrect, PTL

\* The projected grade bounds the present one and no fix moves it.
THEOREM ProjectionIsStable == ScoreSpec => []ProjectedIsWhereHardenLeads
<1>1. ScoreTypeOK => ProjectedIsWhereHardenLeads
  BY ReportProjected DEF ScoreTypeOK
<1>2. QED
  BY <1>1, ScoreTypeCorrect, PTL

=============================================================================
