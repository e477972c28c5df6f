----------------------------- MODULE ReportDiff -----------------------------
(***************************************************************************)
(* diff.Compare: what changed from one report to another.  The results of  *)
(* a report are a function from its controls to a status and a qualifier.  *)
(***************************************************************************)
Bad(r) == r.status \in {"fail", "error"}
Pass(r) == r.status = "pass"

\* Mutant: an error is not a regression.
RegressedOnlyFailing(before, after) ==
  {c \in DOMAIN before \intersect DOMAIN after : Pass(before[c]) /\ after[c].status = "fail"}

Both(before, after) == DOMAIN before \intersect DOMAIN after
Requalified(before, after, c) == before[c].qualifier # after[c].qualifier

Fixed(before, after) == {c \in Both(before, after) : Bad(before[c]) /\ Pass(after[c])}
Regressed(before, after) == {c \in Both(before, after) : Pass(before[c]) /\ Bad(after[c])}
Survived(before, after) == {c \in Both(before, after) : Pass(before[c]) /\ Pass(after[c])}
StillFailing(before, after) == {c \in Both(before, after) : Bad(before[c]) /\ Bad(after[c])}

\* Among what did not cross from one side to the other.
Drifted(before, after) ==
  {c \in Both(before, after) :
     /\ Requalified(before, after, c)
     /\ before[c].status = after[c].status \/ (Bad(before[c]) /\ Bad(after[c]))}

\* Only the controls that the first report does not have.
New(before, after)     == {c \in DOMAIN after \ DOMAIN before : Bad(after[c])}
Removed(before, after) == DOMAIN before \ DOMAIN after

\* --fail-on-regression.
Drift(before, after) == Regressed(before, after) # {} \/ New(before, after) # {}
=============================================================================
