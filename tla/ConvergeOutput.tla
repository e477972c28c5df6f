--------------------------- MODULE ConvergeOutput ---------------------------
(***************************************************************************)
(* The output of a converge, the "doc" format of Chef, read line by line   *)
(* into counts and one line per resource that changed (cli.chefView).      *)
(*                                                                         *)
(* A line is a record: is tells which expression it matches.               *)
(***************************************************************************)
EXTENDS Naturals, Sequences, SequencesExt

\* The lines.  A resource carries the note in brackets, and whether it belongs
\* to the journal of the cookbook; a change tells whether it reads as a sentence.
Total(n)             == [is |-> "total", n |-> n]
Resource(name, note, journal) ==
  [is |-> "resource", name |-> name, note |-> note, journal |-> journal]
Change(sentence)     == [is |-> "change", sentence |-> sentence]
Diff                 == [is |-> "diff"]
Log(plan)            == [is |-> "log", plan |-> plan]
Done                 == [is |-> "done"]
Other                == [is |-> "other"]

Lines ==
  {Diff, Done, Other} \union [is : {"total"}, n : Nat] \union [is : {"change"}, sentence : BOOLEAN]
    \union [is : {"resource"}, name : STRING, note : {"none", "skipped", "up to date"},
            journal : BOOLEAN]
    \union [is : {"log"}, plan : BOOLEAN]

NoResource == [name |-> "none"]

EmptyView == [total |-> 0, seen |-> 0, updated |-> 0, upToDate |-> 0,
              skipped |-> 0, cur |-> NoResource]

Begun(line) == [name |-> line.name, journal |-> line.journal, changes |-> 0, inDiff |-> FALSE]

\* What a line changes in the view.
OneLine(v, line) ==
  CASE line.is = "total" -> [v EXCEPT !.total = line.n]
    [] line.is = "log"   -> [v EXCEPT !.seen = @ + 1, !.upToDate = @ + 1, !.cur = NoResource]
    [] line.is = "resource" ->
         [v EXCEPT !.seen     = @ + 1,
                   !.upToDate = IF line.note = "up to date" THEN @ + 1 ELSE @,
                   !.skipped  = IF line.note = "skipped" THEN @ + 1 ELSE @,
                   !.cur      = IF line.note = "none" THEN Begun(line) ELSE NoResource]
    [] line.is = "diff" /\ v.cur # NoResource -> [v EXCEPT !.cur.inDiff = TRUE]
    \* Inside a diff, only sentences are changes again.
    [] line.is = "change" /\ v.cur # NoResource ->
         IF v.cur.inDiff /\ ~line.sentence THEN v
         ELSE [v EXCEPT !.cur.inDiff = FALSE, !.cur.changes = @ + 1]
    [] line.is = "done" -> [v EXCEPT !.cur = NoResource]
    [] OTHER -> v

\* The resource that a line ends, if any.
Ended(v, line) == IF line.is \in {"log", "resource", "done"} THEN v.cur ELSE NoResource

\* A resource that changed nothing, or only the journal, is already compliant.
Changed(r) == r # NoResource /\ r.changes > 0 /\ ~r.journal

FinishRes(v, r) ==
  IF r = NoResource THEN v
  ELSE IF Changed(r) THEN [v EXCEPT !.updated = @ + 1] ELSE [v EXCEPT !.upToDate = @ + 1]

\* A warning of the cookbook is printed, the description of the plan is not.
Notes(line) == IF line.is = "log" /\ ~line.plan THEN <<"note">> ELSE <<>>

----------------------------------------------------------------------------
(* The same answer, read off the whole output.                             *)

EndsResource(line) == line.is \in {"log", "resource", "done"}

\* The lines between a resource and what ends it.
Section(lines, i) == {j \in i + 1 .. Len(lines) : \A k \in i + 1 .. j : ~EndsResource(lines[k])}

Sentence(line) == line.is = "change" /\ line.sentence

\* A diff lasts until a sentence.
InDiff(lines, i, j) ==
  \E d \in i + 1 .. j - 1 : lines[d].is = "diff" /\ \A k \in d + 1 .. j - 1 : ~Sentence(lines[k])

ChangedIn(lines) ==
  {i \in 1 .. Len(lines) :
     /\ lines[i].is = "resource" /\ lines[i].note = "none" /\ ~lines[i].journal
     /\ \E j \in Section(lines, i) : /\ lines[j].is = "change"
                                     /\ Sentence(lines[j]) \/ ~InDiff(lines, i, j)}
=============================================================================
