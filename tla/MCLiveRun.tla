----------------------------- MODULE MCLiveRun ------------------------------
(* Scans and converges, on a terminal and off it.                          *)
EXTENDS LiveRun

\* Two controls: the first line has an end, the last one has none.
TwoResults ==
  <<Text, Eol, Count(1), Status("passed"), Name("c1"), Eol, Count(2), Status("failed"), Name("c2")>>

\* A count, its result on a line of its own, and a line too long to be kept whole.
LongLine ==
  <<Count(1), Eol, Status("waived"), Name("c1"), Eol,
    Text, Text, Text, Text, Status("error"), Name("c2"), Eol>>

OneResult == <<Count(1), Status("passed"), Name("c1"), Eol>>

\* Resources that change, are skipped, are up to date, or belong to the journal.
Resources ==
  <<Total(3), Resource("a", "none", FALSE), Diff, Change(FALSE), Change(TRUE),
    Resource("b", "skipped", FALSE), Change(TRUE),
    Resource("c", "none", FALSE), Done>>

Journal ==
  <<Resource("a", "none", TRUE), Change(TRUE), Resource("b", "up to date", FALSE),
    Resource("c", "none", FALSE), Diff, Change(FALSE), Log(FALSE),
    Resource("d", "none", FALSE), Change(FALSE)>>

Scan(tty, how, phases, stream) ==
  [tty |-> tty, mode |-> how, phases |-> phases, stream |-> stream]

Explored ==
  { Scan(TRUE, "native", <<"connect", "stage", "audit">>, TwoResults),
    Scan(TRUE, "docker", <<"image", "audit">>, OneResult),
    Scan(FALSE, "native", <<"audit">>, LongLine),
    Scan(FALSE, "docker", <<"connect", "audit">>, TwoResults),
    Scan(TRUE, "chef", <<>>, Resources),
    Scan(TRUE, "chef", <<>>, Journal),
    Scan(FALSE, "chef", <<>>, Journal) }
=============================================================================
