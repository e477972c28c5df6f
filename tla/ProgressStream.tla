--------------------------- MODULE ProgressStream ---------------------------
(***************************************************************************)
(* The engine's progress-bar reporter read line by line                    *)
(* (engine.ProgressWriter): its output comes in pieces of any size, and    *)
(* becomes events for the display and lines for the rest.                  *)
(*                                                                         *)
(* The output is a sequence of symbols: "eol" for \r or \n, "text", and    *)
(* what the regular expressions look for: a count, the status of a control *)
(* and, right after it, the name of the control.                           *)
(***************************************************************************)
EXTENDS Naturals, Sequences, SequencesExt

CONSTANTS
  MaxBuffer,  \* a line without end is cut beyond this length (64 KiB) ...
  KeepBuffer  \* ... to its last symbols (4096 bytes)

ASSUME ProgressStreamAssumption ==
  MaxBuffer \in Nat /\ KeepBuffer \in Nat /\ KeepBuffer <= MaxBuffer

\* What the writer remembers: the line it is in, the last count, the events it
\* made and the lines it passed on.
Empty == [buf |-> <<>>, count |-> 0, events |-> <<>>, other |-> <<>>]

Eol    == [is |-> "eol"]
Text   == [is |-> "text"]
Count(k)  == [is |-> "count", done |-> k]
Status(s) == [is |-> "status", status |-> s]
Name(c)   == [is |-> "name", id |-> c]

Symbols == {Eol, Text} \union [is : {"count"}, done : Nat]
             \union [is : {"status"}, status : STRING] \union [is : {"name"}, id : STRING]

\* The first count of a line, and the first status that a name follows.
CountsOf(line)   == {i \in 1 .. Len(line) : line[i].is = "count"}
ResultsOf(line)  ==
  {i \in 1 .. Len(line) - 1 : line[i].is = "status" /\ line[i + 1].is = "name"}
First(positions) == CHOOSE i \in positions : \A j \in positions : i <= j

\* One whole line.  A line with neither goes on to the log, unless it is blank;
\* a count that repeats the last one is no event.
Line(w) ==
  LET counts  == CountsOf(w.buf)
      results == ResultsOf(w.buf)
      count   == IF counts = {} THEN w.count ELSE w.buf[First(counts)].done
      counted == IF count = w.count THEN <<>> ELSE <<[done |-> count, id |-> "", status |-> ""]>>
      finished == IF results = {} THEN <<>>
                  ELSE <<[done |-> count, id |-> w.buf[First(results) + 1].id,
                          status |-> w.buf[First(results)].status]>>
  IN [buf    |-> <<>>,
      count  |-> count,
      events |-> w.events \o counted \o finished,
      other  |-> IF counts = {} /\ results = {} /\ w.buf # <<>>
                   THEN Append(w.other, w.buf) ELSE w.other]

Feed(w, symbol) ==
  IF symbol = Eol THEN Line(w) ELSE [w EXCEPT !.buf = Append(@, symbol)]

\* Mutant: what a piece holds is a line, whether it ends there or not.
WriteAsLine(w, piece) ==
  LET all == FoldLeft(Feed, w, piece) IN IF all.buf = <<>> THEN all ELSE Line(all)

\* Mutant: memory is not bounded.
WriteUncut(w, piece) == FoldLeft(Feed, w, piece)

\* One piece of output.  A reporter that never ends a line keeps memory bounded.
Write(w, piece) ==
  LET all == FoldLeft(Feed, w, piece)
      len == Len(all.buf)
  IN IF len > MaxBuffer
       THEN [all EXCEPT !.buf = SubSeq(@, len - KeepBuffer + 1, len)]
       ELSE all

\* The end of the output ends the last line.
Flush(w) == IF w.buf = <<>> THEN w ELSE Line(w)

\* What is read when the whole output comes at once.
Whole(stream) == Flush(FoldLeft(Feed, Empty, stream))
=============================================================================
