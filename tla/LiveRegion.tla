----------------------------- MODULE LiveRegion -----------------------------
(***************************************************************************)
(* The animated region at the bottom of a terminal (ui.Live): a ticker     *)
(* redraws it while other goroutines print lines above it, each under the  *)
(* lock of the region; what it shows comes from a view with a lock of its  *)
(* own, taken inside.                                                      *)
(***************************************************************************)
EXTENDS Naturals, Sequences

CONSTANTS
  Widths,    \* the widths of the terminal explored, in cells
  MinWidth   \* a frame is never laid out narrower (20)

ASSUME LiveRegionAssumption == Widths \subseteq Nat \ {0} /\ MinWidth \in Nat \ {0}

Actors == {"main", "writer", "ticker"}

VARIABLES
  width,    \* the width of the terminal
  narrowed, \* history: it was, at some moment, too narrow for what was painted
  cursor,   \* "shown" or "hidden"
  printed,  \* the lines that stay, in order
  painted,  \* the frame on the screen: its lines, and how long they are
  junk,     \* rows of earlier frames that nothing erases any more
  running,  \* between Start and the end of Stop
  stop,     \* the channel stop is closed
  ticker,   \* "none", "on" or "gone"
  holder,   \* who holds the lock of the region
  viewer,   \* who holds the lock of the view
  calls     \* what each actor has still to print, one Println or Redraw after the other

screen == <<cursor, printed, painted, junk>>
region == <<width, narrowed, cursor, printed, painted, junk,
            running, stop, ticker, holder, viewer, calls>>

NoFrame == [lines |-> 0, len |-> 0]

\* A Redraw prints no line.
Redraw  == <<>>
Idle(a) == calls[a] = <<>>

\* The rows that lines of that length take; an empty line takes one.
RowsOf(frame, w) == frame.lines * (IF frame.len = 0 THEN 1 ELSE (frame.len + w - 1) \div w)

\* Every line of a frame fills the width it was laid out for.
FrameOf(lines) ==
  [lines |-> lines, len |-> (IF width < MinWidth THEN MinWidth ELSE width) - 1]

\* Erases as many rows as the frame has lines, from the last one up.
Clear ==
  /\ junk' = junk + RowsOf(painted, width) - painted.lines
  /\ painted' = NoFrame

----------------------------------------------------------------------------

\* Hide the cursor and start the ticker.
Start ==
  /\ ~running
  /\ running' = TRUE /\ cursor' = "hidden" /\ ticker' = "on"
  /\ UNCHANGED <<width, narrowed, printed, painted, junk, stop, holder, viewer, calls>>

\* Println and Redraw begin: the lock, the old frame away, the lines.  The
\* ticker draws without a look at running.
Enter(a) ==
  /\ ~Idle(a) /\ (running \/ a = "ticker") /\ holder = "none"
  /\ holder' = a
  /\ Clear
  /\ printed' = printed \o Head(calls[a])
  /\ UNCHANGED <<width, narrowed, cursor, running, stop, ticker, viewer, calls>>

\* And they end: render a new frame under the lock of the view, paint it.
Leave(a, lines) ==
  /\ holder = a /\ viewer = "none"
  /\ painted' = FrameOf(lines)
  /\ narrowed' = (narrowed \/ RowsOf(FrameOf(lines), width) # lines)
  /\ holder' = "none"
  /\ calls' = [calls EXCEPT ![a] = Tail(@)]
  /\ UNCHANGED <<width, cursor, printed, junk, running, stop, ticker, viewer>>

\* Without a running region the lines are printed as they are.
PrintPlain(a) ==
  /\ ~Idle(a) /\ ~running /\ a # "ticker"
  /\ printed' = printed \o Head(calls[a])
  /\ calls' = [calls EXCEPT ![a] = Tail(@)]
  /\ UNCHANGED <<width, narrowed, cursor, painted, junk, running, stop, ticker, holder, viewer>>

\* The ticker draws at once, then at every tick ...
Tick ==
  /\ ticker = "on" /\ Idle("ticker")
  /\ calls' = [calls EXCEPT !["ticker"] = <<Redraw>>]
  /\ UNCHANGED <<width, narrowed, screen, running, stop, ticker, holder, viewer>>

\* ... until stop is closed.
TickerStops ==
  /\ ticker = "on" /\ Idle("ticker") /\ stop
  /\ ticker' = "gone"
  /\ UNCHANGED <<width, narrowed, screen, running, stop, holder, viewer, calls>>

Stop ==
  /\ running /\ ~stop
  /\ stop' = TRUE
  /\ UNCHANGED <<width, narrowed, screen, running, ticker, holder, viewer, calls>>

\* Mutant: the region is cleared without waiting for the ticker.
StoppedAtOnce ==
  /\ stop /\ running /\ holder = "none"
  /\ Clear /\ cursor' = "shown" /\ running' = FALSE
  /\ UNCHANGED <<width, narrowed, printed, stop, ticker, holder, viewer, calls>>

\* The ticker is gone: clear the region and give the cursor back.
Stopped ==
  /\ stop /\ running /\ ticker = "gone" /\ holder = "none"
  /\ Clear /\ cursor' = "shown" /\ running' = FALSE
  /\ UNCHANGED <<width, narrowed, printed, stop, ticker, holder, viewer, calls>>

\* The user resizes the terminal, which lays its rows out again.
Resize(w) ==
  /\ ~narrowed /\ w # width
  /\ width' = w
  /\ narrowed' = (RowsOf(painted, w) # painted.lines)
  /\ UNCHANGED <<screen, running, stop, ticker, holder, viewer, calls>>

InitRegion ==
  /\ width \in Widths /\ narrowed = FALSE
  /\ cursor = "shown" /\ printed = <<>> /\ painted = NoFrame /\ junk = 0
  /\ running = FALSE /\ stop = FALSE /\ ticker = "none"
  /\ holder = "none" /\ viewer = "none"
  /\ calls = [a \in Actors |-> <<>>]

RegionTypeOK ==
  /\ width \in Widths /\ narrowed \in BOOLEAN /\ cursor \in {"shown", "hidden"}
  /\ painted \in [lines : Nat, len : Nat] /\ junk \in Nat
  /\ running \in BOOLEAN /\ stop \in BOOLEAN /\ ticker \in {"none", "on", "gone"}
  /\ holder \in Actors \union {"none"} /\ viewer \in Actors \union {"none"}
  /\ DOMAIN calls = Actors
=============================================================================
