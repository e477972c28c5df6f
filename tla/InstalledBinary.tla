--------------------------- MODULE InstalledBinary --------------------------
(***************************************************************************)
(* What sdw-armor upgrade promises about the binary it replaces, whatever  *)
(* fails on the way: the file at its path is always a whole file, another  *)
(* one takes its place at once and at most once per upgrade, and what an   *)
(* upgrade says at its end tells whether it did.                           *)
(***************************************************************************)
CONSTANTS
  Upgrades,  \* the runs of sdw-armor upgrade
  Wanted,    \* the releases an upgrade may install
  Whole      \* the files that may stand at the path of the binary

VARIABLES
  installed,  \* the file at the path of the binary
  stage       \* of each upgrade

Stages ==
  {"before", "after"} \union           \* it has not, or has, put a file in place
  {"declined",                         \* it ended, and nothing was changed
   "done",                             \* it says that the release is installed
   "broken",                           \* it says that something went wrong
   "killed"}

Move(u, from, to) == stage[u] \in from /\ stage' = [stage EXCEPT ![u] = to]

Init == installed \in Whole /\ stage = [u \in Upgrades |-> "before"]

\* One file takes the place of another.
Install(u) ==
  /\ Move(u, {"before"}, "after")
  /\ \E w \in Wanted : installed' \in {f \in Whole : f.version = w}

\* An upgrade that puts nothing in place ends with or without an error.
End(u) ==
  /\ Move(u, {"before"}, "declined") \/ Move(u, {"before", "after"}, "broken")
  /\ UNCHANGED installed

\* Only an upgrade that put its file in place says so.
Finish(u) == Move(u, {"after"}, "done") /\ UNCHANGED installed

Die(u) == Move(u, {"before", "after"}, "killed") /\ UNCHANGED installed

Next == \E u \in Upgrades : Install(u) \/ End(u) \/ Finish(u) \/ Die(u)

Spec == Init /\ [][Next]_<<installed, stage>>
=============================================================================
