----------------------------- MODULE MCLockout -----------------------------
(* Root and one or two other accounts, as model values.                    *)
EXTENDS Lockout
CONSTANTS root, u1, u2

\* Nothing happens to the accounts while runs follow each other.
QuietNext == (\E rules \in SUBSET Rules \ {{}} : Plan(rules)) \/ Guard \/ Converge
QuietSpec == Init /\ [][QuietNext]_vars
=============================================================================
