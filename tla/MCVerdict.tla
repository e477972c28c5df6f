----------------------------- MODULE MCVerdict -----------------------------
(* One control with up to three assertions of every name and outcome.      *)
EXTENDS Verdict

MCDeclared == {"", "runtime", "inventory", "transient"}
=============================================================================
