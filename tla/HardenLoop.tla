----------------------------- MODULE HardenLoop -----------------------------
(***************************************************************************)
(* The closed loop of sdw-armor harden (internal/cli/harden.go,            *)
(* reboot.go): audit, plan, guards, converge, audit the fixed controls     *)
(* again, merge, reboot, wait for the new boot, prove.                     *)
(*                                                                         *)
(* The scans are those of RebootProof; the machine may reboot between any  *)
(* two steps.  The process ends with an exit code and, when it gets there, *)
(* a report written with -o.                                               *)
(***************************************************************************)
EXTENDS RebootProof

CONSTANTS
  Fixable,    \* the controls with an automatic remediation
  Automated,  \* those of them with an action for the platform of the target
  Options     \* the command lines explored

OptionSet == [source : {"audit", "from", "plan"},
              mode   : {"apply", "dryRun", "noVerify", "planOut"},
              reboot : BOOLEAN, ask : BOOLEAN, force : BOOLEAN]

ASSUME HardenLoopAssumption ==
  /\ Automated \subseteq Fixable /\ Fixable \subseteq Controls
  /\ Options \subseteq OptionSet
  /\ \A o \in Options : o.reboot => o.mode = "apply"

VARIABLES
  opt,     \* the options of this run
  step,    \* where harden is
  base,    \* the report the plan was made from, if any
  plan,    \* the controls of the plan
  pre,     \* base with the re-audited controls merged in
  exit,    \* the exit code
  saved,   \* the report written with -o
  applied, \* history: the boot in which the converge ended
  known    \* history: the re-audit could read the identity of the host

run      == <<opt, step, base, plan, pre, exit, saved, applied, known>>
loopVars == <<vars, run>>

Steps == {"begin", "audit", "choose", "guard", "confirm", "converge", "verify",
          "reaudit", "reboot", "wait", "settled", "prove", "done"}
Codes == {"none", "ok", "policy", "usage", "prereq", "engine"}

\* The process ends with a code; what it wrote stays.
End(code) == step' = "done" /\ exit' = code

----------------------------------------------------------------------------
(* Selection.                                                              *)

Candidates(r) ==
  {c \in Fixable : \/ r.ctl[c].status \in {"fail", "error"}
                   \/ r.ctl[c].status = "pass" /\ r.ctl[c].qualifier = "runtime-only"}

\* An earlier sdw-armor scan saves a report, for --from.
EarlierScan ==
  /\ step = "begin" /\ opt.source = "from"
  /\ \/ reports = {} /\ StartScan(NoBaseline, Controls)
     \/ \E c \in Controls : Probe(c)
     \/ Finish
  /\ UNCHANGED run

BeginAudit ==
  /\ step = "begin" /\ opt.source = "audit"
  /\ StartScan(NoBaseline, Controls)
  /\ step' = "audit"
  /\ UNCHANGED <<opt, base, plan, pre, exit, saved, applied, known>>

BeginFrom ==
  /\ step = "begin" /\ opt.source = "from" /\ scan = Idle
  /\ base' \in reports
  /\ step' = "choose"
  /\ UNCHANGED <<vars, opt, plan, pre, exit, saved, applied, known>>

\* A plan file: any selection made on this platform before.
BeginPlan ==
  /\ step = "begin" /\ opt.source = "plan"
  /\ plan' \in SUBSET Automated
  /\ step' = "guard"
  /\ UNCHANGED <<vars, opt, base, pre, exit, saved, applied, known>>

Audited ==
  /\ step = "audit" /\ Finishable
  /\ base' = FinishedReport /\ scan' = Idle
  /\ step' = "choose"
  /\ UNCHANGED <<world, reports, opt, plan, pre, exit, saved, applied, known>>

\* No candidate, no terminal or a refusal ends the run; so does --plan-out.
Choose ==
  /\ step = "choose"
  /\ \/ \E chosen \in SUBSET Candidates(base) \ {{}} :
          /\ plan' = chosen \cap Automated
          /\ IF opt.mode = "planOut" THEN End("ok") ELSE step' = "guard" /\ UNCHANGED exit
     \/ UNCHANGED plan /\ \E code \in {"ok", "usage"} : End(code)
  /\ UNCHANGED <<vars, opt, base, pre, saved, applied, known>>

\* Any selection of the rules may be stopped (see Lockout).
Guard ==
  /\ step = "guard"
  /\ \/ \E stopped \in SUBSET plan :
          LET drop == IF opt.force THEN {} ELSE stopped
          IN /\ plan' = plan \ drop
             /\ IF drop # {} /\ drop = plan
                  THEN End("policy")
                  ELSE step' = "confirm" /\ UNCHANGED exit
     \/ UNCHANGED plan /\ End("prereq")
  /\ UNCHANGED <<vars, opt, base, pre, saved, applied, known>>

Confirm ==
  /\ step = "confirm"
  /\ \/ step' = "converge" /\ UNCHANGED exit
     \/ opt.ask /\ opt.source = "plan" /\ End("ok")
  /\ UNCHANGED <<vars, opt, base, plan, pre, saved, applied, known>>

----------------------------------------------------------------------------
(* Converge and audit again.                                               *)

\* The fixes write what persists first; each of the two steps may be
\* impossible on this host.  A failed run stops anywhere.
Converge ==
  /\ step = "converge"
  /\ IF opt.mode = "dryRun" THEN UNCHANGED <<live, disk>>
     ELSE \E D \in SUBSET plan : \E L \in SUBSET D :
            /\ disk' = [disk EXCEPT ![machine] = @ \union D]
            /\ live' = [live EXCEPT ![machine] = @ \union L]
  /\ \/ End("engine")
     \/ opt.mode \in {"dryRun", "noVerify"} /\ End("ok")
     \/ opt.mode = "apply" /\ step' = "verify" /\ UNCHANGED exit
  /\ applied' = HostOf.bootId
  /\ UNCHANGED <<machine, boot, clock, scan, reports, opt, base, plan, pre, saved, known>>

ClientMissing ==
  /\ step = "converge" /\ End("prereq")
  /\ UNCHANGED <<vars, opt, base, plan, pre, saved, applied, known>>

\* An empty list of ids is no filter.
Reselected == IF plan = {} THEN Controls ELSE plan

Reaudit ==
  /\ step = "verify"
  /\ StartScan(NoBaseline, Reselected)
  /\ step' = "reaudit"
  /\ UNCHANGED <<opt, base, plan, pre, exit, saved, applied, known>>

\* Mutant: the results of the base report win.
MergedKeepingBase(b, after) ==
  IF b = NoBaseline THEN after
  ELSE [host |-> IF after.host # NoHost THEN after.host ELSE b.host, at |-> after.at,
        ctl  |-> [c \in Controls |->
                    IF b.ctl[c].status # "absent" THEN b.ctl[c] ELSE after.ctl[c]]]

\* Mutant: the merged report keeps the identity of the base report.
MergedKeepingHost(b, after) ==
  IF b = NoBaseline THEN after
  ELSE [host |-> b.host, at |-> after.at,
        ctl  |-> [c \in Controls |->
                    IF b.ctl[c].status # "absent" /\ after.ctl[c].status # "absent"
                      THEN after.ctl[c] ELSE b.ctl[c]]]

MergeReports(b, after) ==
  IF b = NoBaseline THEN after
  ELSE [host |-> IF after.host # NoHost THEN after.host ELSE b.host,
        at   |-> after.at,
        ctl  |-> [c \in Controls |->
                    IF b.ctl[c].status # "absent" /\ after.ctl[c].status # "absent"
                      THEN after.ctl[c] ELSE b.ctl[c]]]

Still(after) ==
  {c \in plan : ~(after.ctl[c].status = "pass" /\ after.ctl[c].qualifier = "durable")}

Reaudited ==
  /\ step = "reaudit" /\ Finishable
  /\ LET merged == MergeReports(base, FinishedReport)
     IN /\ pre' = merged
        /\ IF opt.reboot
             THEN step' = "reboot" /\ UNCHANGED <<exit, saved>>
             ELSE /\ saved' = merged
                  /\ End(IF Still(FinishedReport) # {} THEN "policy" ELSE "ok")
  /\ known' = (scan.host # NoHost)
  /\ scan' = Idle
  /\ UNCHANGED <<world, reports, opt, base, plan, applied>>

\* An audit ends in an error.
ScanFails ==
  /\ step \in {"audit", "reaudit", "prove"}
  /\ scan' = Idle
  /\ \E code \in {"prereq", "engine"} : End(code)
  /\ UNCHANGED <<world, reports, opt, base, plan, pre, saved, applied, known>>

----------------------------------------------------------------------------
(* Reboot and prove.                                                       *)

\* The script only detaches the reboot; the machine may never go down.
AskReboot ==
  /\ step = "reboot"
  /\ CASE pre.host = NoHost -> End("prereq")
       [] OTHER -> \/ opt.ask /\ End("ok")
                   \/ End("engine")
                   \/ step' = "wait" /\ UNCHANGED exit
  /\ UNCHANGED <<vars, opt, base, plan, pre, saved, applied, known>>

\* A poll answers with another boot id than the one in the report.
NewBoot ==
  /\ step = "wait" /\ HostOf.bootId # pre.host.bootId
  /\ step' = "settled"
  /\ UNCHANGED <<vars, opt, base, plan, pre, exit, saved, applied, known>>

\* --reboot-timeout, after a poll without an answer or with the old boot.
TimedOut ==
  /\ step = "wait" /\ End("prereq")
  /\ UNCHANGED <<vars, opt, base, plan, pre, saved, applied, known>>

Prove ==
  /\ step = "settled"
  /\ StartScan(pre, Controls)
  /\ step' = "prove"
  /\ UNCHANGED <<opt, base, plan, pre, exit, saved, applied, known>>

\* --reboot-baseline is refused before or after the engine has run.
ProofRefused ==
  /\ \/ step = "settled" /\ \E host \in {HostOf, NoHost} : ~Rebooted(pre.host, host)
     \/ step = "prove" /\ ~Finishable
  /\ scan' = Idle
  /\ End("usage")
  /\ UNCHANGED <<world, reports, opt, base, plan, pre, saved, applied, known>>

\* Fixed controls that do not pass, and passes lost at the reboot.
Unproven(post) ==
  {c \in plan : post.ctl[c].status # "pass"} \union
  {c \in Controls : post.ctl[c].reboot = "lost"}

Proved ==
  /\ step = "prove" /\ Finishable
  /\ saved' = FinishedReport
  /\ scan' = Idle
  /\ End(IF Unproven(FinishedReport) # {} THEN "policy" ELSE "ok")
  /\ UNCHANGED <<world, reports, opt, base, plan, pre, applied, known>>

----------------------------------------------------------------------------

InitLoop ==
  /\ Init
  /\ opt \in Options
  /\ step = "begin"
  /\ base = NoBaseline /\ plan = {} /\ pre = NoBaseline
  /\ exit = "none" /\ saved = NoBaseline
  /\ applied = Never /\ known = FALSE

Probing ==
  /\ step \in {"audit", "reaudit", "prove"}
  /\ \E c \in Controls : Probe(c)
  /\ UNCHANGED run

Command ==
  \/ BeginAudit \/ BeginFrom \/ BeginPlan \/ Audited \/ Choose \/ Guard \/ Confirm
  \/ Converge \/ ClientMissing \/ Reaudit \/ Reaudited \/ ScanFails
  \/ AskReboot \/ NewBoot \/ TimedOut \/ Prove \/ ProofRefused \/ Proved \/ Probing

\* The machine reboots at any moment, asked or not.  Only the proof scan
\* compares times: elsewhere seconds pass unseen.
Surroundings ==
  /\ step # "done"
  /\ \/ \E S \in SUBSET Controls : Reboot(S)
     \/ step \in {"wait", "settled", "prove"} /\ Tick
     \/ step = "begin" /\ \E m \in Machines : Replace(m)
  /\ UNCHANGED run

NextLoop == Command \/ EarlierScan \/ Surroundings

LoopSpec == InitLoop /\ [][NextLoop]_loopVars

LoopTypeOK ==
  /\ TypeOK
  /\ opt \in Options /\ step \in Steps /\ exit \in Codes
  /\ base \in Reports \union {NoBaseline}
  /\ pre \in Reports \union {NoBaseline}
  /\ saved \in Reports \union {NoBaseline}
  /\ plan \subseteq Automated
  /\ applied \in BootIds \union {Never} /\ known \in BOOLEAN

----------------------------------------------------------------------------
(* What the exit code and the written report are worth.                    *)

\* The run got as far as a verdict: a report after the converge.
Verified == exit \in {"ok", "policy"} /\ saved # NoBaseline

\* Exit 0 of a run without --reboot: the written report says pass, durable, of
\* every fixed control, as observed after the converge ended (HARDENING.md:28).
ZeroIsDurable ==
  Verified /\ exit = "ok" /\ ~opt.reboot =>
    \A c \in plan : /\ saved.ctl[c].status = "pass" /\ saved.ctl[c].qualifier = "durable"
                    /\ saved.ctl[c].in.n >= applied.n

\* Exit 0 of a run with --reboot whose re-audit knew its host: every fixed
\* control passes, observed in a later boot than the converge ended in, and no
\* control that passed before, fixed or not, was seen failing.
SurvivedAReboot ==
  Verified /\ exit = "ok" /\ opt.reboot /\ known =>
    /\ \A c \in plan : saved.ctl[c].status = "pass" /\ saved.ctl[c].in.n > applied.n
    /\ \A c \in Controls :
         pre.ctl[c].status = "pass" => saved.ctl[c].status = "pass"

\* "Exit code 1 when some fixed control is still not durably compliant"
\* (HARDENING.md:28), whenever the fixed controls were audited again.
ZeroMeansCompliant ==
  exit = "ok" /\ pre # NoBaseline /\ (opt.reboot => saved = NoBaseline) =>
    \A c \in plan : pre.ctl[c].status = "pass" /\ pre.ctl[c].qualifier = "durable"

\* "Closed loop: audit the fixed controls again" (harden.go:265): nothing else.
ReauditsThePlan ==
  step = "reaudit" => scan.selected = plan
=============================================================================
