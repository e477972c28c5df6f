---------------------------- MODULE RebootProof ----------------------------
(***************************************************************************)
(* Audits of hosts that reboot, and what "reboot-proven" rests on          *)
(* (internal/scan, model.Rebooted).                                        *)
(*                                                                         *)
(* A scan first reads the identity of the target, then lets the engine     *)
(* probe the controls one after the other, then builds a report that       *)
(* carries the identity and, when a baseline was given, compares the two.  *)
(* Machines reboot and drift at any moment in between.                     *)
(***************************************************************************)
EXTENDS Naturals, FiniteSets

CONSTANTS
  Machines,    \* machines that may answer at the audited address
  MachineId,   \* /etc/machine-id of each of them, "" when it has none
  Hostname,    \* what uname -n says on each of them
  Controls,    \* the selected controls
  LiveOnly,    \* those that read nothing on disk
  MaxBoot,     \* bound on the reboots of one machine
  MaxClock,    \* bound on the clock of the auditor, in seconds
  MaxReports   \* bound on the reports kept

ASSUME RebootProofAssumption ==
  /\ MachineId \in [Machines -> STRING]
  /\ Hostname \in [Machines -> STRING]
  /\ LiveOnly \subseteq Controls
  /\ MaxBoot \in Nat /\ MaxClock \in Nat /\ MaxReports \in Nat

VARIABLES
  machine,  \* the machine that answers now
  boot,     \* which boot each machine runs
  live,     \* the controls whose live state is compliant, of each machine
  disk,     \* the controls whose persisted state is compliant, of each machine
  clock,    \* the auditor's clock
  scan,     \* the scan that is running, if any
  reports   \* the reports saved so far

world == <<machine, boot, live, disk, clock>>
vars  == <<machine, boot, live, disk, clock, scan, reports>>

----------------------------------------------------------------------------
(* Identities.  A boot id names one boot of one machine.                   *)

BootIds == [m : Machines, n : Nat]
Hosts   == [bootId : BootIds, machineHash : STRING, hostname : STRING]
NoHost  == [bootId |-> "unread"]

HostOf == [bootId      |-> [m |-> machine, n |-> boot[machine]],
           machineHash |-> MachineId[machine],
           hostname    |-> Hostname[machine]]

\* Mutant: the boot ids are no longer compared.
RebootedAnyBoot(before, after) == before # NoHost /\ after # NoHost

Rebooted(before, after) ==
  /\ before # NoHost /\ after # NoHost
  /\ ~(/\ before.machineHash # "" /\ after.machineHash # ""
       /\ before.machineHash # after.machineHash)
  /\ ~(/\ before.machineHash = "" /\ after.machineHash = ""
       /\ before.hostname # after.hostname)
  /\ before.bootId # after.bootId

----------------------------------------------------------------------------
(* Results of one control.  The program knows baseline, the boot id that   *)
(* the baseline carries.  The fields in and from are history: the boot the *)
(* control was really observed in, and the boot in which the earlier pass  *)
(* that a reboot proof rests on was really observed.                       *)

Never == [m |-> "never"]

Results == [status : {"absent", "pass", "fail", "error"},
            qualifier : {"durable", "runtime-only", "pending", "none"},
            onDisk : {"proven", "failed", "not_measured"},
            reboot : {"expected", "failed", "not_measured", "proven", "lost"},
            baseline : BootIds \union {Never},
            in : BootIds \union {Never}, from : BootIds \union {Never}]

\* What one control gives when the engine evaluates it now (see Verdict).
Observe(c) ==
  LET up   == c \in live[machine]
      kept == c \in disk[machine]
      d    == IF c \in LiveOnly THEN "not_measured" ELSE IF kept THEN "proven" ELSE "failed"
  IN [status    |-> IF up THEN "pass" ELSE "fail",
      qualifier |-> CASE up /\ d = "proven"   -> "durable"
                      [] up /\ d # "proven"   -> "runtime-only"
                      [] ~up /\ d = "proven"  -> "pending"
                      [] OTHER                -> "none",
      onDisk    |-> d,
      reboot    |-> CASE d = "proven" -> "expected"
                      [] d = "failed" -> "failed"
                      [] OTHER        -> "not_measured",
      baseline  |-> Never,
      in        |-> HostOf.bootId,
      from      |-> Never]

\* A control that a report, or a scan so far, does not have.
Absent ==
  [status |-> "absent", qualifier |-> "none", onDisk |-> "not_measured",
   reboot |-> "not_measured", baseline |-> Never, in |-> Never, from |-> Never]

\* Mutant: the status of a control without a result stays unset.
NoResultUnset == [Absent EXCEPT !.status = "", !.in = HostOf.bootId]

\* The engine returned no result for a control.
NoResult == [Absent EXCEPT !.status = "error", !.in = HostOf.bootId]

\* Mutant: what a skipped or failed baseline says counts as well.
ComparedToAny(cur, base, id) ==
  IF base.status = "absent" \/ cur.status = "absent" THEN cur
  ELSE IF cur.status = "pass"
    THEN [cur EXCEPT !.reboot = "proven", !.qualifier = "durable",
                     !.baseline = id, !.from = base.in]
    ELSE [cur EXCEPT !.reboot = "lost", !.baseline = id, !.from = base.in]

\* Mutant: the qualifier is lifted before the two statuses are compared.
ComparedLifting(cur, base, id) ==
  IF base.status # "pass" \/ cur.status = "absent" THEN cur
  ELSE [cur EXCEPT !.reboot = IF cur.status = "pass" THEN "proven" ELSE "lost",
                   !.qualifier = "durable", !.baseline = id, !.from = base.in]

\* A control of the current scan compared with the same control of a baseline.
Compared(cur, base, id) ==
  IF base.status # "pass" \/ cur.status = "absent" THEN cur
  ELSE IF cur.status = "pass"
    THEN [cur EXCEPT !.reboot = "proven", !.qualifier = "durable",
                     !.baseline = id, !.from = base.in]
    ELSE [cur EXCEPT !.reboot = "lost", !.baseline = id, !.from = base.in]

\* A report: the identity read when its scan began, and its controls.
Reports == [host : Hosts \union {NoHost}, at : Nat, ctl : [Controls -> Results]]

ApplyRebootBaseline(ctl, base) ==
  [c \in Controls |-> Compared(ctl[c], base.ctl[c], base.host.bootId)]

----------------------------------------------------------------------------
(* The scan.                                                               *)

Idle == [pc |-> "idle"]

NoBaseline == [at |-> "none"]

Scans == {Idle} \union
  [pc : {"auditing"}, base : Reports \union {NoBaseline}, host : Hosts \union {NoHost},
   selected : SUBSET Controls, got : [Controls -> Results]]

NewScan(base, host, selected) ==
  [pc |-> "auditing", base |-> base, host |-> host, selected |-> selected,
   got |-> [c \in Controls |-> Absent]]

\* The identity is best effort without a baseline; with one, it must be read
\* and differ from the baseline's.
StartScan(base, selected) ==
  /\ scan = Idle
  /\ \E host \in {HostOf, NoHost} :
       /\ base # NoBaseline => Rebooted(base.host, host)
       /\ scan' = NewScan(base, host, selected)
  /\ UNCHANGED <<world, reports>>

\* The engine evaluates one more control.
Probe(c) ==
  /\ scan.pc = "auditing" /\ c \in scan.selected /\ scan.got[c] = Absent
  /\ scan' = [scan EXCEPT !.got[c] = Observe(c)]
  /\ UNCHANGED <<world, reports>>

\* Build: a selected control without a result is an error.
Built == [c \in Controls |->
            IF c \in scan.selected /\ scan.got[c] = Absent THEN NoResult ELSE scan.got[c]]

\* Mutant: the identity is read again when the report is built.
FinishedReportReread ==
  [host |-> HostOf, at |-> clock,
   ctl  |-> IF scan.base = NoBaseline THEN Built ELSE ApplyRebootBaseline(Built, scan.base)]

FinishedReport ==
  [host |-> scan.host, at |-> clock,
   ctl  |-> IF scan.base = NoBaseline THEN Built ELSE ApplyRebootBaseline(Built, scan.base)]

\* The comparison is refused when the baseline is not older than the report.
Finishable ==
  /\ scan.pc = "auditing"
  /\ scan.base # NoBaseline =>
       Rebooted(scan.base.host, scan.host) /\ scan.base.at < clock

Finish ==
  /\ Finishable
  /\ Cardinality(reports) < MaxReports
  /\ reports' = reports \union {FinishedReport}
  /\ scan' = Idle
  /\ UNCHANGED world

\* Run returns an error: no report.
Abort ==
  /\ scan.pc = "auditing"
  /\ scan' = Idle
  /\ UNCHANGED <<world, reports>>

----------------------------------------------------------------------------
(* The hosts.                                                              *)

\* At a boot the live state is whatever the boot sets up: what is persisted,
\* or what something else applies.  No second passes without a tick.
Reboot(S) ==
  /\ boot[machine] < MaxBoot /\ clock < MaxClock
  /\ boot' = [boot EXCEPT ![machine] = @ + 1]
  /\ clock' = clock + 1
  /\ live' = [live EXCEPT ![machine] = S]
  /\ UNCHANGED <<machine, disk, scan, reports>>

\* Somebody changes the live or the persisted state of a control, if it has one.
Drift(c) ==
  /\ \/ /\ live' = [live EXCEPT ![machine] = IF c \in @ THEN @ \ {c} ELSE @ \union {c}]
        /\ UNCHANGED disk
     \/ /\ c \notin LiveOnly
        /\ disk' = [disk EXCEPT ![machine] = IF c \in @ THEN @ \ {c} ELSE @ \union {c}]
        /\ UNCHANGED live
  /\ UNCHANGED <<machine, boot, clock, scan, reports>>

Tick ==
  /\ clock < MaxClock
  /\ clock' = clock + 1
  /\ UNCHANGED <<machine, boot, live, disk, scan, reports>>

\* Between two scans another machine takes over the address.
Replace(m) ==
  /\ scan = Idle
  /\ machine' = m
  /\ UNCHANGED <<boot, live, disk, clock, scan, reports>>

----------------------------------------------------------------------------

TypeOK ==
  /\ machine \in Machines
  /\ boot \in [Machines -> Nat]
  /\ live \in [Machines -> SUBSET Controls]
  /\ disk \in [Machines -> SUBSET Controls]
  /\ clock \in Nat
  /\ scan \in Scans
  /\ reports \subseteq Reports

Init ==
  /\ machine \in Machines
  /\ boot = [m \in Machines |-> 0]
  /\ live \in [Machines -> SUBSET Controls]
  /\ disk \in [Machines -> SUBSET (Controls \ LiveOnly)]
  /\ clock = 0
  /\ scan = Idle
  /\ reports = {}

ScanStep ==
  \/ \E base \in reports \union {NoBaseline} : StartScan(base, Controls)
  \/ \E c \in Controls : Probe(c)
  \/ Finish
  \/ Abort

HostStep ==
  \/ \E S \in SUBSET Controls : Reboot(S)
  \/ \E c \in Controls : Drift(c)
  \/ Tick
  \/ \E m \in Machines : Replace(m)

Next == ScanStep \/ HostStep

Spec == Init /\ [][Next]_vars

----------------------------------------------------------------------------
(* What a reboot proof is worth.                                           *)

Compares(r, c) == r.ctl[c].reboot \in {"proven", "lost"}

\* The pass that a comparison starts from was observed in the boot that the
\* baseline carries: no reboot came between reading the identity of the
\* baseline and probing that control.
Untorn(r, c) == r.ctl[c].from = r.ctl[c].baseline

\* machine-id or, without any, the host name tells two machines apart.
ToldApart(m1, m2) ==
  \/ MachineId[m1] # "" /\ MachineId[m2] # "" /\ MachineId[m1] # MachineId[m2]
  \/ MachineId[m1] = "" /\ MachineId[m2] = "" /\ Hostname[m1] # Hostname[m2]

\* A control called reboot-proven or lost at the reboot passed in one boot and
\* was observed again in a later boot, of the same machine or of one that
\* cannot be told from it, whatever reboots, drift and scans came in between
\* (docs/SCORING.md section 4); the pass may itself come from a compared report.
ComparedAcrossBoots ==
  \A r \in reports : \A c \in Controls :
    Compares(r, c) /\ Untorn(r, c) =>
      LET before == r.ctl[c].from
          after  == r.ctl[c].in
      IN /\ ~ToldApart(before.m, after.m)
         /\ before.m = after.m => before.n < after.n

\* Every comparison rests on an older report in which that control passed.
ComparedWithAPass ==
  \A r \in reports : \A c \in Controls :
    Compares(r, c) => \E b \in reports : /\ b.host # NoHost
                                        /\ b.at < r.at
                                        /\ b.ctl[c].status = "pass"
                                        /\ b.ctl[c].in = r.ctl[c].from
                                        /\ b.host.bootId = r.ctl[c].baseline

\* The identity of a report is that of the machine it observed, in the boot of
\* its first observation or in an earlier one, never in a later one.
IdentityIsEarliest ==
  \A r \in reports : r.host # NoHost =>
    \A c \in Controls : r.ctl[c].in # Never =>
      r.ctl[c].in.m = r.host.bootId.m /\ r.host.bootId.n <= r.ctl[c].in.n

\* docs/SCORING.md: "a control that passed before the reboot and passes after
\* it is reboot-proven": every proof, also one whose baseline was interrupted.
ProvenMeansRebooted ==
  \A r \in reports : \A c \in Controls :
    r.ctl[c].reboot = "proven" => r.ctl[c].from # r.ctl[c].in

\* A pass may only be called durable when the disk keeps it or a comparison
\* with an earlier pass lifted it, and a control whose last observation failed
\* is never durable.
DurableIsEarned ==
  \A r \in reports : \A c \in Controls :
    r.ctl[c].qualifier = "durable" =>
      /\ r.ctl[c].status = "pass"
      /\ r.ctl[c].onDisk = "proven" \/ r.ctl[c].reboot = "proven"
=============================================================================
