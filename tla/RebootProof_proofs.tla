------------------------ MODULE RebootProof_proofs ------------------------
(***************************************************************************)
(* What a reboot proof rests on, for any number of machines, controls,     *)
(* reboots and reports: the baseline's pass and the new observation come   *)
(* from two boots, unless a reboot interrupted the scan of the baseline.   *)
(* And what harden's exit 0 is worth, for any controls and any set of      *)
(* command lines: with --reboot and without it.                            *)
(***************************************************************************)
EXTENDS HardenLoop, TLAPS

\* A control was observed in a boot that the machine has reached.
Reached(id) == id # Never => id.n <= boot[id.m]

\* The identity of a machine, as it was in a boot it has reached.
HostIsReal(h) ==
  /\ h.bootId.n <= boot[h.bootId.m]
  /\ h.machineHash = MachineId[h.bootId.m]
  /\ h.hostname = Hostname[h.bootId.m]

\* What the identity h says of an observation made after it was read.
SeenSince(h, id) == id # Never => id.m = h.bootId.m /\ h.bootId.n <= id.n

ControlIsReal(x) == (x.status # "absent" => x.in # Never) /\ Reached(x.in)

ReportIsReal(r) ==
  /\ r.at <= clock
  /\ r.host # NoHost => HostIsReal(r.host)
  /\ \A c \in Controls : ControlIsReal(r.ctl[c])

ReportsAreReal == \A r \in reports : ReportIsReal(r)

\* A result that no baseline was applied to yet.
Fresh(x) == x.reboot \notin {"proven", "lost"}
            /\ (x.qualifier = "durable" => x.status = "pass" /\ x.onDisk = "proven")
            /\ (x.status # "absent" => x.in # Never)
            /\ (x = Absent \/ x.status # "absent")

\* The running scan: its identity and its observations are of the machine that
\* answers, and its baseline was saved before the identity was read.
IdentityIsReal == scan.host # NoHost => HostIsReal(scan.host) /\ scan.host.bootId.m = machine

ProbeIsReal(c) ==
  /\ Fresh(scan.got[c])
  /\ Reached(scan.got[c].in)
  /\ scan.got[c].in # Never => scan.got[c].in.m = machine
  /\ scan.host # NoHost => SeenSince(scan.host, scan.got[c].in)

BaselineIsOlder ==
  scan.base # NoBaseline =>
    /\ scan.base \in reports
    /\ Rebooted(scan.base.host, scan.host)
    /\ \A c \in Controls :
         LET id == scan.base.ctl[c].in
         IN id # Never /\ id.m = machine => id.n <= scan.host.bootId.n

ScanIsReal ==
  scan # Idle =>
    IdentityIsReal /\ (\A c \in Controls : ProbeIsReal(c)) /\ BaselineIsOlder

IInv == /\ TypeOK
        /\ ReportsAreReal
        /\ ScanIsReal
        /\ ComparedAcrossBoots
        /\ ComparedWithAPass
        /\ IdentityIsEarliest
        /\ DurableIsEarned

----------------------------------------------------------------------------
(* Types of the values a step computes.                                    *)

LEMMA HostOfType ==
  ASSUME TypeOK
  PROVE  /\ HostOf \in Hosts /\ HostOf # NoHost
         /\ HostOf.bootId = [m |-> machine, n |-> boot[machine]]
         /\ HostOf.bootId \in BootIds /\ HostOf.bootId # Never
         /\ HostIsReal(HostOf)
<1>1. HostOf.bootId = [m |-> machine, n |-> boot[machine]]
  BY DEF HostOf
<1>2. HostOf.bootId \in BootIds
  BY <1>1 DEF TypeOK, BootIds
<1>3. HostOf \in Hosts
  BY <1>2, RebootProofAssumption DEF TypeOK, Hosts, HostOf
<1>4. \A id \in BootIds : id # Never
  BY DEF BootIds, Never
<1>5. HostOf # NoHost
  BY DEF HostOf, NoHost
<1>6. HostIsReal(HostOf)
  BY <1>1 DEF HostIsReal, HostOf, TypeOK
<1> QED
  BY <1>1, <1>2, <1>3, <1>4, <1>5, <1>6

LEMMA ObserveType ==
  ASSUME TypeOK, NEW c \in Controls
  PROVE  /\ Observe(c) \in Results
         /\ Fresh(Observe(c))
         /\ Observe(c).in = HostOf.bootId
<1> DEFINE r == Observe(c)
<1>1. r.in = HostOf.bootId /\ r.from = Never /\ r.baseline = Never
  BY DEF Observe
<1>2. r.onDisk \in {"not_measured", "proven", "failed"} /\ r.status \in {"pass", "fail"}
  BY DEF Observe
<1>3. r.qualifier \in {"durable", "runtime-only", "pending", "none"}
  BY DEF Observe
<1>4. r.reboot \in {"expected", "failed", "not_measured"}
  BY DEF Observe
<1>5. r.qualifier = "durable" => r.status = "pass" /\ r.onDisk = "proven"
  BY DEF Observe
<1>6. r = [status |-> r.status, qualifier |-> r.qualifier, onDisk |-> r.onDisk,
           reboot |-> r.reboot, baseline |-> r.baseline, in |-> r.in, from |-> r.from]
  BY DEF Observe
<1>7. r \in Results
  BY <1>1, <1>2, <1>3, <1>4, <1>6, HostOfType DEF Results
<1> QED
  BY <1>1, <1>2, <1>4, <1>5, <1>7, HostOfType DEF Fresh

LEMMA NoResultType ==
  ASSUME TypeOK
  PROVE  /\ NoResult \in Results
         /\ Fresh(NoResult)
         /\ NoResult.in = HostOf.bootId
  BY HostOfType DEF NoResult, Absent, Results, Fresh

LEMMA AbsentType ==
  Absent \in Results /\ Fresh(Absent) /\ Absent.in = Never
  BY DEF Absent, Results, Fresh

LEMMA ComparedType ==
  ASSUME NEW cur \in Results, NEW old \in Results, NEW id \in BootIds
  PROVE  Compared(cur, old, id) \in Results
<1>1. CASE old.status # "pass" \/ cur.status = "absent"
  BY <1>1 DEF Compared
<1>2. CASE ~(old.status # "pass" \/ cur.status = "absent")
  <2>1. old.in \in BootIds \union {Never}
    BY DEF Results
  <2>2. CASE cur.status = "pass"
    <3>1. Compared(cur, old, id) =
            [cur EXCEPT !.reboot = "proven", !.qualifier = "durable",
                        !.baseline = id, !.from = old.in]
      BY <1>2, <2>2 DEF Compared
    <3> QED
      BY <2>1, <3>1 DEF Results
  <2>3. CASE cur.status # "pass"
    <3>1. Compared(cur, old, id) =
            [cur EXCEPT !.reboot = "lost", !.baseline = id, !.from = old.in]
      BY <1>2, <2>3 DEF Compared
    <3> QED
      BY <2>1, <3>1 DEF Results
  <2> QED
    BY <2>2, <2>3
<1> QED
  BY <1>1, <1>2

----------------------------------------------------------------------------
(* The invariant is inductive.                                             *)

\* What the reports promise depends on the saved reports only.
ReportsProperties ==
  ComparedAcrossBoots /\ ComparedWithAPass /\ IdentityIsEarliest /\ DurableIsEarned

LEMMA ReportsUnchanged ==
  ASSUME ReportsProperties, reports' = reports
  PROVE  ReportsProperties'
<1>1. ComparedAcrossBoots'
  BY DEF ReportsProperties, ComparedAcrossBoots, Compares, Untorn, ToldApart
<1>2. ComparedWithAPass'
  BY DEF ReportsProperties, ComparedWithAPass, Compares
<1>3. IdentityIsEarliest'
  BY DEF ReportsProperties, IdentityIsEarliest
<1>4. DurableIsEarned'
  BY DEF ReportsProperties, DurableIsEarned
<1> QED
  BY <1>1, <1>2, <1>3, <1>4 DEF ReportsProperties

LEMMA InitInductive == Init => IInv
<1> SUFFICES ASSUME Init PROVE IInv
    OBVIOUS
<1>1. TypeOK
  BY DEF Init, TypeOK, Scans
<1>2. ReportsAreReal /\ ScanIsReal
  BY DEF Init, ReportsAreReal, ScanIsReal
<1>3. ReportsProperties
  BY DEF Init, ReportsProperties, ComparedAcrossBoots, ComparedWithAPass,
         IdentityIsEarliest, DurableIsEarned
<1> QED
  BY <1>1, <1>2, <1>3 DEF IInv, ReportsProperties

\* Boots and clocks only grow: what was reached stays reached.
LEMMA WorldAdvances ==
  ASSUME TypeOK, ReportsAreReal, ScanIsReal,
         \A m \in Machines : boot'[m] \in Nat /\ boot[m] <= boot'[m],
         clock' \in Nat, clock <= clock',
         machine' = machine \/ scan = Idle,
         scan' = scan, reports' = reports
  PROVE  ReportsAreReal' /\ ScanIsReal'
<1>1. \A id \in BootIds : id.n <= boot[id.m] => id.n <= boot'[id.m]
  BY DEF TypeOK, BootIds
<1>2. \A h \in Hosts : HostIsReal(h) => HostIsReal(h)'
  BY <1>1 DEF HostIsReal, Hosts
<1>3. \A id \in BootIds \union {Never} : Reached(id) => Reached(id)'
  BY <1>1 DEF Reached
<1>4. ASSUME NEW r \in reports
      PROVE  ReportIsReal(r)'
  <2>1. ReportIsReal(r) /\ r \in Reports
    BY DEF ReportsAreReal, TypeOK
  <2>2. r.at \in Nat /\ r.at <= clock /\ clock \in Nat
    BY <2>1 DEF ReportIsReal, Reports, TypeOK
  <2>3. r.at <= clock'
    BY <2>2
  <2>4. (r.host # NoHost => HostIsReal(r.host))'
    BY <1>2, <2>1 DEF ReportIsReal, Reports
  <2>5. \A c \in Controls : r.ctl[c] \in Results /\ ControlIsReal(r.ctl[c])
    BY <2>1 DEF ReportIsReal, Reports
  <2>6. \A c \in Controls : ControlIsReal(r.ctl[c])'
    BY <1>3, <2>5 DEF ControlIsReal, Results
  <2> QED
    BY <2>3, <2>4, <2>6 DEF ReportIsReal
<1>5. ReportsAreReal'
  BY <1>4 DEF ReportsAreReal
<1>6. CASE scan = Idle
  BY <1>5, <1>6 DEF ScanIsReal
<1>7. CASE scan # Idle
  <2>1. machine' = machine
    BY <1>7
  <2>2. scan \in Scans \ {Idle}
    BY <1>7 DEF TypeOK
  <2>3. /\ scan.host # NoHost => scan.host \in Hosts
        /\ \A c \in Controls : scan.got[c] \in Results
    BY <2>2 DEF Scans
  <2>4. IdentityIsReal /\ (\A c \in Controls : ProbeIsReal(c)) /\ BaselineIsOlder
    BY <1>7 DEF ScanIsReal
  <2>5. IdentityIsReal'
    BY <1>2, <2>1, <2>3, <2>4 DEF IdentityIsReal
  <2>6. ASSUME NEW c \in Controls
        PROVE  ProbeIsReal(c)'
    <3>1. Reached(scan.got[c].in)'
      BY <1>3, <2>3, <2>4 DEF ProbeIsReal, Results
    <3>2. Fresh(scan.got[c])'
      BY <2>4 DEF ProbeIsReal, Fresh
    <3>3. (scan.host # NoHost => SeenSince(scan.host, scan.got[c].in))'
      BY <2>4 DEF ProbeIsReal, SeenSince
    <3>4. (scan.got[c].in # Never => scan.got[c].in.m = machine)'
      BY <2>1, <2>4 DEF ProbeIsReal
    <3> QED
      BY <3>1, <3>2, <3>3, <3>4 DEF ProbeIsReal
  <2>7. BaselineIsOlder'
    BY <2>1, <2>4 DEF BaselineIsOlder, Rebooted
  <2> QED
    BY <1>5, <2>5, <2>6, <2>7 DEF ScanIsReal
<1> QED
  BY <1>5, <1>6, <1>7

LEMMA HostStepInductive ==
  ASSUME IInv, HostStep
  PROVE  IInv'
<1> USE DEF IInv
<1>1. scan' = scan /\ reports' = reports
  BY DEF HostStep, Reboot, Drift, Tick, Replace
<1>2. ReportsProperties'
  BY <1>1, ReportsUnchanged DEF ReportsProperties
<1>3. ASSUME NEW S \in SUBSET Controls, Reboot(S)
      PROVE  TypeOK' /\ ReportsAreReal' /\ ScanIsReal'
  <2>1. TypeOK'
    BY <1>3 DEF TypeOK, Reboot
  <2>2. \A m \in Machines : boot'[m] \in Nat /\ boot[m] <= boot'[m]
    BY <1>3 DEF TypeOK, Reboot
  <2>3. clock' \in Nat /\ clock <= clock' /\ machine' = machine
    BY <1>3 DEF TypeOK, Reboot
  <2> QED
    BY <1>1, <2>1, <2>2, <2>3, WorldAdvances
<1>4. ASSUME NEW c \in Controls, Drift(c)
      PROVE  TypeOK' /\ ReportsAreReal' /\ ScanIsReal'
  <2>1. TypeOK'
    BY <1>4 DEF TypeOK, Drift
  <2>2. boot' = boot /\ clock' = clock /\ machine' = machine
    BY <1>4 DEF Drift
  <2>3. /\ \A m \in Machines : boot'[m] \in Nat /\ boot[m] <= boot'[m]
        /\ clock' \in Nat /\ clock <= clock'
    BY <2>2 DEF TypeOK
  <2> QED
    BY <1>1, <2>1, <2>2, <2>3, WorldAdvances
<1>5. ASSUME Tick
      PROVE  TypeOK' /\ ReportsAreReal' /\ ScanIsReal'
  <2>1. TypeOK'
    BY <1>5 DEF TypeOK, Tick
  <2>2. boot' = boot /\ clock' = clock + 1 /\ machine' = machine
    BY <1>5 DEF Tick
  <2>3. /\ \A m \in Machines : boot'[m] \in Nat /\ boot[m] <= boot'[m]
        /\ clock' \in Nat /\ clock <= clock'
    BY <2>2 DEF TypeOK
  <2> QED
    BY <1>1, <2>1, <2>2, <2>3, WorldAdvances
<1>6. ASSUME NEW m \in Machines, Replace(m)
      PROVE  TypeOK' /\ ReportsAreReal' /\ ScanIsReal'
  <2>1. TypeOK'
    BY <1>6 DEF TypeOK, Replace
  <2>2. boot' = boot /\ clock' = clock /\ scan = Idle
    BY <1>6 DEF Replace
  <2>3. /\ \A k \in Machines : boot'[k] \in Nat /\ boot[k] <= boot'[k]
        /\ clock' \in Nat /\ clock <= clock'
    BY <2>2 DEF TypeOK
  <2> QED
    BY <1>1, <2>1, <2>2, <2>3, WorldAdvances
<1> QED
  BY <1>2, <1>3, <1>4, <1>5, <1>6 DEF HostStep, ReportsProperties

\* A scan step leaves the hosts alone, so the saved reports stay real.
LEMMA SavedStayReal ==
  ASSUME ReportsAreReal, world' = world, reports' = reports
  PROVE  ReportsAreReal'
  BY DEF ReportsAreReal, ReportIsReal, ControlIsReal, HostIsReal, Reached, world

LEMMA StartScanInductive ==
  ASSUME IInv, NEW old \in reports \union {NoBaseline}, NEW selected \in SUBSET Controls,
         StartScan(old, selected)
  PROVE  IInv'
<1> USE DEF IInv
<1>1. world' = world /\ reports' = reports
  BY DEF StartScan
<1>2. ReportsProperties' /\ ReportsAreReal'
  BY <1>1, ReportsUnchanged, SavedStayReal DEF ReportsProperties
<1>3. PICK host \in {HostOf, NoHost} :
        /\ old # NoBaseline => Rebooted(old.host, host)
        /\ scan' = NewScan(old, host, selected)
  BY DEF StartScan
<1>4. /\ scan' \in Scans
      /\ scan'.base = old /\ scan'.host = host
      /\ scan'.got = [c \in Controls |-> Absent]
  BY <1>3, HostOfType, AbsentType DEF NewScan, Scans, TypeOK
<1>5. TypeOK'
  BY <1>1, <1>4 DEF TypeOK, world
<1>6. host # NoHost => HostIsReal(host) /\ host.bootId.m = machine
                       /\ host.bootId.n = boot[machine]
  BY <1>3, HostOfType
<1>7. IdentityIsReal'
  BY <1>1, <1>4, <1>6 DEF IdentityIsReal, HostIsReal, world
<1>8. ASSUME NEW c \in Controls PROVE ProbeIsReal(c)'
  <2>1. scan'.got[c] = Absent
    BY <1>4
  <2> QED
    BY <2>1, AbsentType DEF ProbeIsReal, Fresh, Reached, SeenSince
<1>9. BaselineIsOlder'
  <2> SUFFICES ASSUME old # NoBaseline
               PROVE  /\ old \in reports /\ Rebooted(old.host, host)
                      /\ \A c \in Controls :
                           LET id == old.ctl[c].in
                           IN id # Never /\ id.m = machine => id.n <= host.bootId.n
    BY <1>1, <1>4 DEF BaselineIsOlder, Rebooted, world
  <2>1. host # NoHost
    BY <1>3 DEF Rebooted
  <2>2. ReportIsReal(old)
    BY DEF ReportsAreReal
  <2>3. \A c \in Controls : Reached(old.ctl[c].in)
    BY <2>2 DEF ReportIsReal, ControlIsReal
  <2> QED
    BY <1>3, <1>6, <2>1, <2>3 DEF Reached
<1>10. ScanIsReal'
  BY <1>7, <1>8, <1>9 DEF ScanIsReal
<1> QED
  BY <1>2, <1>5, <1>10 DEF ReportsProperties

LEMMA ProbeInductive ==
  ASSUME IInv, NEW c \in Controls, Probe(c)
  PROVE  IInv'
<1> USE DEF IInv
<1>1. world' = world /\ reports' = reports
  BY DEF Probe
<1>2. ReportsProperties' /\ ReportsAreReal'
  BY <1>1, ReportsUnchanged, SavedStayReal DEF ReportsProperties
<1>3. scan \in Scans \ {Idle} /\ scan # Idle
  BY DEF Probe, TypeOK, Idle
<1>4. scan' = [scan EXCEPT !.got[c] = Observe(c)] /\ Observe(c) \in Results
  BY ObserveType DEF Probe
<1>5. /\ scan' \in Scans /\ scan'.base = scan.base /\ scan'.host = scan.host
      /\ scan'.got = [scan.got EXCEPT ![c] = Observe(c)]
  BY <1>3, <1>4 DEF Scans
<1>6. TypeOK'
  BY <1>1, <1>5 DEF TypeOK, world
<1>7. IdentityIsReal /\ (\A d \in Controls : ProbeIsReal(d)) /\ BaselineIsOlder
  BY <1>3 DEF ScanIsReal
<1>8. IdentityIsReal'
  BY <1>1, <1>5, <1>7 DEF IdentityIsReal, HostIsReal, world
<1>9. ASSUME NEW d \in Controls PROVE ProbeIsReal(d)'
  <2>1. CASE d # c
    <3>1. scan'.got[d] = scan.got[d]
      BY <1>3, <1>5, <2>1 DEF Scans
    <3> QED
      BY <1>1, <1>5, <1>7, <3>1 DEF ProbeIsReal, Fresh, Reached, SeenSince, world
  <2>2. CASE d = c
    <3>1. scan'.got[d] = Observe(c)
      BY <1>3, <1>5, <2>2 DEF Scans
    <3>2. /\ Fresh(Observe(c)) /\ Observe(c).in.m = machine
          /\ Observe(c).in.n = boot[machine] /\ boot[machine] \in Nat
      BY ObserveType, HostOfType DEF TypeOK
    <3>3. scan.host # NoHost => scan.host.bootId.n <= boot[machine]
                                /\ scan.host.bootId.m = machine
      BY <1>7 DEF IdentityIsReal, HostIsReal
    <3>4. Fresh(scan.got[d])'
      BY <3>1, <3>2 DEF Fresh
    <3>5. Reached(scan.got[d].in)'
      BY <1>1, <3>1, <3>2 DEF Reached, world
    <3>6. (scan.host # NoHost => SeenSince(scan.host, scan.got[d].in))'
      BY <1>5, <3>1, <3>2, <3>3 DEF SeenSince
    <3> QED
      BY <1>1, <3>1, <3>2, <3>4, <3>5, <3>6 DEF ProbeIsReal, world
  <2> QED
    BY <2>1, <2>2
<1>10. BaselineIsOlder'
  BY <1>1, <1>5, <1>7 DEF BaselineIsOlder, Rebooted, world
<1>11. ScanIsReal'
  BY <1>8, <1>9, <1>10 DEF ScanIsReal
<1> QED
  BY <1>2, <1>6, <1>11 DEF ReportsProperties

LEMMA AbortInductive ==
  ASSUME IInv, Abort
  PROVE  IInv'
<1> USE DEF IInv
<1>1. world' = world /\ reports' = reports /\ scan' = Idle
  BY DEF Abort
<1>2. ReportsProperties' /\ ReportsAreReal'
  BY <1>1, ReportsUnchanged, SavedStayReal DEF ReportsProperties
<1>3. TypeOK' /\ ScanIsReal'
  BY <1>1 DEF TypeOK, ScanIsReal, Scans, world
<1> QED
  BY <1>2, <1>3 DEF ReportsProperties

\* What a control of the report that is being built says.
LEMMA BuiltIsReal ==
  ASSUME IInv, scan # Idle, NEW c \in Controls
  PROVE  /\ Built[c] \in Results /\ Fresh(Built[c]) /\ Reached(Built[c].in)
         /\ Built[c].in # Never => Built[c].in.m = machine
         /\ scan.host # NoHost => SeenSince(scan.host, Built[c].in)
<1> USE DEF IInv
<1>1. IdentityIsReal /\ ProbeIsReal(c)
  BY DEF ScanIsReal
<1>2. scan.got[c] \in Results
  BY DEF TypeOK, Scans, Idle
<1>3. CASE c \in scan.selected /\ scan.got[c] = Absent
  <2>1. Built[c] = NoResult
    BY <1>3 DEF Built
  <2>2. NoResult.in.m = machine /\ NoResult.in.n = boot[machine] /\ boot[machine] \in Nat
    BY NoResultType, HostOfType DEF TypeOK
  <2> QED
    BY <1>1, <2>1, <2>2, NoResultType DEF Reached, SeenSince, IdentityIsReal, HostIsReal
<1>4. CASE ~(c \in scan.selected /\ scan.got[c] = Absent)
  <2>1. Built[c] = scan.got[c]
    BY <1>4 DEF Built
  <2> QED
    BY <1>1, <1>2, <2>1 DEF ProbeIsReal
<1> QED
  BY <1>3, <1>4

\* The same for the finished report: comparing adds from and baseline, and
\* changes neither the status nor the boot of the observation.
ControlIsObserved(x) ==
  /\ x \in Results
  /\ x.status # "absent" => x.in # Never
  /\ Reached(x.in)
  /\ x.in # Never => x.in.m = machine
  /\ scan.host # NoHost => SeenSince(scan.host, x.in)
  /\ x.qualifier = "durable" =>
       x.status = "pass" /\ (x.onDisk = "proven" \/ x.reboot = "proven")

ControlIsCompared(x, c) ==
  x.reboot \in {"proven", "lost"} =>
    /\ scan.base # NoBaseline /\ scan.base.ctl[c].status = "pass"
    /\ x.status # "absent"
    /\ x.from = scan.base.ctl[c].in
    /\ x.baseline = scan.base.host.bootId

LEMMA FinishedControl ==
  ASSUME IInv, Finishable, NEW c \in Controls
  PROVE  ControlIsObserved(FinishedReport.ctl[c]) /\ ControlIsCompared(FinishedReport.ctl[c], c)
<1> USE DEF IInv
<1>0. scan # Idle
  BY DEF Finishable, Idle
<1>1. /\ Built[c] \in Results /\ Fresh(Built[c]) /\ Reached(Built[c].in)
      /\ Built[c].in # Never => Built[c].in.m = machine
      /\ scan.host # NoHost => SeenSince(scan.host, Built[c].in)
  BY <1>0, BuiltIsReal
<1>2. CASE scan.base = NoBaseline
  <2>1. FinishedReport.ctl[c] = Built[c]
    BY <1>2 DEF FinishedReport
  <2> QED
    BY <1>1, <2>1 DEF Fresh, ControlIsObserved, ControlIsCompared
<1>3. CASE scan.base # NoBaseline
  <2>1. FinishedReport.ctl[c] = Compared(Built[c], scan.base.ctl[c], scan.base.host.bootId)
    BY <1>3 DEF FinishedReport, ApplyRebootBaseline
  <2>2. scan.base \in Reports /\ scan.base.host # NoHost
    BY <1>0, <1>3 DEF ScanIsReal, BaselineIsOlder, TypeOK, Rebooted
  <2>3. scan.base.ctl[c] \in Results /\ scan.base.host.bootId \in BootIds
    BY <2>2 DEF Reports, Hosts
  <2>4. FinishedReport.ctl[c] \in Results
    BY <1>1, <2>1, <2>3, ComparedType
  <2> DEFINE x == Compared(Built[c], scan.base.ctl[c], scan.base.host.bootId)
  <2>5. /\ x.in = Built[c].in /\ x.status = Built[c].status
        /\ x.qualifier = "durable" =>
             x.status = "pass" /\ (x.onDisk = "proven" \/ x.reboot = "proven")
        /\ x.reboot \in {"proven", "lost"} =>
             /\ scan.base.ctl[c].status = "pass" /\ x.status # "absent"
             /\ x.from = scan.base.ctl[c].in
             /\ x.baseline = scan.base.host.bootId
    BY <1>1 DEF Fresh, Compared, Results
  <2> HIDE DEF x
  <2>6. x.status # "absent" => x.in # Never
    BY <1>1, <2>5 DEF Fresh
  <2> QED
    BY <1>1, <1>3, <2>1, <2>4, <2>5, <2>6 DEF ControlIsObserved, ControlIsCompared, x
<1> QED
  BY <1>2, <1>3

LEMMA FinishInductive ==
  ASSUME IInv, Finish
  PROVE  IInv'
<1> USE DEF IInv
<1> DEFINE f == FinishedReport
<1>1. world' = world /\ scan' = Idle /\ reports' = reports \union {f} /\ Finishable
  BY DEF Finish
<1>2. scan # Idle /\ scan \in Scans
  BY <1>1 DEF Finishable, TypeOK, Idle
<1>3. ASSUME NEW c \in Controls
      PROVE  ControlIsObserved(f.ctl[c]) /\ ControlIsCompared(f.ctl[c], c)
  BY <1>1, FinishedControl
<1>5. f.host = scan.host /\ f.at = clock /\ (scan.host # NoHost => scan.host \in Hosts)
  BY <1>2 DEF FinishedReport, Scans
<1>6. f.ctl = [c \in Controls |-> f.ctl[c]]
  BY DEF FinishedReport, Built, ApplyRebootBaseline
<1>7. f \in Reports
  <2>1. f = [host |-> f.host, at |-> f.at, ctl |-> f.ctl]
    BY DEF FinishedReport
  <2>2. f.ctl \in [Controls -> Results]
    BY <1>3, <1>6 DEF ControlIsObserved
  <2> QED
    BY <1>5, <2>1, <2>2 DEF Reports, TypeOK
<1> HIDE DEF f
<1>8. TypeOK'
  BY <1>1, <1>7 DEF TypeOK, world, Scans
<1>9. ScanIsReal'
  BY <1>1 DEF ScanIsReal
<1>10. IdentityIsReal /\ BaselineIsOlder
  BY <1>2 DEF ScanIsReal
<1>11. ReportIsReal(f)
  <2>1. clock <= clock
    BY DEF TypeOK
  <2>2. \A c \in Controls : ControlIsReal(f.ctl[c])
    BY <1>3 DEF ControlIsObserved, ControlIsReal
  <2> QED
    BY <1>5, <1>10, <2>1, <2>2 DEF ReportIsReal, IdentityIsReal
<1>12. ReportsAreReal'
  <2>1. \A r \in reports' : ReportIsReal(r)
    BY <1>1, <1>11 DEF ReportsAreReal
  <2>2. \A r : ReportIsReal(r) => ReportIsReal(r)'
    BY <1>1 DEF ReportIsReal, ControlIsReal, HostIsReal, Reached, world
  <2> QED
    BY <2>1, <2>2 DEF ReportsAreReal
\* The comparisons of the new report.
<1>13. ASSUME NEW c \in Controls, Compares(f, c)
       PROVE  /\ scan.base \in reports /\ scan.base.host # NoHost
              /\ scan.base.at < f.at
              /\ scan.base.ctl[c].status = "pass"
              /\ f.ctl[c].from = scan.base.ctl[c].in
              /\ f.ctl[c].baseline = scan.base.host.bootId
              /\ Rebooted(scan.base.host, scan.host)
              /\ scan.host # NoHost
              /\ f.ctl[c].in # Never
  <2>1. /\ scan.base # NoBaseline /\ scan.base.ctl[c].status = "pass"
        /\ f.ctl[c].from = scan.base.ctl[c].in
        /\ f.ctl[c].baseline = scan.base.host.bootId
        /\ f.ctl[c].status # "absent"
    BY <1>3, <1>13 DEF Compares, ControlIsCompared
  <2>2. scan.base \in reports /\ Rebooted(scan.base.host, scan.host)
    BY <1>10, <2>1 DEF BaselineIsOlder
  <2>3. scan.base.at < f.at
    BY <1>1, <1>5, <2>1 DEF Finishable
  <2>4. f.ctl[c].in # Never
    BY <1>3, <2>1 DEF ControlIsObserved
  <2> QED
    BY <2>1, <2>2, <2>3, <2>4 DEF Rebooted
<1>14. ComparedWithAPass'
  <2> SUFFICES ASSUME NEW r \in reports', NEW c \in Controls, Compares(r, c)
               PROVE  \E b \in reports' : /\ b.host # NoHost
                                         /\ b.at < r.at
                                         /\ b.ctl[c].status = "pass"
                                         /\ b.ctl[c].in = r.ctl[c].from
                                         /\ b.host.bootId = r.ctl[c].baseline
    BY DEF ComparedWithAPass, Compares
  <2>1. CASE r \in reports
    BY <1>1, <2>1 DEF ComparedWithAPass
  <2>2. CASE r = f
    BY <1>1, <1>13, <2>2
  <2> QED
    BY <1>1, <2>1, <2>2
<1>15. ComparedAcrossBoots'
  <2> SUFFICES ASSUME NEW r \in reports', NEW c \in Controls, Compares(r, c), Untorn(r, c)
               PROVE  /\ ~ToldApart(r.ctl[c].from.m, r.ctl[c].in.m)
                      /\ r.ctl[c].from.m = r.ctl[c].in.m => r.ctl[c].from.n < r.ctl[c].in.n
    BY DEF ComparedAcrossBoots, Compares, Untorn, ToldApart
  <2>1. CASE r \in reports
    BY <2>1 DEF ComparedAcrossBoots
  <2>2. CASE r = f
    <3> DEFINE b == scan.base.host
               h == scan.host
    <3>1. f.ctl[c].from = b.bootId /\ f.ctl[c].from = scan.base.ctl[c].in
      BY <1>13, <2>2 DEF Untorn
    <3>2. b \in Hosts /\ h \in Hosts /\ HostIsReal(b) /\ HostIsReal(h)
      <4>1. scan.base \in Reports /\ ReportIsReal(scan.base)
        BY <1>13, <2>2 DEF ReportsAreReal, TypeOK
      <4> QED
        BY <1>5, <1>10, <1>13, <2>2, <4>1 DEF Reports, ReportIsReal, IdentityIsReal
    <3>3. h.bootId.m = machine /\ f.ctl[c].in.m = machine
      BY <1>3, <1>10, <1>13, <2>2 DEF IdentityIsReal, ControlIsObserved
    <3>4. Rebooted(b, h)
      BY <1>13, <2>2
    <3>5. ~ToldApart(b.bootId.m, h.bootId.m)
      BY <3>2, <3>4 DEF ToldApart, HostIsReal, Rebooted
    <3>6. ASSUME b.bootId.m = machine
          PROVE  b.bootId.n < f.ctl[c].in.n
      <4>1. b.bootId \in BootIds /\ h.bootId \in BootIds /\ b.bootId # h.bootId
        BY <3>2, <3>4 DEF Hosts, Rebooted
      <4>2. b.bootId.n # h.bootId.n
        BY <3>3, <3>6, <4>1 DEF BootIds
      <4>3. b.bootId # Never
        BY <4>1 DEF BootIds, Never
      <4>4. b.bootId.n <= h.bootId.n
        <5>1. scan.base # NoBaseline /\ f.ctl[c].from = scan.base.ctl[c].in
          BY <1>3, <2>2 DEF ControlIsCompared, Compares
        <5>2. LET id == scan.base.ctl[c].in
              IN id # Never /\ id.m = machine => id.n <= h.bootId.n
          BY <1>10, <5>1 DEF BaselineIsOlder
        <5> QED
          BY <3>1, <3>6, <4>3, <5>1, <5>2
      <4>5. h.bootId.n <= f.ctl[c].in.n
        BY <1>3, <1>13, <2>2 DEF SeenSince, ControlIsObserved
      <4>6. f.ctl[c].in \in BootIds
        BY <1>3, <1>13, <2>2 DEF Results, ControlIsObserved
      <4> QED
        BY <4>1, <4>2, <4>4, <4>5, <4>6 DEF BootIds
    <3> QED
      BY <2>2, <3>1, <3>3, <3>5, <3>6
  <2> QED
    BY <1>1, <2>1, <2>2
<1>16. IdentityIsEarliest'
  <2> SUFFICES ASSUME NEW r \in reports', r.host # NoHost, NEW c \in Controls,
                      r.ctl[c].in # Never
               PROVE  r.ctl[c].in.m = r.host.bootId.m /\ r.host.bootId.n <= r.ctl[c].in.n
    BY DEF IdentityIsEarliest
  <2>1. CASE r \in reports
    BY <2>1 DEF IdentityIsEarliest
  <2>2. CASE r = f
    BY <1>3, <1>5, <2>2 DEF SeenSince, ControlIsObserved
  <2> QED
    BY <1>1, <2>1, <2>2
<1>17. DurableIsEarned'
  BY <1>1, <1>3 DEF DurableIsEarned, ControlIsObserved
<1> QED
  BY <1>8, <1>9, <1>12, <1>14, <1>15, <1>16, <1>17

LEMMA StepInductive == IInv /\ [Next]_vars => IInv'
<1> SUFFICES ASSUME IInv, [Next]_vars PROVE IInv'
    OBVIOUS
<1>1. CASE UNCHANGED vars
  <2>1. TypeOK' /\ ReportsProperties'
    BY <1>1, ReportsUnchanged DEF vars, IInv, TypeOK, ReportsProperties
  <2>2. /\ \A m \in Machines : boot'[m] \in Nat /\ boot[m] <= boot'[m]
        /\ clock' \in Nat /\ clock <= clock'
    BY <1>1 DEF vars, IInv, TypeOK
  <2>3. ReportsAreReal' /\ ScanIsReal'
    BY <1>1, <2>2, WorldAdvances DEF vars, IInv
  <2> QED
    BY <2>1, <2>3 DEF IInv, ReportsProperties
<1>2. CASE ScanStep
  BY <1>2, StartScanInductive, ProbeInductive, FinishInductive, AbortInductive DEF ScanStep
<1>3. CASE HostStep
  BY <1>3, HostStepInductive
<1> QED
  BY <1>1, <1>2, <1>3 DEF Next

\* Hosts, scans and reports keep their types.
THEOREM TypeCorrect == Spec => []TypeOK
<1>1. IInv => TypeOK
  BY DEF IInv
<1> QED
  BY InitInductive, StepInductive, <1>1, PTL DEF Spec

\* A control that a report calls reboot-proven or lost at the reboot passed in an
\* earlier boot than the one it was observed in, unless a reboot came between
\* reading the identity of the baseline and probing the control.
THEOREM ProofsAreAcrossBoots == Spec => []ComparedAcrossBoots
<1>1. IInv => ComparedAcrossBoots
  BY DEF IInv
<1> QED
  BY InitInductive, StepInductive, <1>1, PTL DEF Spec

\* Every comparison rests on an older saved report in which the control passed.
THEOREM ComparisonsHaveABaseline == Spec => []ComparedWithAPass
<1>1. IInv => ComparedWithAPass
  BY DEF IInv
<1> QED
  BY InitInductive, StepInductive, <1>1, PTL DEF Spec

\* The identity in a report is never that of a later boot than its observations.
THEOREM IdentityPrecedesObservations == Spec => []IdentityIsEarliest
<1>1. IInv => IdentityIsEarliest
  BY DEF IInv
<1> QED
  BY InitInductive, StepInductive, <1>1, PTL DEF Spec

\* A pass is durable only when the disk keeps it or a reboot proved it.
THEOREM DurableNeedsEvidence == Spec => []DurableIsEarned
<1>1. IInv => DurableIsEarned
  BY DEF IInv
<1> QED
  BY InitInductive, StepInductive, <1>1, PTL DEF Spec

----------------------------------------------------------------------------
(* The loop.                                                               *)

Converged == step \in {"verify", "reaudit", "reboot", "wait", "settled", "prove"}

\* Nothing is said before the end.
NotYet == step # "done" => exit = "none" /\ saved = NoBaseline

\* What is planned is in the report that the plan was made from.
PlanIsOfBase ==
  /\ step \in {"begin", "audit", "choose"} => plan = {}
  /\ step \in {"begin", "audit"} => base = NoBaseline
  /\ base # NoBaseline => \A c \in plan : base.ctl[c].status # "absent"

\* The converge ended in a boot that the machine has reached.
AppliedHere ==
  Converged => applied \in BootIds /\ applied.m = machine /\ applied.n <= boot[machine]

\* An identity read after the converge.
HostIsHere(h) ==
  h \in Hosts /\ h.bootId.m = machine /\ applied.n <= h.bootId.n /\ h.bootId.n <= boot[machine]

ReauditIsLater ==
  step = "reaudit" =>
    /\ scan \in Scans \ {Idle}
    /\ scan.base = NoBaseline /\ scan.selected = Reselected
    /\ scan.host # NoHost => HostIsHere(scan.host)
    /\ \A c \in Controls : scan.got[c] # Absent =>
         scan.got[c].in \in BootIds /\ applied.n <= scan.got[c].in.n

MergedIsHere ==
  step \in {"reboot", "wait", "settled", "prove"} =>
    /\ pre \in Reports
    /\ known => HostIsHere(pre.host)

\* The wait ended in a later boot than the re-audit began in.
NewBootIsLater == step \in {"settled", "prove"} /\ known => applied.n < boot[machine]

ProofIsLater ==
  step = "prove" =>
    /\ scan \in Scans \ {Idle}
    /\ scan.base = pre /\ scan.selected = Controls
    /\ \A c \in Controls : scan.got[c] # Absent =>
         /\ scan.got[c].status # "absent" /\ scan.got[c].in \in BootIds
         /\ known => applied.n < scan.got[c].in.n

\* Only --reboot goes this far.
ProofNeedsReboot == step \in {"reboot", "wait", "settled", "prove"} => opt.reboot

\* What the exit is worth, once there is one.
ExitIsTrue == step = "done" => ZeroIsDurable /\ SurvivedAReboot

Phases == /\ NotYet /\ PlanIsOfBase /\ AppliedHere /\ ReauditIsLater
          /\ MergedIsHere /\ NewBootIsLater /\ ProofIsLater /\ ProofNeedsReboot

LoopIInv == LoopTypeOK /\ Phases /\ ExitIsTrue

----------------------------------------------------------------------------
(* The report of a scan, whatever its identity is worth.                   *)

LEMMA FinishedStatus ==
  ASSUME TypeOK, Finishable, NEW c \in Controls
  PROVE  /\ FinishedReport.ctl[c] \in Results
         /\ FinishedReport.ctl[c].status = Built[c].status
         /\ FinishedReport.ctl[c].in = Built[c].in
         /\ scan.base = NoBaseline => FinishedReport.ctl[c] = Built[c]
         /\ scan.base # NoBaseline /\ scan.base.ctl[c].status = "pass"
            /\ Built[c].status \notin {"absent", "pass"}
              => FinishedReport.ctl[c].reboot = "lost"
<1>1. scan \in Scans \ {Idle}
  BY DEF Finishable, TypeOK, Idle
<1>2. scan.got[c] \in Results /\ scan.base \in Reports \union {NoBaseline}
  BY <1>1 DEF Scans
<1>3. Built[c] \in Results
  BY <1>2, NoResultType DEF Built
<1>4. CASE scan.base = NoBaseline
  BY <1>3, <1>4 DEF FinishedReport
<1>5. CASE scan.base # NoBaseline
  <2>1. FinishedReport.ctl[c] = Compared(Built[c], scan.base.ctl[c], scan.base.host.bootId)
    BY <1>5 DEF FinishedReport, ApplyRebootBaseline
  <2>2. scan.base \in Reports /\ scan.base.host # NoHost
    BY <1>2, <1>5 DEF Finishable, Rebooted
  <2>3. scan.base.ctl[c] \in Results /\ scan.base.host.bootId \in BootIds
    BY <2>2 DEF Reports, Hosts
  <2> DEFINE x == Compared(Built[c], scan.base.ctl[c], scan.base.host.bootId)
  <2>4. x \in Results
    BY <1>3, <2>3, ComparedType
  <2>5. x.in = Built[c].in /\ x.status = Built[c].status
    BY <1>3 DEF Compared, Results
  <2>6. scan.base.ctl[c].status = "pass" /\ Built[c].status \notin {"absent", "pass"}
          => x.reboot = "lost"
    BY <1>3 DEF Compared, Results
  <2> HIDE DEF x
  <2> QED
    BY <1>5, <2>1, <2>4, <2>5, <2>6 DEF x
<1> QED
  BY <1>4, <1>5

LEMMA FinishedType ==
  ASSUME TypeOK, Finishable
  PROVE  /\ FinishedReport \in Reports
         /\ FinishedReport.host = scan.host /\ scan.host \in Hosts \union {NoHost}
         /\ scan \in Scans \ {Idle}
<1>1. scan \in Scans \ {Idle}
  BY DEF Finishable, TypeOK, Idle
<1>2. FinishedReport.host = scan.host /\ scan.host \in Hosts \union {NoHost}
  BY <1>1 DEF FinishedReport, Scans
<1>3. FinishedReport.at = clock /\ clock \in Nat
  BY DEF FinishedReport, TypeOK
<1>4. FinishedReport.ctl = [c \in Controls |-> FinishedReport.ctl[c]]
  BY DEF FinishedReport, Built, ApplyRebootBaseline
<1>5. FinishedReport.ctl \in [Controls -> Results]
  BY <1>4, FinishedStatus
<1>6. FinishedReport = [host |-> FinishedReport.host, at |-> FinishedReport.at,
                        ctl |-> FinishedReport.ctl]
  BY DEF FinishedReport
<1> QED
  BY <1>1, <1>2, <1>3, <1>5, <1>6 DEF Reports

LEMMA BuiltSeen ==
  ASSUME TypeOK, scan \in Scans \ {Idle}, NEW c \in Controls
  PROVE  /\ Built[c].status = "pass" => Built[c] = scan.got[c] /\ scan.got[c] # Absent
         /\ Built[c].status = "absent" => c \notin scan.selected \/ scan.got[c] # Absent
         /\ Built[c].status = "absent" => Built[c] = scan.got[c]
  BY DEF Built, NoResult, Absent

\* Scans keep the types of the rest.
LEMMA StartScanType ==
  ASSUME TypeOK, NEW b \in Reports \union {NoBaseline}, NEW selected \in SUBSET Controls,
         StartScan(b, selected)
  PROVE  /\ TypeOK' /\ world' = world /\ reports' = reports
         /\ scan' \in Scans \ {Idle} /\ scan'.base = b /\ scan'.selected = selected
         /\ scan'.host \in {HostOf, NoHost}
         /\ \A c \in Controls : scan'.got[c] = Absent
<1>1. PICK host \in {HostOf, NoHost} : scan' = NewScan(b, host, selected)
  BY DEF StartScan
<1>2. /\ scan' \in Scans /\ scan' # Idle
      /\ scan'.base = b /\ scan'.selected = selected /\ scan'.host = host
      /\ scan'.got = [c \in Controls |-> Absent]
  BY <1>1, HostOfType, AbsentType DEF NewScan, Scans, Idle
<1>3. world' = world /\ reports' = reports
  BY DEF StartScan
<1> QED
  BY <1>2, <1>3 DEF TypeOK, world

LEMMA ProbeType ==
  ASSUME TypeOK, NEW c \in Controls, Probe(c)
  PROVE  /\ TypeOK' /\ world' = world /\ reports' = reports
         /\ scan \in Scans \ {Idle} /\ scan' \in Scans \ {Idle}
         /\ scan'.base = scan.base /\ scan'.selected = scan.selected /\ scan'.host = scan.host
         /\ \A d \in Controls : scan'.got[d] = IF d = c THEN Observe(c) ELSE scan.got[d]
         /\ Observe(c).in = HostOf.bootId
<1>1. world' = world /\ reports' = reports
  BY DEF Probe
<1>2. scan \in Scans \ {Idle} /\ scan.pc = "auditing"
  BY DEF Probe, TypeOK, Idle
<1>3. scan' = [scan EXCEPT !.got[c] = Observe(c)]
  BY DEF Probe
<1>4. Observe(c) \in Results /\ Observe(c).in = HostOf.bootId
  BY ObserveType
<1>5. /\ scan' \in Scans /\ scan'.pc = "auditing"
      /\ scan'.base = scan.base /\ scan'.selected = scan.selected /\ scan'.host = scan.host
      /\ scan'.got = [scan.got EXCEPT ![c] = Observe(c)]
  BY <1>2, <1>3, <1>4 DEF Scans
<1>6. scan' # Idle
  BY <1>5 DEF Idle
<1>7. \A d \in Controls : scan'.got[d] = IF d = c THEN Observe(c) ELSE scan.got[d]
  BY <1>2, <1>5 DEF Scans
<1> QED
  BY <1>1, <1>2, <1>4, <1>5, <1>6, <1>7 DEF TypeOK, world

----------------------------------------------------------------------------
(* The steps of the command.                                               *)

\* An end without a report says nothing of the controls.
LEMMA EndsEarly ==
  ASSUME LoopIInv, step # "done", NEW code \in Codes, End(code), saved' = saved
  PROVE  /\ exit' \in Codes /\ step' \in Steps
         /\ NotYet' /\ AppliedHere' /\ ReauditIsLater' /\ MergedIsHere'
         /\ NewBootIsLater' /\ ProofIsLater' /\ ProofNeedsReboot' /\ ExitIsTrue'
<1>1. step' = "done" /\ exit' = code
  BY DEF End
<1>2. saved' = NoBaseline
  BY DEF LoopIInv, Phases, NotYet
<1>3. ~Verified'
  BY <1>2 DEF Verified
<1>4. ExitIsTrue'
  BY <1>3 DEF ExitIsTrue, ZeroIsDurable, SurvivedAReboot
<1> QED
  BY <1>1, <1>4 DEF Steps, NotYet, AppliedHere, Converged, ReauditIsLater, MergedIsHere,
     NewBootIsLater, ProofIsLater, ProofNeedsReboot

\* The phases before the converge say little.
LEMMA EarlyPhases ==
  ASSUME LoopIInv, step # "done",
         step' \in {"begin", "audit", "choose", "guard", "confirm", "converge"},
         exit' = exit, saved' = saved
  PROVE  /\ NotYet' /\ AppliedHere' /\ ReauditIsLater' /\ MergedIsHere'
         /\ NewBootIsLater' /\ ProofIsLater' /\ ProofNeedsReboot' /\ ExitIsTrue'
  BY DEF LoopIInv, Phases, NotYet, AppliedHere, Converged, ReauditIsLater, MergedIsHere,
     NewBootIsLater, ProofIsLater, ProofNeedsReboot, ExitIsTrue

LEMMA PlanningInductive ==
  ASSUME LoopIInv,
         BeginAudit \/ BeginFrom \/ BeginPlan \/ Audited \/ Choose \/ Guard \/ Confirm
  PROVE  LoopIInv'
<1> USE DEF LoopIInv
<1>1. CASE BeginAudit
  <2>1. StartScan(NoBaseline, Controls)
    BY <1>1 DEF BeginAudit
  <2>2. TypeOK'
    BY <2>1, StartScanType DEF LoopTypeOK
  <2>3. step = "begin" /\ step' = "audit" /\ exit' = exit /\ saved' = saved
        /\ base' = base /\ plan' = plan
    BY <1>1 DEF BeginAudit
  <2>4. LoopTypeOK'
    BY <1>1, <2>2 DEF BeginAudit, LoopTypeOK, Steps
  <2>5. PlanIsOfBase'
    BY <2>3 DEF Phases, PlanIsOfBase
  <2> QED
    BY <2>3, <2>4, <2>5, EarlyPhases DEF Phases
<1>2. CASE BeginFrom
  <2>1. step = "begin" /\ step' = "choose" /\ exit' = exit /\ saved' = saved /\ plan' = plan
    BY <1>2 DEF BeginFrom
  <2>2. TypeOK'
    BY <1>2 DEF BeginFrom, LoopTypeOK, TypeOK, vars
  <2>3. LoopTypeOK'
    BY <1>2, <2>2 DEF BeginFrom, LoopTypeOK, TypeOK, Steps, vars
  <2>4. PlanIsOfBase'
    BY <2>1 DEF Phases, PlanIsOfBase
  <2> QED
    BY <2>1, <2>3, <2>4, EarlyPhases DEF Phases
<1>3. CASE BeginPlan
  <2>1. step = "begin" /\ step' = "guard" /\ exit' = exit /\ saved' = saved /\ base' = base
    BY <1>3 DEF BeginPlan
  <2>2. TypeOK'
    BY <1>3 DEF BeginPlan, LoopTypeOK, TypeOK, vars
  <2>3. LoopTypeOK'
    BY <1>3, <2>2 DEF BeginPlan, LoopTypeOK, Steps
  <2>4. PlanIsOfBase'
    BY <1>3, <2>1 DEF BeginPlan, Phases, PlanIsOfBase
  <2> QED
    BY <2>1, <2>3, <2>4, EarlyPhases DEF Phases
<1>4. CASE Audited
  <2>1. step = "audit" /\ step' = "choose" /\ exit' = exit /\ saved' = saved /\ plan' = plan
    BY <1>4 DEF Audited
  <2>2. base' = FinishedReport /\ FinishedReport \in Reports
    BY <1>4, FinishedType DEF Audited, LoopTypeOK
  <2>3. TypeOK'
    BY <1>4 DEF Audited, LoopTypeOK, TypeOK, Scans, world
  <2>4. LoopTypeOK'
    BY <1>4, <2>2, <2>3 DEF Audited, LoopTypeOK, Steps
  <2>5. PlanIsOfBase'
    BY <2>1 DEF Phases, PlanIsOfBase
  <2> QED
    BY <2>1, <2>4, <2>5, EarlyPhases DEF Phases
<1>5. CASE Choose
  <2>1. step = "choose" /\ saved' = saved /\ base' = base /\ TypeOK'
    BY <1>5 DEF Choose, LoopTypeOK, TypeOK, vars
  <2>2. CASE UNCHANGED plan /\ \E code \in {"ok", "usage"} : End(code)
    <3>1. PICK code \in {"ok", "usage"} : End(code)
      BY <2>2
    <3>2. code \in Codes
      BY DEF Codes
    <3>3. LoopTypeOK'
      BY <1>5, <2>1, <2>2, <3>1, <3>2, EndsEarly DEF Choose, LoopTypeOK
    <3>4. PlanIsOfBase'
      BY <2>1, <2>2, <3>1 DEF Phases, PlanIsOfBase, End
    <3> QED
      BY <2>1, <3>1, <3>2, <3>3, <3>4, EndsEarly DEF Phases
  <2>3. CASE \E chosen \in SUBSET Candidates(base) \ {{}} :
               /\ plan' = chosen \cap Automated
               /\ IF opt.mode = "planOut" THEN End("ok") ELSE step' = "guard" /\ UNCHANGED exit
    <3>1. plan' \subseteq Automated
          /\ \A c \in plan' : base.ctl[c].status \in {"fail", "error", "pass"}
      BY <2>3 DEF Candidates
    <3>2. PlanIsOfBase'
      <4>1. step' \in {"guard", "done"}
        BY <2>3 DEF End
      <4> QED
        BY <2>1, <3>1, <4>1 DEF PlanIsOfBase
    <3>3. CASE opt.mode = "planOut"
      <4>1. End("ok") /\ "ok" \in Codes
        BY <2>3, <3>3 DEF Codes
      <4>2. LoopTypeOK'
        BY <1>5, <2>1, <3>1, <4>1, EndsEarly DEF Choose, LoopTypeOK
      <4> QED
        BY <2>1, <3>2, <4>1, <4>2, EndsEarly DEF Phases
    <3>4. CASE opt.mode # "planOut"
      <4>1. step' = "guard" /\ exit' = exit
        BY <2>3, <3>4
      <4>2. LoopTypeOK'
        BY <1>5, <2>1, <3>1, <4>1 DEF Choose, LoopTypeOK, Steps
      <4> QED
        BY <2>1, <3>2, <4>1, <4>2, EarlyPhases DEF Phases
    <3> QED
      BY <3>3, <3>4
  <2> QED
    BY <1>5, <2>2, <2>3 DEF Choose
<1>6. CASE Guard
  <2>1. step = "guard" /\ saved' = saved /\ base' = base /\ TypeOK'
    BY <1>6 DEF Guard, LoopTypeOK, TypeOK, vars
  <2>2. plan' \subseteq plan
    BY <1>6 DEF Guard
  <2>3. PlanIsOfBase'
    <3>1. step' \in {"confirm", "done"}
      BY <1>6 DEF Guard, End
    <3> QED
      BY <2>1, <2>2, <3>1 DEF Phases, PlanIsOfBase
  <2>4. CASE \E code \in Codes : End(code)
    <3>1. PICK code \in Codes : End(code)
      BY <2>4
    <3>2. LoopTypeOK'
      BY <1>6, <2>1, <2>2, <3>1, EndsEarly DEF Guard, LoopTypeOK
    <3> QED
      BY <2>1, <2>3, <3>1, <3>2, EndsEarly DEF Phases
  <2>5. CASE step' = "confirm" /\ exit' = exit
    <3>1. LoopTypeOK'
      BY <1>6, <2>1, <2>2, <2>5 DEF Guard, LoopTypeOK, Steps
    <3> QED
      BY <2>1, <2>3, <2>5, <3>1, EarlyPhases DEF Phases
  <2>6. (\E code \in Codes : End(code)) \/ (step' = "confirm" /\ exit' = exit)
    BY <1>6 DEF Guard, Codes
  <2> QED
    BY <2>4, <2>5, <2>6
<1>7. CASE Confirm
  <2>1. step = "confirm" /\ saved' = saved /\ base' = base /\ plan' = plan /\ TypeOK'
    BY <1>7 DEF Confirm, LoopTypeOK, TypeOK, vars
  <2>2. PlanIsOfBase'
    <3>1. step' \in {"converge", "done"}
      BY <1>7 DEF Confirm, End
    <3> QED
      BY <2>1, <3>1 DEF Phases, PlanIsOfBase
  <2>3. CASE End("ok")
    <3>1. "ok" \in Codes
      BY DEF Codes
    <3>2. LoopTypeOK'
      BY <1>7, <2>1, <2>3, <3>1, EndsEarly DEF Confirm, LoopTypeOK
    <3> QED
      BY <2>1, <2>2, <2>3, <3>1, <3>2, EndsEarly DEF Phases
  <2>4. CASE step' = "converge" /\ exit' = exit
    <3>1. LoopTypeOK'
      BY <1>7, <2>1, <2>4 DEF Confirm, LoopTypeOK, Steps
    <3> QED
      BY <2>1, <2>2, <2>4, <3>1, EarlyPhases DEF Phases
  <2> QED
    BY <1>7, <2>3, <2>4 DEF Confirm
<1> QED
  BY <1>1, <1>2, <1>3, <1>4, <1>5, <1>6, <1>7

\* What persists is written, and the converge ends in this boot.
LEMMA ConvergeInductive ==
  ASSUME LoopIInv, Converge
  PROVE  LoopIInv'
<1> USE DEF LoopIInv
<1>1. step = "converge" /\ saved' = saved /\ base' = base /\ plan' = plan
      /\ opt' = opt /\ pre' = pre /\ known' = known
      /\ machine' = machine /\ boot' = boot /\ clock' = clock /\ scan' = scan
      /\ reports' = reports /\ applied' = HostOf.bootId
  BY DEF Converge
<1>2. plan \subseteq Controls
  BY HardenLoopAssumption DEF LoopTypeOK
<1>3. live' \in [Machines -> SUBSET Controls] /\ disk' \in [Machines -> SUBSET Controls]
  <2>1. CASE opt.mode = "dryRun"
    BY <2>1 DEF Converge, LoopTypeOK, TypeOK
  <2>2. CASE opt.mode # "dryRun"
    <3>1. PICK D \in SUBSET plan : \E L \in SUBSET D :
            /\ disk' = [disk EXCEPT ![machine] = @ \union D]
            /\ live' = [live EXCEPT ![machine] = @ \union L]
      BY <2>2 DEF Converge
    <3>2. PICK L \in SUBSET D : live' = [live EXCEPT ![machine] = @ \union L]
      BY <3>1
    <3>3. D \subseteq Controls /\ L \subseteq Controls
      BY <1>2, <3>1, <3>2
    <3> QED
      BY <3>1, <3>2, <3>3 DEF LoopTypeOK, TypeOK
  <2> QED
    BY <2>1, <2>2
<1>4. TypeOK'
  BY <1>1, <1>3 DEF LoopTypeOK, TypeOK
<1>5. applied' \in BootIds /\ applied'.m = machine /\ applied'.n = boot[machine]
      /\ boot[machine] \in Nat
  BY <1>1, HostOfType DEF LoopTypeOK, TypeOK
<1>6. PlanIsOfBase'
  <2>1. step' \in {"verify", "done"}
    BY DEF Converge, End
  <2> QED
    BY <1>1, <2>1 DEF Phases, PlanIsOfBase
<1>7. CASE \E code \in Codes : End(code)
  <2>1. PICK code \in Codes : End(code)
    BY <1>7
  <2>2. LoopTypeOK'
    BY <1>1, <1>4, <1>5, <2>1, EndsEarly DEF LoopTypeOK
  <2> QED
    BY <1>1, <1>6, <2>1, <2>2, EndsEarly DEF Phases
<1>8. CASE step' = "verify" /\ exit' = exit
  <2>1. LoopTypeOK'
    BY <1>1, <1>4, <1>5, <1>8 DEF LoopTypeOK, Steps
  <2>2. AppliedHere'
    BY <1>1, <1>5 DEF AppliedHere
  <2>3. NotYet'
    BY <1>1, <1>8 DEF Phases, NotYet
  <2> QED
    BY <1>6, <1>8, <2>1, <2>2, <2>3 DEF Phases, ReauditIsLater, MergedIsHere, NewBootIsLater,
       ProofIsLater, ProofNeedsReboot, ExitIsTrue
<1>9. (\E code \in Codes : End(code)) \/ (step' = "verify" /\ exit' = exit)
  BY DEF Converge, Codes
<1> QED
  BY <1>7, <1>8, <1>9

\* Ends without a verdict from the converge on.
LEMMA GivesUpInductive ==
  ASSUME LoopIInv, ClientMissing \/ ScanFails \/ TimedOut \/ ProofRefused
  PROVE  LoopIInv'
<1> USE DEF LoopIInv
<1>1. /\ step # "done" /\ saved' = saved /\ base' = base /\ plan' = plan /\ opt' = opt
      /\ pre' = pre /\ applied' = applied /\ known' = known
  BY DEF ClientMissing, ScanFails, TimedOut, ProofRefused
<1>2. TypeOK'
  BY DEF ClientMissing, ScanFails, TimedOut, ProofRefused, LoopTypeOK, TypeOK, vars, world, Scans
<1>3. PICK code \in Codes : End(code)
  BY DEF ClientMissing, ScanFails, TimedOut, ProofRefused, Codes
<1>4. LoopTypeOK'
  BY <1>1, <1>2, <1>3, EndsEarly DEF LoopTypeOK
<1>5. PlanIsOfBase'
  BY <1>1, <1>3 DEF Phases, PlanIsOfBase, End
<1> QED
  BY <1>1, <1>3, <1>4, <1>5, EndsEarly DEF Phases

LEMMA ReauditInductive ==
  ASSUME LoopIInv, Reaudit
  PROVE  LoopIInv'
<1> USE DEF LoopIInv
<1>1. /\ step = "verify" /\ step' = "reaudit" /\ StartScan(NoBaseline, Reselected)
      /\ saved' = saved /\ base' = base /\ plan' = plan /\ opt' = opt /\ exit' = exit
      /\ pre' = pre /\ applied' = applied /\ known' = known
  BY DEF Reaudit
<1>2. Reselected \in SUBSET Controls
  BY HardenLoopAssumption DEF Reselected, LoopTypeOK
<1>3. /\ TypeOK' /\ world' = world
      /\ scan' \in Scans \ {Idle} /\ scan'.base = NoBaseline /\ scan'.selected = Reselected
      /\ scan'.host \in {HostOf, NoHost}
      /\ \A c \in Controls : scan'.got[c] = Absent
  BY <1>1, <1>2, StartScanType DEF LoopTypeOK
<1>4. LoopTypeOK'
  BY <1>1, <1>3 DEF LoopTypeOK, Steps
<1>5. /\ applied \in BootIds /\ applied.m = machine /\ applied.n <= boot[machine]
      /\ boot[machine] \in Nat
  BY <1>1 DEF Phases, AppliedHere, Converged, LoopTypeOK, TypeOK
<1>6. AppliedHere'
  BY <1>1, <1>3, <1>5 DEF AppliedHere, world
<1>7. ReauditIsLater'
  <2>1. Reselected' = Reselected
    BY <1>1 DEF Reselected
  <2>2. scan'.host # NoHost => HostIsHere(scan.host)'
    BY <1>1, <1>3, <1>5, HostOfType DEF HostIsHere, LoopTypeOK, world
  <2> QED
    BY <1>3, <2>1, <2>2 DEF ReauditIsLater
<1> QED
  BY <1>1, <1>4, <1>6, <1>7 DEF Phases, NotYet, PlanIsOfBase, MergedIsHere, NewBootIsLater,
     ProofIsLater, ProofNeedsReboot, ExitIsTrue

LEMMA MergeType ==
  ASSUME NEW b \in Reports \union {NoBaseline}, NEW after \in Reports
  PROVE  /\ MergeReports(b, after) \in Reports
         /\ after.host # NoHost => MergeReports(b, after).host = after.host
         /\ \A c \in Controls :
              (b # NoBaseline => b.ctl[c].status # "absent") /\ after.ctl[c].status # "absent"
                => MergeReports(b, after).ctl[c] = after.ctl[c]
<1>1. CASE b = NoBaseline
  BY <1>1 DEF MergeReports
<1>2. CASE b # NoBaseline
  <2>1. b \in Reports
    BY <1>2
  <2> DEFINE m == MergeReports(b, after)
  <2>2. m = [host |-> IF after.host # NoHost THEN after.host ELSE b.host,
             at   |-> after.at,
             ctl  |-> [c \in Controls |->
                         IF b.ctl[c].status # "absent" /\ after.ctl[c].status # "absent"
                           THEN after.ctl[c] ELSE b.ctl[c]]]
    BY <1>2 DEF MergeReports
  <2>3. \A c \in Controls : b.ctl[c] \in Results /\ after.ctl[c] \in Results
    BY <2>1 DEF Reports
  <2>4. m.ctl \in [Controls -> Results]
    BY <2>2, <2>3
  <2>5. m \in Reports
    BY <2>1, <2>2, <2>4 DEF Reports
  <2> QED
    BY <1>2, <2>2, <2>5
<1> QED
  BY <1>1, <1>2

\* The re-audit is merged into the report of the plan; without --reboot this is
\* the end.
LEMMA ReauditedInductive ==
  ASSUME LoopIInv, Reaudited
  PROVE  LoopIInv'
<1> USE DEF LoopIInv
<1> DEFINE merged == MergeReports(base, FinishedReport)
<1>1. /\ step = "reaudit" /\ Finishable /\ pre' = merged /\ known' = (scan.host # NoHost)
      /\ scan' = Idle /\ world' = world /\ reports' = reports
      /\ opt' = opt /\ base' = base /\ plan' = plan /\ applied' = applied
  BY DEF Reaudited
<1>2. /\ FinishedReport \in Reports /\ FinishedReport.host = scan.host
      /\ scan \in Scans \ {Idle}
  BY <1>1, FinishedType DEF LoopTypeOK
<1>3. merged \in Reports /\ (scan.host # NoHost => merged.host = scan.host)
  BY <1>2, MergeType DEF LoopTypeOK
<1>4. /\ applied \in BootIds /\ applied.m = machine /\ applied.n <= boot[machine]
      /\ scan.host # NoHost => HostIsHere(scan.host)
      /\ scan.base = NoBaseline
      /\ \A c \in Controls : scan.got[c] # Absent =>
           scan.got[c].in \in BootIds /\ applied.n <= scan.got[c].in.n
  BY <1>1 DEF Phases, AppliedHere, Converged, ReauditIsLater
<1>5. TypeOK'
  BY <1>1 DEF LoopTypeOK, TypeOK, Scans, world
<1>6. plan \subseteq Controls
  BY HardenLoopAssumption DEF LoopTypeOK
<1>7. step' \in {"reboot", "done"} /\ PlanIsOfBase'
  BY <1>1 DEF Reaudited, End, Phases, PlanIsOfBase
<1>8. CASE opt.reboot
  <2>1. step' = "reboot" /\ exit' = exit /\ saved' = saved
    BY <1>8 DEF Reaudited
  <2>2. LoopTypeOK'
    BY <1>1, <1>3, <1>5, <2>1 DEF LoopTypeOK, Steps
  <2>3. AppliedHere'
    BY <1>1, <1>4 DEF AppliedHere, world
  <2>4. MergedIsHere'
    <3>1. known' => HostIsHere(pre.host)'
      BY <1>1, <1>3, <1>4 DEF HostIsHere, world
    <3> QED
      BY <1>1, <1>3, <3>1 DEF MergedIsHere
  <2>5. NotYet'
    BY <1>1, <2>1 DEF Phases, NotYet
  <2>6. ReauditIsLater' /\ NewBootIsLater' /\ ProofIsLater'
    BY <2>1 DEF ReauditIsLater, NewBootIsLater, ProofIsLater
  <2>7. ProofNeedsReboot' /\ ExitIsTrue'
    BY <1>1, <1>8, <2>1 DEF ProofNeedsReboot, ExitIsTrue
  <2> QED
    BY <1>7, <2>2, <2>3, <2>4, <2>5, <2>6, <2>7 DEF Phases
<1>9. CASE ~opt.reboot
  <2>1. /\ saved' = merged
        /\ step' = "done"
        /\ exit' = IF Still(FinishedReport) # {} THEN "policy" ELSE "ok"
    BY <1>9 DEF Reaudited, End
  <2>2. LoopTypeOK'
    BY <1>1, <1>3, <1>5, <2>1 DEF LoopTypeOK, Steps, Codes
  <2>3. ASSUME exit' = "ok", NEW c \in plan
        PROVE  /\ merged.ctl[c].status = "pass" /\ merged.ctl[c].qualifier = "durable"
               /\ merged.ctl[c].in.n >= applied.n
    <3>1. c \in Controls /\ (base # NoBaseline => base.ctl[c].status # "absent")
      BY <1>6 DEF Phases, PlanIsOfBase
    <3>2. FinishedReport.ctl[c].status = "pass" /\ FinishedReport.ctl[c].qualifier = "durable"
      BY <2>1, <2>3 DEF Still
    <3>3. merged.ctl[c] = FinishedReport.ctl[c]
      BY <1>2, <3>1, <3>2, MergeType DEF LoopTypeOK
    <3>4. FinishedReport.ctl[c] = Built[c]
      BY <1>1, <1>4, <3>1, FinishedStatus DEF LoopTypeOK
    <3>5. Built[c] = scan.got[c] /\ scan.got[c] # Absent
      BY <1>2, <3>1, <3>2, <3>4, BuiltSeen DEF LoopTypeOK
    <3>6. scan.got[c].in.n \in Nat /\ applied.n \in Nat /\ applied.n <= scan.got[c].in.n
      BY <1>4, <3>1, <3>5 DEF BootIds
    <3> QED
      BY <3>2, <3>3, <3>4, <3>5, <3>6
  <2> HIDE DEF merged
  <2>4. ZeroIsDurable'
    BY <1>1, <2>1, <2>3 DEF ZeroIsDurable, Verified
  <2>5. SurvivedAReboot'
    BY <1>1, <1>9 DEF SurvivedAReboot
  <2>6. AppliedHere' /\ MergedIsHere' /\ NewBootIsLater'
    BY <2>1 DEF AppliedHere, Converged, MergedIsHere, NewBootIsLater
  <2>7. ReauditIsLater' /\ ProofIsLater' /\ ProofNeedsReboot' /\ ExitIsTrue'
    BY <2>1, <2>4, <2>5 DEF ReauditIsLater, ProofIsLater, ProofNeedsReboot, ExitIsTrue
  <2>8. NotYet'
    BY <2>1 DEF NotYet
  <2> QED
    BY <1>7, <2>2, <2>6, <2>7, <2>8 DEF Phases
<1> QED
  BY <1>1, <1>8, <1>9

----------------------------------------------------------------------------
(* The reboot and the proof.                                               *)

\* Nothing but the step changes before the proof scan.
LEMMA WaitingInductive ==
  ASSUME LoopIInv, AskReboot \/ NewBoot
  PROVE  LoopIInv'
<1> USE DEF LoopIInv
<1>1. /\ step \in {"reboot", "wait"} /\ UNCHANGED vars
      /\ saved' = saved /\ base' = base /\ plan' = plan /\ opt' = opt
      /\ pre' = pre /\ applied' = applied /\ known' = known
  BY DEF AskReboot, NewBoot
<1>2. TypeOK'
  BY <1>1 DEF LoopTypeOK, TypeOK, vars
<1>3. CASE \E code \in Codes : End(code)
  <2>1. PICK code \in Codes : End(code)
    BY <1>3
  <2>2. LoopTypeOK'
    BY <1>1, <1>2, <2>1, EndsEarly DEF LoopTypeOK
  <2>3. PlanIsOfBase'
    BY <1>1, <2>1 DEF Phases, PlanIsOfBase, End
  <2> QED
    BY <1>1, <2>1, <2>2, <2>3, EndsEarly DEF Phases
<1>4. CASE step' \in {"wait", "settled"} /\ exit' = exit
  <2>1. LoopTypeOK'
    BY <1>1, <1>2, <1>4 DEF LoopTypeOK, Steps
  <2>2. AppliedHere' /\ MergedIsHere'
    BY <1>1, <1>4 DEF Phases, AppliedHere, MergedIsHere, Converged, HostIsHere, vars
  <2>3. NewBootIsLater'
    <3>1. SUFFICES ASSUME step' = "settled", known
                   PROVE  applied.n < boot[machine]
      BY <1>1, <1>4 DEF NewBootIsLater, vars
    <3>2. HostOf.bootId # pre.host.bootId
      BY <1>1, <3>1 DEF AskReboot, NewBoot, End
    <3>3. /\ pre.host.bootId \in BootIds /\ pre.host.bootId.m = machine
          /\ applied.n <= pre.host.bootId.n /\ pre.host.bootId.n <= boot[machine]
          /\ applied \in BootIds
      BY <1>1, <3>1 DEF Phases, MergedIsHere, HostIsHere, Hosts, AppliedHere, Converged
    <3>4. HostOf.bootId = [m |-> machine, n |-> boot[machine]] /\ boot[machine] \in Nat
      BY HostOfType DEF LoopTypeOK, TypeOK
    <3>5. pre.host.bootId.n # boot[machine]
      BY <3>2, <3>3, <3>4 DEF BootIds
    <3> QED
      BY <3>3, <3>4, <3>5 DEF BootIds
  <2> QED
    BY <1>1, <1>4, <2>1, <2>2, <2>3 DEF Phases, NotYet, PlanIsOfBase, ReauditIsLater,
       ProofIsLater, ProofNeedsReboot, ExitIsTrue
<1>5. (\E code \in Codes : End(code)) \/ (step' \in {"wait", "settled"} /\ exit' = exit)
  BY DEF AskReboot, NewBoot, Codes
<1> QED
  BY <1>3, <1>4, <1>5

LEMMA ProveInductive ==
  ASSUME LoopIInv, Prove
  PROVE  LoopIInv'
<1> USE DEF LoopIInv
<1>1. /\ step = "settled" /\ step' = "prove" /\ StartScan(pre, Controls)
      /\ saved' = saved /\ base' = base /\ plan' = plan /\ opt' = opt /\ exit' = exit
      /\ pre' = pre /\ applied' = applied /\ known' = known
  BY DEF Prove
<1>2. /\ TypeOK' /\ world' = world
      /\ scan' \in Scans \ {Idle} /\ scan'.base = pre /\ scan'.selected = Controls
      /\ \A c \in Controls : scan'.got[c] = Absent
  BY <1>1, StartScanType DEF LoopTypeOK
<1>3. LoopTypeOK'
  BY <1>1, <1>2 DEF LoopTypeOK, Steps
<1>4. AppliedHere' /\ MergedIsHere' /\ NewBootIsLater'
  BY <1>1, <1>2 DEF Phases, AppliedHere, MergedIsHere, NewBootIsLater, Converged, HostIsHere,
     world
<1>5. ProofIsLater'
  BY <1>1, <1>2 DEF ProofIsLater
<1> QED
  BY <1>1, <1>3, <1>4, <1>5 DEF Phases, NotYet, PlanIsOfBase, ReauditIsLater,
     ProofNeedsReboot, ExitIsTrue

LEMMA ProvedInductive ==
  ASSUME LoopIInv, Proved
  PROVE  LoopIInv'
<1> USE DEF LoopIInv
<1>1. /\ step = "prove" /\ Finishable /\ saved' = FinishedReport /\ step' = "done"
      /\ exit' = IF Unproven(FinishedReport) # {} THEN "policy" ELSE "ok"
      /\ scan' = Idle /\ world' = world /\ reports' = reports
      /\ opt' = opt /\ base' = base /\ plan' = plan /\ applied' = applied
      /\ pre' = pre /\ known' = known
  BY DEF Proved, End
<1>2. FinishedReport \in Reports /\ scan \in Scans \ {Idle}
  BY <1>1, FinishedType DEF LoopTypeOK
<1>3. TypeOK'
  BY <1>1 DEF LoopTypeOK, TypeOK, Scans, world
<1>4. LoopTypeOK'
  BY <1>1, <1>2, <1>3 DEF LoopTypeOK, Steps, Codes
<1>5. /\ scan.base = pre /\ scan.selected = Controls /\ pre \in Reports
      /\ applied \in BootIds
      /\ \A c \in Controls : scan.got[c] # Absent =>
           /\ scan.got[c].status # "absent" /\ scan.got[c].in \in BootIds
           /\ known => applied.n < scan.got[c].in.n
  BY <1>1 DEF Phases, ProofIsLater, MergedIsHere, AppliedHere, Converged
<1>6. plan \subseteq Controls
  BY HardenLoopAssumption DEF LoopTypeOK
<1>7. pre # NoBaseline
  <2>1. "ctl" \in DOMAIN pre
    BY <1>5 DEF Reports
  <2>2. "ctl" \notin DOMAIN NoBaseline
    BY DEF NoBaseline
  <2> QED
    BY <2>1, <2>2
\* Every control was observed again, and none is lost.
<1>8. ASSUME exit' = "ok", NEW c \in Controls
      PROVE  /\ Built[c].status # "absent" /\ FinishedReport.ctl[c].reboot # "lost"
             /\ c \in plan => FinishedReport.ctl[c].status = "pass"
  <2>1. Built[c].status # "absent"
    BY <1>2, <1>5, <1>8, BuiltSeen DEF LoopTypeOK
  <2>2. Unproven(FinishedReport) = {}
    BY <1>1, <1>8
  <2> QED
    BY <1>8, <2>1, <2>2 DEF Unproven
<1>9. ASSUME exit' = "ok", known, NEW c \in plan
      PROVE  /\ FinishedReport.ctl[c].status = "pass"
             /\ FinishedReport.ctl[c].in.n > applied.n
  <2>1. c \in Controls /\ FinishedReport.ctl[c].status = "pass"
    BY <1>6, <1>8, <1>9
  <2>2. FinishedReport.ctl[c].in = Built[c].in /\ Built[c].status = "pass"
    BY <1>1, <2>1, FinishedStatus DEF LoopTypeOK
  <2>3. Built[c] = scan.got[c] /\ scan.got[c] # Absent
    BY <1>2, <2>1, <2>2, BuiltSeen DEF LoopTypeOK
  <2>4. scan.got[c].in \in BootIds /\ applied.n < scan.got[c].in.n
    BY <1>5, <1>9, <2>1, <2>3
  <2> QED
    BY <1>5, <2>1, <2>2, <2>3, <2>4 DEF BootIds
<1>10. ASSUME exit' = "ok", NEW c \in Controls, pre.ctl[c].status = "pass"
       PROVE  FinishedReport.ctl[c].status = "pass"
  <2>1. /\ FinishedReport.ctl[c].status = Built[c].status
        /\ Built[c].status \notin {"absent", "pass"} => FinishedReport.ctl[c].reboot = "lost"
    BY <1>1, <1>5, <1>7, <1>10, FinishedStatus DEF LoopTypeOK
  <2> QED
    BY <1>8, <1>10, <2>1
<1>11. SurvivedAReboot'
  BY <1>1, <1>9, <1>10 DEF SurvivedAReboot
<1>12. ZeroIsDurable'
  <2>1. opt.reboot
    BY <1>1 DEF Phases, ProofNeedsReboot
  <2> QED
    BY <1>1, <2>1 DEF ZeroIsDurable
<1>13. PlanIsOfBase'
  BY <1>1 DEF Phases, PlanIsOfBase
<1> QED
  BY <1>1, <1>4, <1>11, <1>12, <1>13 DEF Phases, NotYet, AppliedHere, Converged, ReauditIsLater,
     MergedIsHere, NewBootIsLater, ProofIsLater, ProofNeedsReboot, ExitIsTrue

----------------------------------------------------------------------------
(* Scans and the host.                                                     *)

\* A control that is probed now is observed in the boot of now.
LEMMA ProbingInductive ==
  ASSUME LoopIInv, Probing
  PROVE  LoopIInv'
<1> USE DEF LoopIInv
<1>1. PICK c \in Controls : Probe(c)
  BY DEF Probing
<1>2. step \in {"audit", "reaudit", "prove"} /\ UNCHANGED run
  BY DEF Probing
<1>3. /\ TypeOK' /\ world' = world
      /\ scan \in Scans \ {Idle} /\ scan' \in Scans \ {Idle}
      /\ scan'.base = scan.base /\ scan'.selected = scan.selected /\ scan'.host = scan.host
      /\ \A d \in Controls : scan'.got[d] = IF d = c THEN Observe(c) ELSE scan.got[d]
      /\ Observe(c).in = HostOf.bootId
  BY <1>1, ProbeType DEF LoopTypeOK
<1>4. LoopTypeOK'
  BY <1>2, <1>3 DEF LoopTypeOK, run
<1>5. /\ Observe(c).in \in BootIds /\ Observe(c).in.n = boot[machine]
      /\ Observe(c).status # "absent"
  BY <1>3, HostOfType DEF LoopTypeOK, Observe
<1>6. AppliedHere' /\ MergedIsHere' /\ NewBootIsLater' /\ ProofNeedsReboot'
  BY <1>2, <1>3 DEF Phases, AppliedHere, MergedIsHere, NewBootIsLater, Converged, HostIsHere,
     ProofNeedsReboot, world, run
<1>7. ReauditIsLater'
  <2> SUFFICES ASSUME step = "reaudit" PROVE ReauditIsLater'
    BY <1>2 DEF ReauditIsLater, run
  <2>1. Reselected' = Reselected
    BY <1>2 DEF Reselected, run
  <2>2. scan.host # NoHost => HostIsHere(scan.host) /\ HostIsHere(scan.host)'
    BY <1>2, <1>3 DEF Phases, ReauditIsLater, HostIsHere, world, run
  <2>3. ASSUME NEW d \in Controls, scan'.got[d] # Absent
        PROVE  scan'.got[d].in \in BootIds /\ applied.n <= scan'.got[d].in.n
    BY <1>3, <1>5, <2>3 DEF Phases, ReauditIsLater, AppliedHere, Converged
  <2> QED
    BY <1>2, <1>3, <2>1, <2>2, <2>3 DEF Phases, ReauditIsLater, run
<1>8. ProofIsLater'
  <2> SUFFICES ASSUME step = "prove" PROVE ProofIsLater'
    BY <1>2 DEF ProofIsLater, run
  <2>1. ASSUME NEW d \in Controls, scan'.got[d] # Absent
        PROVE  /\ scan'.got[d].status # "absent" /\ scan'.got[d].in \in BootIds
               /\ known => applied.n < scan'.got[d].in.n
    BY <1>3, <1>5, <2>1 DEF Phases, ProofIsLater, NewBootIsLater
  <2> QED
    BY <1>2, <1>3, <2>1 DEF Phases, ProofIsLater, run
<1> QED
  BY <1>2, <1>4, <1>6, <1>7, <1>8 DEF Phases, NotYet, PlanIsOfBase, ExitIsTrue, run

LEMMA EarlierScanInductive ==
  ASSUME LoopIInv, EarlierScan
  PROVE  LoopIInv'
<1> USE DEF LoopIInv
<1>1. step = "begin" /\ UNCHANGED run
  BY DEF EarlierScan
<1>2. TypeOK'
  <2>1. CASE StartScan(NoBaseline, Controls)
    BY <2>1, StartScanType DEF LoopTypeOK
  <2>2. CASE \E c \in Controls : Probe(c)
    BY <2>2, ProbeType DEF LoopTypeOK
  <2>3. CASE Finish
    BY <2>3, FinishedType DEF Finish, LoopTypeOK, TypeOK, Scans, world
  <2> QED
    BY <2>1, <2>2, <2>3 DEF EarlierScan
<1>3. LoopTypeOK'
  BY <1>1, <1>2 DEF LoopTypeOK, run
<1> QED
  BY <1>1, <1>3, EarlyPhases DEF Phases, PlanIsOfBase, ProofNeedsReboot, run

\* Boots only grow, and the machine stays once the command has begun.
LEMMA SurroundingsInductive ==
  ASSUME LoopIInv, Surroundings
  PROVE  LoopIInv'
<1> USE DEF LoopIInv
<1>1. step # "done" /\ UNCHANGED run /\ scan' = scan
  BY DEF Surroundings, Reboot, Tick, Replace
<1>2. TypeOK'
  BY DEF Surroundings, Reboot, Tick, Replace, LoopTypeOK, TypeOK
<1>3. LoopTypeOK'
  BY <1>1, <1>2 DEF LoopTypeOK, run
<1>4. \A m \in Machines : boot[m] \in Nat /\ boot'[m] \in Nat /\ boot[m] <= boot'[m]
  BY DEF Surroundings, Reboot, Tick, Replace, LoopTypeOK, TypeOK
<1>5. step # "begin" => machine' = machine
  BY DEF Surroundings, Reboot, Tick, Replace
<1>6. machine \in Machines
  BY DEF LoopTypeOK, TypeOK
<1>7. ASSUME step # "begin", NEW h, HostIsHere(h), applied \in BootIds
      PROVE  HostIsHere(h)'
  <2>1. h.bootId \in BootIds
    BY <1>7 DEF HostIsHere, Hosts
  <2> QED
    BY <1>1, <1>4, <1>5, <1>6, <1>7, <2>1 DEF HostIsHere, BootIds, run
<1>8. AppliedHere'
  BY <1>1, <1>4, <1>5, <1>6 DEF Phases, AppliedHere, Converged, BootIds, run
<1>9. ReauditIsLater'
  <2> SUFFICES ASSUME step = "reaudit" PROVE ReauditIsLater'
    BY <1>1 DEF ReauditIsLater, run
  <2>1. Reselected' = Reselected /\ applied \in BootIds
    BY <1>1 DEF Reselected, Phases, AppliedHere, Converged, run
  <2> QED
    BY <1>1, <1>7, <2>1 DEF Phases, ReauditIsLater, run
<1>10. MergedIsHere'
  <2> SUFFICES ASSUME step \in {"reboot", "wait", "settled", "prove"} PROVE MergedIsHere'
    BY <1>1 DEF MergedIsHere, run
  <2>1. applied \in BootIds
    BY <1>1 DEF Phases, AppliedHere, Converged
  <2> QED
    BY <1>1, <1>7, <2>1 DEF Phases, MergedIsHere, run
<1>11. NewBootIsLater'
  BY <1>1, <1>4, <1>5, <1>6 DEF Phases, NewBootIsLater, AppliedHere, Converged, BootIds, run
<1> QED
  BY <1>1, <1>3, <1>8, <1>9, <1>10, <1>11 DEF Phases, NotYet, PlanIsOfBase, ProofIsLater,
     ProofNeedsReboot, ExitIsTrue, run

----------------------------------------------------------------------------

LEMMA LoopInitInductive == InitLoop => LoopIInv
<1> SUFFICES ASSUME InitLoop PROVE LoopIInv
    OBVIOUS
<1>1. TypeOK
  BY DEF InitLoop, Init, TypeOK, Scans
<1>2. LoopTypeOK
  BY <1>1 DEF InitLoop, LoopTypeOK, Steps, Codes
<1> QED
  BY <1>2 DEF InitLoop, LoopIInv, Phases, NotYet, PlanIsOfBase, AppliedHere, Converged,
     ReauditIsLater, MergedIsHere, NewBootIsLater, ProofIsLater, ProofNeedsReboot, ExitIsTrue

LEMMA LoopStepInductive == LoopIInv /\ [NextLoop]_loopVars => LoopIInv'
<1> SUFFICES ASSUME LoopIInv, [NextLoop]_loopVars PROVE LoopIInv'
    OBVIOUS
<1>1. CASE UNCHANGED loopVars
  BY <1>1 DEF loopVars, vars, run, LoopIInv, LoopTypeOK, TypeOK, Phases, NotYet, PlanIsOfBase,
     AppliedHere, Converged, ReauditIsLater, Reselected, MergedIsHere, HostIsHere,
     NewBootIsLater, ProofIsLater, ProofNeedsReboot, ExitIsTrue, ZeroIsDurable, SurvivedAReboot,
     Verified
<1>2. CASE Command
  BY <1>2, PlanningInductive, ConvergeInductive, GivesUpInductive, ReauditInductive,
     ReauditedInductive, WaitingInductive, ProveInductive, ProvedInductive, ProbingInductive
     DEF Command
<1>3. CASE EarlierScan
  BY <1>3, EarlierScanInductive
<1>4. CASE Surroundings
  BY <1>4, SurroundingsInductive
<1> QED
  BY <1>1, <1>2, <1>3, <1>4 DEF NextLoop

\* harden, its reports and its scans keep their types.
THEOREM LoopTypeCorrect == LoopSpec => []LoopTypeOK
<1>1. LoopIInv => LoopTypeOK
  BY DEF LoopIInv
<1> QED
  BY LoopInitInductive, LoopStepInductive, <1>1, PTL DEF LoopSpec

\* An exit 0 without --reboot is a durable pass of every fixed control, observed
\* after the converge ended.
THEOREM ZeroIsEarned == LoopSpec => []ZeroIsDurable
<1>1. LoopIInv => ZeroIsDurable
  BY DEF LoopIInv, Phases, NotYet, ExitIsTrue, ZeroIsDurable, Verified
<1> QED
  BY LoopInitInductive, LoopStepInductive, <1>1, PTL DEF LoopSpec

\* An exit 0 with --reboot is a pass of every fixed control in a later boot than
\* that of the converge, and no pass was lost at it.
THEOREM RebootIsSurvived == LoopSpec => []SurvivedAReboot
<1>1. LoopIInv => SurvivedAReboot
  BY DEF LoopIInv, Phases, NotYet, ExitIsTrue, SurvivedAReboot, Verified
<1> QED
  BY LoopInitInductive, LoopStepInductive, <1>1, PTL DEF LoopSpec
=============================================================================
