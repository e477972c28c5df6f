--------------------------- MODULE Lockout_proofs ---------------------------
(***************************************************************************)
(* For any set of users: the guards leave somebody, and the person who     *)
(* runs harden, able to log in.  The inductive invariant says that until   *)
(* the converge the guards of the rules left in the plan still hold of the *)
(* host, judged on what is left of the plan.                               *)
(*                                                                         *)
(* For any set of ports: the firewall rule cuts no service that listens.   *)
(* The invariant says that each port has its rule or will get it.          *)
(***************************************************************************)
EXTENDS Lockout, Firewall, TLAPS

GuardsHold ==
  pc = "converge" /\ sure =>
    /\ RootPassword \in plan => RootKeyLogin(Truth)
    /\ NoPasswords \in plan => KeyAccess(Truth, NoRoot \in plan)
    /\ NoRoot \in plan => ~RootOverSSH /\ Admins(Truth) # {}
    /\ RestrictSu \in plan => SuAlternative(Truth)

IInv == TypeOK /\ GuardsHold

----------------------------------------------------------------------------

\* What is written is a configuration.
LEMMA WrittenType ==
  ASSUME NEW rules, NEW own \in Settings
  PROVE  Written(rules, own) \in Settings
<1>1. own.root \in RootLogins \union {"unset"} /\ own.pw \in {"yes", "no", "unset"}
  BY DEF Settings
<1>2. Asked(rules) \in RootLogins \union {"unset"}
  BY DEF Asked, RootLogins
<1> DEFINE before == IF Dropin THEN own ELSE [root |-> "unset", pw |-> "unset"]
<1>3. before.root \in RootLogins \union {"unset"} /\ before.pw \in {"yes", "no", "unset"}
  BY <1>1 DEF RootLogins
<1>4. Stricter(Asked(rules), before.root) \in RootLogins \union {"unset"}
  BY <1>2, <1>3 DEF Stricter
<1>5. CASE rules \cap {RootPassword, NoPasswords, NoRoot} = {}
  BY <1>5 DEF Written
<1>6. CASE rules \cap {RootPassword, NoPasswords, NoRoot} # {}
  <2> DEFINE r == IF Asked(rules) = "unset" THEN before.root
                  ELSE Stricter(Asked(rules), before.root)
             p == IF NoPasswords \in rules THEN "no" ELSE before.pw
  <2>1. Written(rules, own) = [root |-> r, pw |-> p]
    BY <1>6 DEF Written
  <2>2. r \in RootLogins \union {"unset"} /\ p \in {"yes", "no", "unset"}
    BY <1>3, <1>4
  <2> HIDE DEF r, p
  <2> QED
    BY <2>1, <2>2 DEF Settings
<1> QED
  BY <1>5, <1>6

LEMMA TypeIsInductive == TypeOK /\ [Next]_vars => TypeOK'
<1> SUFFICES ASSUME TypeOK, [Next]_vars PROVE TypeOK'
  OBVIOUS
<1>1. ASSUME NEW rules \in SUBSET Rules \ {{}}, Plan(rules) PROVE TypeOK'
  BY <1>1 DEF Plan, TypeOK, accounts, config
<1>2. CASE Guard
  <2>1. plan' \subseteq plan /\ sure' \in BOOLEAN
    BY <1>2 DEF Guard
  <2> QED
    BY <1>2, <2>1 DEF Guard, TypeOK, accounts, config
<1>3. CASE Converge
  <2>1. PICK done : owned' = Written(done, owned) /\ su' = (su /\ RestrictSu \notin done)
    BY <1>3 DEF Converge
  <2>2. owned' \in Settings
    BY <2>1, WrittenType DEF TypeOK
  <2>3. su' \in BOOLEAN
    BY <2>1
  <2> QED
    BY <1>3, <2>2, <2>3 DEF Converge, TypeOK, accounts
<1>4. CASE Administer
  <2>1. PICK a \in Accounts :
          \/ key' \in {key \union {a}, key \ {a}} /\ UNCHANGED <<shell, password, sudo, vendor>>
          \/ password' \in {password \union {a}, password \ {a}}
             /\ UNCHANGED <<shell, key, sudo, vendor>>
          \/ a # Root /\ sudo' \in {sudo \union {a}, sudo \ {a}}
             /\ UNCHANGED <<shell, key, password, vendor>>
    BY <1>4 DEF Administer
  <2>2. a # Root => a \in Users
    BY DEF Accounts
  <2>3. /\ key' \in SUBSET Accounts /\ password' \in SUBSET Accounts
        /\ sudo' \in SUBSET Users
    BY <2>1, <2>2 DEF TypeOK
  <2>4. UNCHANGED <<shell, vendor, su, owned, session, pc, plan>> /\ sure' = FALSE
    BY <1>4, <2>1 DEF Administer
  <2> QED
    BY <2>3, <2>4 DEF TypeOK
<1>5. CASE UNCHANGED vars
  BY <1>5 DEF TypeOK, vars
<1> QED
  BY <1>1, <1>2, <1>3, <1>4, <1>5 DEF Next

LEMMA InitInductive == Init => IInv
<1> SUFFICES ASSUME Init PROVE IInv
  OBVIOUS
<1>1. session \in Accounts \union {Nobody}
  BY DEF Init, Accounts
<1>2. owned \in Settings
  BY DEF Init, Settings
<1>3. shell \in SUBSET Accounts
  BY DEF Init, Accounts
<1>4. TypeOK
  BY <1>1, <1>2, <1>3 DEF Init, TypeOK
<1> QED
  BY <1>4 DEF Init, IInv, GuardsHold

\* The guards were judged on a plan that the plan left over is part of.
LEMMA GuardsHoldIsInductive == IInv /\ [Next]_vars => GuardsHold'
<1> SUFFICES ASSUME IInv, [Next]_vars PROVE GuardsHold'
  OBVIOUS
<1>1. ASSUME NEW rules \in SUBSET Rules \ {{}}, Plan(rules) PROVE GuardsHold'
  BY <1>1 DEF Plan, GuardsHold
<1>2. CASE Guard
  <2> SUFFICES ASSUME pc' = "converge", sure'
               PROVE  /\ RootPassword \in plan' => RootKeyLogin(Truth)'
                      /\ NoPasswords \in plan' => KeyAccess(Truth, NoRoot \in plan)'
                      /\ NoRoot \in plan' => (~RootOverSSH)' /\ (Admins(Truth) # {})'
                      /\ RestrictSu \in plan' => SuAlternative(Truth)'
    BY DEF GuardsHold
  <2>1. plan' = plan \ Stopped(Truth)
    BY <1>2 DEF Guard
  <2>2. UNCHANGED <<shell, key, password, sudo, su, vendor, owned, session>>
    BY <1>2 DEF Guard, accounts, config
  <2>3. \A rule \in plan' : rule \in plan /\ Passes(rule, Truth)
    BY <2>1 DEF Stopped
  <2>4. RootPassword \in plan' => RootKeyLogin(Truth)'
    BY <2>2, <2>3 DEF Passes, RootPassword, NoPasswords, NoRoot, RestrictSu, RootKeyLogin,
       Truth, sshdNow, Effective, Admins, RootOverSSH
  <2>5. NoPasswords \in plan' => KeyAccess(Truth, NoRoot \in plan)'
    <3> SUFFICES ASSUME NoPasswords \in plan'
                 PROVE  KeyAccess(Truth, NoRoot \in plan)'
      OBVIOUS
    <3>1. KeyAccess(Truth, NoRoot \in plan)
      BY <2>3 DEF Passes, RootPassword, NoPasswords, NoRoot, RestrictSu
    <3>2. NoRoot \in plan' => NoRoot \in plan
      BY <2>3
    <3> QED
      BY <2>2, <3>1, <3>2 DEF KeyAccess, Keyed, Truth, sshdNow, Effective
  <2>6. NoRoot \in plan' => (~RootOverSSH)' /\ (Admins(Truth) # {})'
    BY <2>2, <2>3 DEF Passes, RootPassword, NoPasswords, NoRoot, RestrictSu,
       Truth, sshdNow, Effective, Admins, RootOverSSH
  <2>7. RestrictSu \in plan' => SuAlternative(Truth)'
    BY <2>2, <2>3 DEF Passes, RootPassword, NoPasswords, NoRoot, RestrictSu,
       Truth, sshdNow, Effective, SuAlternative
  <2> QED
    BY <2>4, <2>5, <2>6, <2>7
<1>3. CASE Converge
  BY <1>3 DEF Converge, GuardsHold
<1>4. CASE Administer
  BY <1>4 DEF Administer, GuardsHold
<1>5. CASE UNCHANGED vars
  BY <1>5 DEF vars, IInv, GuardsHold, RootKeyLogin, KeyAccess, Keyed, RootOverSSH, Admins,
     SuAlternative, Truth, sshdNow, Effective
<1> QED
  BY <1>1, <1>2, <1>3, <1>4, <1>5 DEF Next

\* Accounts, configuration and plan keep their types, and a converge that the
\* guards decided meets a host of which they still hold.
THEOREM GuardsStillHold == Spec => []IInv
<1>1. IInv /\ [Next]_vars => IInv'
  BY TypeIsInductive, GuardsHoldIsInductive DEF IInv
<1> QED
  BY <1>1, InitInductive, PTL DEF Spec

THEOREM TypeCorrect == Spec => []TypeOK
<1>1. IInv => TypeOK
  BY DEF IInv
<1> QED
  BY <1>1, GuardsStillHold, PTL

----------------------------------------------------------------------------
(* What a converge does to the configuration sshd runs with.               *)

LEMMA Tightened ==
  ASSUME Dropin = TRUE, NEW rules, NEW own \in Settings,
         NEW vend \in [root : RootLogins, pw : {"yes", "no"}]
  PROVE  LET e == Effective(own, vend)
             after == Effective(Written(rules, own), vend)
         IN /\ NoPasswords \notin rules => after.pw = e.pw
            /\ NoRoot \notin rules /\ e.root # "no" => after.root # "no"
            /\ NoRoot \notin rules /\ RootPassword \notin rules => after.root = e.root
<1> DEFINE w == Written(rules, own)
           e == Effective(own, vend)
           after == Effective(w, vend)
<1>1. own.root \in RootLogins \union {"unset"} /\ vend.root \in RootLogins
  BY DEF Settings
<1>2. CASE rules \cap {RootPassword, NoPasswords, NoRoot} = {}
  <2>1. w = own
    BY <1>2 DEF Written
  <2> QED
    BY <2>1
<1>3. CASE rules \cap {RootPassword, NoPasswords, NoRoot} # {}
  <2>1. w = [root |-> IF Asked(rules) = "unset" THEN own.root
                      ELSE Stricter(Asked(rules), own.root),
             pw   |-> IF NoPasswords \in rules THEN "no" ELSE own.pw]
    BY <1>3 DEF Written
  <2>2. NoPasswords \notin rules => after.pw = e.pw
    BY <2>1 DEF Effective
  <2>3. NoRoot \notin rules /\ RootPassword \notin rules => after.root = e.root
    BY <2>1 DEF Effective, Asked
  <2>4. ASSUME NoRoot \notin rules, e.root # "no" PROVE after.root # "no"
    <3>1. own.root # "no"
      BY <2>4, <1>1 DEF Effective, RootLogins
    <3>2. CASE RootPassword \in rules
      <4>1. Asked(rules) = "prohibit-password"
        BY <2>4, <3>2 DEF Asked
      <4>2. w.root = Stricter("prohibit-password", own.root)
        BY <2>1, <4>1
      <4>3. w.root = "prohibit-password"
        BY <1>1, <3>1, <4>2 DEF Stricter, Rank, RootLogins
      <4> QED
        BY <4>3 DEF Effective
    <3>3. CASE RootPassword \notin rules
      BY <2>3, <2>4, <3>3
    <3> QED
      BY <3>2, <3>3
  <2> QED
    BY <2>2, <2>3, <2>4
<1> QED
  BY <1>2, <1>3

\* One converge, whichever part of the plan it got to.
LEMMA ConvergeKeepsLogins ==
  ASSUME Dropin = TRUE, IInv, Converge, sure
  PROVE  LET after == Effective(owned', vendor')
         IN /\ SomebodyLogsIn(sshdNow) => \E a \in Accounts : LogsIn(after, a)
            /\ session # Nobody /\ LogsIn(sshdNow, session) => LogsIn(after, session)
<1> DEFINE e == Effective(owned, vendor)
           after == Effective(owned', vendor')
<1>1. PICK done \in {{}, plan \cap {RestrictSu}, plan} : owned' = Written(done, owned)
  BY DEF Converge
<1>2. vendor' = vendor /\ pc = "converge"
  BY DEF Converge
<1>3. CASE done \in {{}, plan \cap {RestrictSu}}
  <2>1. done \cap {RootPassword, NoPasswords, NoRoot} = {}
    BY <1>3 DEF RootPassword, NoPasswords, NoRoot, RestrictSu
  <2>2. owned' = owned
    BY <1>1, <2>1 DEF Written
  <2> QED
    BY <1>2, <2>2 DEF sshdNow, SomebodyLogsIn
<1>4. CASE done = plan
  <2>1. /\ NoPasswords \notin plan => after.pw = e.pw
        /\ NoRoot \notin plan /\ e.root # "no" => after.root # "no"
        /\ NoRoot \notin plan /\ RootPassword \notin plan => after.root = e.root
    BY <1>1, <1>2, <1>4, Tightened DEF IInv, TypeOK
  <2>2. /\ RootPassword \in plan => RootKeyLogin(Truth)
        /\ NoPasswords \in plan => KeyAccess(Truth, NoRoot \in plan)
        /\ NoRoot \in plan => ~RootOverSSH /\ Admins(Truth) # {}
    BY <1>2 DEF IInv, GuardsHold
  <2>3. Truth.listed = shell /\ Truth.permitRoot = e.root /\ sshdNow = e
    BY DEF Truth, sshdNow
  <2>4. ASSUME NEW a \in Admins(Truth) PROVE LogsIn(after, a) /\ a \in Accounts
    BY <2>3, <2>4 DEF Admins, LogsIn, RootAdmitted, IInv, TypeOK
  <2>5. ASSUME NEW a \in Keyed(Truth, NoRoot \in plan)
        PROVE  LogsIn(after, a) /\ a \in Accounts
    BY <2>1, <2>3, <2>5 DEF Keyed, LogsIn, RootAdmitted, IInv, TypeOK
  <2>6. ASSUME NEW a, LogsIn(e, a), a # Root, NoPasswords \notin plan
        PROVE  LogsIn(after, a)
    BY <2>1, <2>6 DEF LogsIn, RootAdmitted
  <2>7. ASSUME LogsIn(e, Root), NoRoot \notin plan, NoPasswords \notin plan
        PROVE  LogsIn(after, Root) \/ (Admins(Truth) # {} /\ ~RootOverSSH)
    <3>1. CASE Root \in key /\ e.root # "no"
      BY <2>1, <2>7, <3>1 DEF LogsIn, RootAdmitted
    <3>2. CASE Root \in password /\ e.pw = "yes" /\ e.root = "yes" /\ Root \notin key
      <4>1. CASE RootPassword \in plan
        BY <2>2, <2>3, <2>7, <3>2, <4>1 DEF RootKeyLogin, LogsIn
      <4>2. CASE RootPassword \notin plan
        BY <2>1, <2>7, <3>2, <4>2 DEF LogsIn
      <4> QED
        BY <4>1, <4>2
    <3> QED
      BY <2>7, <3>1, <3>2 DEF LogsIn, RootAdmitted
  <2>8. ASSUME SomebodyLogsIn(e) PROVE \E a \in Accounts : LogsIn(after, a)
    <3>1. PICK a \in Accounts : LogsIn(e, a)
      BY <2>8 DEF SomebodyLogsIn
    <3>2. CASE NoPasswords \in plan
      BY <2>2, <2>5, <3>2 DEF KeyAccess
    <3>3. CASE NoPasswords \notin plan /\ NoRoot \in plan
      BY <2>2, <2>4, <3>3
    <3>4. CASE NoPasswords \notin plan /\ NoRoot \notin plan
      BY <2>4, <2>6, <2>7, <3>1, <3>4
    <3> QED
      BY <3>2, <3>3, <3>4
  <2>9. ASSUME session # Nobody, LogsIn(e, session) PROVE LogsIn(after, session)
    <3>1. session = Root => NoRoot \notin plan /\ RootOverSSH
      BY <2>2 DEF RootOverSSH
    <3>2. CASE NoPasswords \in plan
      <4>1. session \in key /\ session \in shell
        BY <2>2, <2>3, <2>9, <3>2 DEF KeyAccess, LogsIn
      <4>2. session = Root => e.root # "no"
        BY <2>9 DEF LogsIn, RootAdmitted
      <4> QED
        BY <2>1, <3>1, <4>1, <4>2 DEF LogsIn, RootAdmitted
    <3>3. CASE NoPasswords \notin plan
      BY <2>6, <2>7, <2>9, <3>1, <3>3
    <3> QED
      BY <3>2, <3>3
  <2> QED
    BY <2>3, <2>8, <2>9
<1> QED
  BY <1>1, <1>3, <1>4

\* The step from "converge" back to "idle" is a converge.
LEMMA OnlyConvergeEnds ==
  ASSUME [Next]_vars, pc = "converge", pc' = "idle"
  PROVE  Converge
BY DEF Next, Plan, Guard, Administer, vars

\* No run of any rules takes the last login over SSH away, for any users.
THEOREM SomebodyStays == ASSUME Dropin = TRUE PROVE Spec => NobodyLockedOut
<1>1. IInv /\ [Next]_vars =>
        [sure /\ SomebodyLogsIn(sshdNow) /\ pc = "converge" /\ pc' = "idle"
           => SomebodyLogsIn(Effective(owned', vendor'))]_vars
  <2> SUFFICES ASSUME IInv, [Next]_vars, sure, SomebodyLogsIn(sshdNow),
                      pc = "converge", pc' = "idle"
               PROVE  SomebodyLogsIn(Effective(owned', vendor'))
    OBVIOUS
  <2>1. \E a \in Accounts : LogsIn(Effective(owned', vendor'), a)
    BY OnlyConvergeEnds, ConvergeKeepsLogins
  <2> QED
    BY <2>1 DEF SomebodyLogsIn
<1> QED
  BY <1>1, GuardsStillHold, PTL DEF Spec, NobodyLockedOut

\* Nor the login of the person who runs it.
THEOREM SessionStays == ASSUME Dropin = TRUE PROVE Spec => SessionKeepsAccess
<1>1. IInv /\ [Next]_vars =>
        [sure /\ session # Nobody /\ LogsIn(sshdNow, session) /\ pc = "converge" /\ pc' = "idle"
           => LogsIn(Effective(owned', vendor'), session)]_vars
  <2> SUFFICES ASSUME IInv, [Next]_vars, sure, session # Nobody, LogsIn(sshdNow, session),
                      pc = "converge", pc' = "idle"
               PROVE  LogsIn(Effective(owned', vendor'), session)
    OBVIOUS
  <2> QED
    BY OnlyConvergeEnds, ConvergeKeepsLogins
<1> QED
  BY <1>1, GuardsStillHold, PTL DEF Spec, SessionKeepsAccess

\* One converge while su is open: closing su is left out where nobody has sudo,
\* and a refused password of root leaves somebody who logs in and may use su.
LEMMA ConvergeKeepsAWayToRoot ==
  ASSUME Dropin = TRUE, IInv, Converge, sure, su, WayToRoot(sshdNow, su)
  PROVE  WayToRoot(Effective(owned', vendor'), su')
<1> DEFINE e == Effective(owned, vendor)
           after == Effective(owned', vendor')
           SudoUser == \E a \in shell \cap Users : a \in sudo
<1>1. PICK done \in {{}, plan \cap {RestrictSu}, plan} :
        owned' = Written(done, owned) /\ su' = (su /\ RestrictSu \notin done)
  BY DEF Converge
<1>2. UNCHANGED <<shell, key, password, sudo, vendor>> /\ pc = "converge"
  BY DEF Converge, accounts
<1>3. done \subseteq plan
  BY <1>1
<1>4. /\ RootPassword \in done => RootKeyLogin(Truth)
      /\ NoPasswords \in done => KeyAccess(Truth, NoRoot \in plan)
      /\ NoRoot \in done => Admins(Truth) # {}
      /\ RestrictSu \in done => SuAlternative(Truth)
  BY <1>2, <1>3 DEF IInv, GuardsHold
<1>5. shell \subseteq Accounts /\ Root \notin Users
  BY LockoutAssumption DEF IInv, TypeOK
<1>6. CASE SudoUser
  BY <1>2, <1>6 DEF WayToRoot
<1>7. CASE ~SudoUser
  <2>1. Admins(Truth) = {} /\ NoRoot \notin done
    BY <1>4, <1>5, <1>7 DEF Admins, Truth, Accounts
  <2>2. RestrictSu \in done => shell \cap Users = {}
    BY <1>4, <1>5, <1>7 DEF SuAlternative, Truth, Accounts
  <2>3. CASE Root \in password /\ shell \cap Users # {}
    <3>1. su'
      BY <1>1, <2>2, <2>3
    <3> QED
      BY <1>2, <2>3, <3>1 DEF WayToRoot
  <2>4. CASE ~(Root \in password /\ shell \cap Users # {})
    <3>1. LogsIn(e, Root)
      BY <1>7, <2>4 DEF WayToRoot, sshdNow
    <3>2. /\ NoPasswords \notin done => after.pw = e.pw
          /\ e.root # "no" => after.root # "no"
          /\ RootPassword \notin done => after.root = e.root
      BY <1>1, <1>2, <2>1, Tightened DEF IInv, TypeOK
    <3>3. CASE Root \in key
      <4>1. e.root # "no" \/ e.root = "yes"
        BY <3>1 DEF LogsIn, RootAdmitted
      <4>2. after.root # "no" /\ Root \in shell
        BY <3>1, <3>2, <4>1 DEF LogsIn
      <4> QED
        BY <1>2, <3>3, <4>2 DEF WayToRoot, LogsIn, RootAdmitted
    <3>4. CASE Root \notin key
      <4>1. Root \in shell /\ Root \in password /\ e.pw = "yes" /\ e.root = "yes"
        BY <3>1, <3>4 DEF LogsIn
      <4>2. RootPassword \notin done
        BY <1>4, <2>1, <3>4, <4>1 DEF RootKeyLogin, Truth
      <4>3. NoPasswords \notin done
        <5> SUFFICES ASSUME NoPasswords \in done PROVE FALSE
          OBVIOUS
        <5>1. PICK a \in shell : a \in key
          BY <1>4 DEF KeyAccess, Keyed, Truth
        <5> QED
          BY <1>5, <2>4, <3>4, <4>1, <5>1 DEF Accounts
      <4> QED
        BY <1>2, <3>2, <4>1, <4>2, <4>3 DEF WayToRoot, LogsIn
    <3> QED
      BY <3>3, <3>4
  <2> QED
    BY <2>3, <2>4
<1> QED
  BY <1>6, <1>7

\* No run of any rules closes the last way to root, for any users.
THEOREM AWayToRootRemains == ASSUME Dropin = TRUE PROVE Spec => AWayToRootStays
<1>1. IInv /\ [Next]_vars =>
        [sure /\ su /\ WayToRoot(sshdNow, su) /\ pc = "converge" /\ pc' = "idle"
           => WayToRoot(Effective(owned', vendor'), su')]_vars
  <2> SUFFICES ASSUME IInv, [Next]_vars, sure, su, WayToRoot(sshdNow, su),
                      pc = "converge", pc' = "idle"
               PROVE  WayToRoot(Effective(owned', vendor'), su')
    OBVIOUS
  <2> QED
    BY OnlyConvergeEnds, ConvergeKeepsAWayToRoot
<1> QED
  BY <1>1, GuardsStillHold, PTL DEF Spec, AWayToRootStays

\* With OpenSSH 8.2 or later no run, guarded or forced, drops or relaxes what an
\* earlier one wrote.
THEOREM RunsAddUp == ASSUME Dropin = TRUE PROVE Spec => EarlierRunsAreKept
<1>1. IInv /\ [Next]_vars =>
        [/\ owned.pw = "no" => owned'.pw = "no"
         /\ Rank(owned'.root) <= Rank(owned.root)]_vars
  <2> SUFFICES ASSUME IInv, [Next]_vars
               PROVE  /\ owned.pw = "no" => owned'.pw = "no"
                      /\ Rank(owned'.root) <= Rank(owned.root)
    OBVIOUS
  <2>1. owned.root \in RootLogins \union {"unset"} /\ owned \in Settings
    BY DEF IInv, TypeOK, Settings
  <2>2. \A v \in RootLogins \union {"unset"} : Rank(v) \in Nat
    BY DEF Rank, RootLogins
  <2>3. CASE UNCHANGED owned
    BY <2>1, <2>2, <2>3
  <2>4. CASE Converge
    <3>1. PICK done : owned' = Written(done, owned)
      BY <2>4 DEF Converge
    <3>2. CASE done \cap {RootPassword, NoPasswords, NoRoot} = {}
      BY <2>1, <2>2, <3>1, <3>2 DEF Written
    <3>3. CASE done \cap {RootPassword, NoPasswords, NoRoot} # {}
      <4>1. owned' = [root |-> IF Asked(done) = "unset" THEN owned.root
                               ELSE Stricter(Asked(done), owned.root),
                      pw   |-> IF NoPasswords \in done THEN "no" ELSE owned.pw]
        BY <3>1, <3>3 DEF Written
      <4>2. Asked(done) \in RootLogins \union {"unset"}
        BY DEF Asked, RootLogins
      <4>3. Rank(Stricter(Asked(done), owned.root)) <= Rank(owned.root)
        BY <2>1, <2>2, <4>2 DEF Stricter
      <4>4. Rank(owned'.root) <= Rank(owned.root)
        BY <2>1, <2>2, <4>1, <4>3
      <4> QED
        BY <4>1, <4>4
    <3> QED
      BY <3>2, <3>3
  <2> QED
    BY <2>3, <2>4 DEF Next, Plan, Guard, Administer, config, vars
<1> QED
  BY <1>1, GuardsStillHold, PTL DEF Spec, EarlierRunsAreKept
----------------------------------------------------------------------------
(* The firewall rule.                                                      *)

FirewallTypeOK ==
  /\ tool \in {"ufw", "firewalld"}
  /\ step \in {"idle", "compile", "done"} \union {Order[tool][i] : i \in DOMAIN Order[tool]}

\* A port that the guard listed still listens, and from the first resource on it
\* has a rule already, or one that is yet to come; ufw has one set of rules, and
\* firewalld passes over a port that its running configuration allows.
RulesCover ==
  /\ steady \subseteq Listed
  /\ step \in {"install", "allow"} /\ tool = "ufw"       => steady \subseteq left \union permanent
  /\ step \in {"install", "enable", "allow"} /\ tool = "firewalld"
       => steady \subseteq left \union permanent \union runtime
  /\ step \in {"deny", "enable", "done"} /\ tool = "ufw" => steady \subseteq permanent
  /\ step = "reload" => steady \subseteq permanent \union runtime
  /\ tool = "ufw" => runtime = permanent

\* Nothing was allowed yet when firewalld starts.
NothingAllowed == step \in {"install", "enable"} /\ tool = "firewalld" => steady \subseteq left

FirewallIInv == FirewallTypeOK /\ RulesCover /\ NothingAllowed

\* The order of the resources.
LEMMA OrderOfUfw ==
  ASSUME tool = "ufw"
  PROVE  /\ Following("install") = "allow" /\ Following("allow") = "deny"
         /\ Following("deny") = "enable" /\ Following("enable") = "done"
         /\ {Order[tool][i] : i \in DOMAIN Order[tool]} = {"install", "allow", "deny", "enable"}
<1> DEFINE steps == <<"install", "allow", "deny", "enable">>
<1>1. Order[tool] = steps
  BY DEF Order
<1>2. DOMAIN steps = 1 .. 4 /\ Len(steps) = 4
  OBVIOUS
<1>3. /\ steps[1] = "install" /\ steps[2] = "allow" /\ steps[3] = "deny" /\ steps[4] = "enable"
  OBVIOUS
<1>4. \A k \in 1 .. 4 : (CHOOSE i \in DOMAIN steps : steps[i] = steps[k]) = k
  BY <1>2, <1>3
<1>5. \A k \in 1 .. 4 : Following(steps[k]) = IF k = 4 THEN "done" ELSE steps[k + 1]
  BY <1>1, <1>2, <1>4 DEF Following
<1> QED
  BY <1>1, <1>2, <1>3, <1>5

LEMMA OrderOfFirewalld ==
  ASSUME tool = "firewalld"
  PROVE  /\ Following("install") = "enable" /\ Following("enable") = "allow"
         /\ Following("allow") = "reload" /\ Following("reload") = "done"
         /\ {Order[tool][i] : i \in DOMAIN Order[tool]} = {"install", "enable", "allow", "reload"}
<1> DEFINE steps == <<"install", "enable", "allow", "reload">>
<1>1. Order[tool] = steps
  BY DEF Order
<1>2. DOMAIN steps = 1 .. 4 /\ Len(steps) = 4
  OBVIOUS
<1>3. /\ steps[1] = "install" /\ steps[2] = "enable" /\ steps[3] = "allow" /\ steps[4] = "reload"
  OBVIOUS
<1>4. \A k \in 1 .. 4 : (CHOOSE i \in DOMAIN steps : steps[i] = steps[k]) = k
  BY <1>2, <1>3
<1>5. \A k \in 1 .. 4 : Following(steps[k]) = IF k = 4 THEN "done" ELSE steps[k + 1]
  BY <1>1, <1>2, <1>4 DEF Following
<1> QED
  BY <1>1, <1>2, <1>3, <1>5

LEMMA FirewallInit == InitFirewall => FirewallIInv
  BY DEF InitFirewall, FirewallIInv, FirewallTypeOK, RulesCover, NothingAllowed

LEMMA FirewallStep == FirewallIInv /\ [NextFirewall]_firewall => FirewallIInv'
<1> SUFFICES ASSUME FirewallIInv, [NextFirewall]_firewall PROVE FirewallIInv'
    OBVIOUS
<1> USE DEF FirewallIInv, RulesCover, NothingAllowed, tools, state, filter, progress
<1>0. CASE UNCHANGED firewall
  BY <1>0 DEF firewall, FirewallTypeOK, Listed
<1>1. CASE ListPorts
  BY <1>1 DEF ListPorts, FirewallTypeOK, Listed, Running
<1>2. CASE Compile
  BY <1>2, OrderOfUfw, OrderOfFirewalld DEF Compile, FirewallTypeOK, Listed, PortRules
<1>3. CASE Install
  BY <1>3, OrderOfUfw, OrderOfFirewalld DEF Install, Proceed, FirewallTypeOK, Listed
<1>4. CASE Deny
  BY <1>4, OrderOfUfw, OrderOfFirewalld DEF Deny, Proceed, FirewallTypeOK, Listed
<1>5. CASE Enable
  BY <1>5, OrderOfUfw, OrderOfFirewalld DEF Enable, Proceed, FirewallTypeOK, Listed
<1>6. CASE Reload
  BY <1>6, OrderOfUfw, OrderOfFirewalld DEF Reload, Proceed, FirewallTypeOK, Listed
<1>7. CASE Stop
  BY <1>7 DEF Stop, FirewallTypeOK, Listed
<1>8. CASE Reboot
  BY <1>8 DEF Reboot, FirewallTypeOK, Listed
<1>9. ASSUME NEW p \in Ports, Allow(p) PROVE FirewallIInv'
  <2>1. step = "allow" /\ UNCHANGED <<tool, served, steady>> /\ left' = left \ {p}
    BY <1>9 DEF Allow
  <2>2. p \in permanent' \/ (tool = "firewalld" /\ p \in runtime')
    BY <1>9 DEF Allow, Skipped, FirewallTypeOK
  <2>3. permanent \subseteq permanent' /\ runtime \subseteq runtime'
    BY <1>9 DEF Allow
  <2>4. tool = "ufw" => runtime' = permanent'
    BY <1>9 DEF Allow
  <2>5. step' = IF left' = {} THEN Following("allow") ELSE "allow"
    BY <1>9 DEF Allow
  <2> QED
    BY <2>1, <2>2, <2>3, <2>4, <2>5, OrderOfUfw, OrderOfFirewalld DEF FirewallTypeOK, Listed
<1>10. ASSUME NEW p \in Ports, Serve(p) PROVE FirewallIInv'
  BY <1>10 DEF Serve, FirewallTypeOK, Listed
<1>11. ASSUME NEW p \in Ports, OpenForNow(p) PROVE FirewallIInv'
  BY <1>11 DEF OpenForNow, FirewallTypeOK, Listed
<1> QED
  BY <1>0, <1>1, <1>2, <1>3, <1>4, <1>5, <1>6, <1>7, <1>8, <1>9, <1>10, <1>11 DEF NextFirewall

LEMMA FirewallInvariance == FirewallSpec => []FirewallIInv
  BY FirewallInit, FirewallStep, PTL DEF FirewallSpec

\* With ufw no step of a run, stopped anywhere, closes a port that the guard listed
\* and that listened ever since, on any host (UfwNeverCuts).
THEOREM UfwCutsNothing == FirewallSpec => UfwNeverCuts
<1> DEFINE NoCut == tool = "ufw" => \A p \in steady \intersect steady' : StaysOpen(p)
<1>1. FirewallIInv /\ [NextFirewall]_firewall => [NoCut]_firewall
  <2> SUFFICES ASSUME FirewallIInv, NextFirewall, tool = "ufw",
                      NEW p \in steady \intersect steady'
               PROVE  StaysOpen(p)
      OBVIOUS
  <2> USE DEF FirewallIInv, RulesCover, StaysOpen, Open, AtBoot, tools, state, filter, progress
  <2>1. CASE ListPorts \/ Compile \/ Install
    <3>1. UNCHANGED <<active, boot, deny, runtime, permanent>>
      BY <2>1 DEF ListPorts, Compile, Install
    <3> QED
      BY <3>1
  <2>2. CASE Deny
    BY <2>2 DEF Deny, Proceed
  <2>3. CASE Enable
    BY <2>3 DEF Enable, Proceed
  <2>4. CASE Reload
    BY <2>4 DEF Reload
  <2>5. CASE Stop \/ Reboot
    BY <2>5 DEF Stop, Reboot
  <2>6. ASSUME NEW q \in Ports, Allow(q) PROVE StaysOpen(p)
    BY <2>6 DEF Allow
  <2>7. ASSUME NEW q \in Ports, Serve(q) \/ OpenForNow(q) PROVE StaysOpen(p)
    BY <2>7 DEF Serve, OpenForNow
  <2> QED
    BY <2>1, <2>2, <2>3, <2>4, <2>5, <2>6, <2>7 DEF NextFirewall
<1> QED
  BY <1>1, FirewallInvariance, PTL DEF FirewallSpec, UfwNeverCuts

\* A run that reached its end leaves every such port open after the next boot, or
\* it was open only until the next reload, with both tools (KeptAcrossBoots).
THEOREM FinishedIsKept == FirewallSpec => KeptAcrossBoots
<1> DEFINE Kept == step' = "done" /\ Running =>
                     \A p \in steady : p \in runtime \ permanent \/ (AtBoot(p))'
<1>1. FirewallIInv /\ [NextFirewall]_firewall => [Kept]_firewall
  <2> SUFFICES ASSUME FirewallIInv, NextFirewall, step' = "done", Running,
                      NEW p \in steady
               PROVE  p \in runtime \ permanent \/ p \in permanent'
      BY DEF AtBoot
  <2> USE DEF FirewallIInv, RulesCover, Running, tools, state, filter, progress
  <2>1. CASE ListPorts \/ Compile \/ Install \/ Stop \/ Reboot
    BY <2>1, OrderOfUfw, OrderOfFirewalld
       DEF ListPorts, Compile, Install, Proceed, Stop, Reboot, FirewallTypeOK
  <2>2. CASE Deny
    BY <2>2, OrderOfUfw, OrderOfFirewalld DEF Deny, Proceed, FirewallTypeOK
  <2>3. CASE Enable
    BY <2>3, OrderOfUfw, OrderOfFirewalld DEF Enable, Proceed, FirewallTypeOK
  <2>4. CASE Reload
    BY <2>4, OrderOfUfw, OrderOfFirewalld DEF Reload, Proceed, FirewallTypeOK
  <2>5. ASSUME NEW q \in Ports, Allow(q) PROVE FALSE
    BY <2>5, OrderOfUfw, OrderOfFirewalld DEF Allow, FirewallTypeOK
  <2>6. ASSUME NEW q \in Ports, Serve(q) \/ OpenForNow(q) PROVE FALSE
    BY <2>6 DEF Serve, OpenForNow
  <2> QED
    BY <2>1, <2>2, <2>3, <2>4, <2>5, <2>6 DEF NextFirewall
<1> QED
  BY <1>1, FirewallInvariance, PTL DEF FirewallSpec, KeptAcrossBoots
=============================================================================
