------------------------------ MODULE Lockout ------------------------------
(***************************************************************************)
(* The rules of a plan that can lock people out, the guards that decide on *)
(* them (internal/harden/guards.go) and what the cookbook then writes      *)
(* (cookbook/shadow_armor, sshd_config and line_in_file), over any number  *)
(* of runs on a host whose administrators change accounts meanwhile.       *)
(***************************************************************************)
EXTENDS Naturals

CONSTANTS
  Users,   \* interactive accounts other than root
  Root,    \* the account of UID 0
  Dropin   \* OpenSSH reads /etc/ssh/sshd_config.d (8.2 and later)

ASSUME LockoutAssumption == Root \notin Users /\ Dropin \in BOOLEAN

VARIABLES
  shell,     \* the accounts with a login shell
  key,       \* those with an authorized SSH key
  password,  \* those with a usable password
  sudo,      \* the users who may run commands through sudo
  su,        \* su is open to everybody who knows the root password
  vendor,    \* what the administrators' sshd configuration says
  owned,     \* what the file or block of Shadow-Armor says, read first
  session,   \* who runs harden over SSH, if anybody does
  pc,        \* where the run is
  plan,      \* the rules of the run
  sure       \* history: the guards decided, on facts that are still true

accounts == <<shell, key, password, sudo>>
config   == <<su, vendor, owned>>
vars     == <<shell, key, password, sudo, su, vendor, owned, session, pc, plan, sure>>

Accounts == Users \union {Root}
Nobody   == "nobody"

RootPassword == "SA-06.01"   \* PermitRootLogin prohibit-password
NoPasswords  == "SA-06.02"   \* PasswordAuthentication no
NoRoot       == "SA-06.21"   \* PermitRootLogin no
RestrictSu   == "SA-07.05"   \* pam_wheel, with an empty group
Rules == {RootPassword, NoPasswords, NoRoot, RestrictSu}

----------------------------------------------------------------------------
(* sshd keeps the first value it reads.                                    *)

RootLogins == {"no", "prohibit-password", "yes"}
Settings == [root : RootLogins \union {"unset"}, pw : {"yes", "no", "unset"}]

Effective(own, vend) ==
  [root |-> IF own.root # "unset" THEN own.root ELSE vend.root,
   pw   |-> IF own.pw # "unset" THEN own.pw ELSE vend.pw]

RootAdmitted(sshd, a) == a = Root => sshd.root # "no"

LogsIn(sshd, a) ==
  /\ a \in shell
  /\ \/ a \in key /\ RootAdmitted(sshd, a)
     \/ /\ a \in password /\ sshd.pw = "yes"
        /\ a = Root => sshd.root = "yes"

SomebodyLogsIn(sshd) == \E a \in Accounts : LogsIn(sshd, a)

\* A login of root, sudo, or su with its password (at the console, for those
\* who do not log in over SSH).
WayToRoot(sshd, open) ==
  \/ LogsIn(sshd, Root)
  \/ \E a \in shell \cap Users : a \in sudo \/ (open /\ Root \in password)

sshdNow == Effective(owned, vendor)

----------------------------------------------------------------------------
(* The guards.  Facts are read once; a command whose output cannot be read *)
(* gives an empty answer.                                                  *)

Facts == [listed : SUBSET Accounts, permitRoot : RootLogins \union {""}]

Admins(f) == {a \in f.listed \ {Root} : a \in key /\ a \in sudo}

RootOverSSH == session = Root

RootKeyLogin(f) ==
  \/ Root \notin f.listed
  \/ Root \in key
  \/ Root \notin password
  \/ Admins(f) # {} /\ ~RootOverSSH

\* Mutant: a key of root counts although sshd refuses root.
KeyedAnyRoot(f, rootRefused) == {a \in f.listed : a \in key /\ (a = Root => ~rootRefused)}

\* Who still logs in with a key once passwords are refused.
Keyed(f, rootRefused) ==
  {a \in f.listed : a \in key /\ (a = Root => f.permitRoot # "no" /\ ~rootRefused)}

\* Mutant: somebody else's key is enough.
KeyAccessOthers(f, rootRefused) == Keyed(f, rootRefused) # {}

KeyAccess(f, rootRefused) ==
  /\ session \in f.listed => session \in key
  /\ Keyed(f, rootRefused) # {}

\* Mutant: root itself is counted among those who do not rely on su.
SuAlternativeRoot(f) == Root \in f.listed \/ (f.listed \ {Root}) \cap sudo # {}

SuAlternative(f) ==
  LET users == f.listed \ {Root}
  IN users = {} \/ users \cap sudo # {}

Passes(rule, f) ==
  CASE rule = RootPassword -> RootKeyLogin(f)
    [] rule = NoPasswords  -> KeyAccess(f, NoRoot \in plan)
    [] rule = NoRoot       -> ~RootOverSSH /\ Admins(f) # {}
    [] rule = RestrictSu   -> SuAlternative(f)

Stopped(f) == {rule \in plan : ~Passes(rule, f)}

----------------------------------------------------------------------------
(* The run.                                                                *)

\* A plan with any of the rules, whatever the audit said of them: a plan file
\* may be older than the configuration.
Plan(rules) ==
  /\ pc = "idle"
  /\ plan' = rules
  /\ pc' = "guard"
  /\ UNCHANGED <<accounts, config, session, sure>>

Truth == [listed |-> shell, permitRoot |-> sshdNow.root]

\* Guards are judged on the whole plan; those that fail leave their rule out,
\* unless --force.
Guard ==
  /\ pc = "guard"
  /\ \E f \in {Truth, [Truth EXCEPT !.listed = {}], [Truth EXCEPT !.permitRoot = ""]},
        force \in BOOLEAN :
       /\ plan' = IF force THEN plan ELSE plan \ Stopped(f)
       /\ sure' = (~force /\ f = Truth)
  /\ pc' = IF plan' = {} THEN "idle" ELSE "converge"
  /\ UNCHANGED <<accounts, config, session>>

Rank(v) == CASE v = "no" -> 1 [] v = "prohibit-password" -> 3 [] v = "yes" -> 5 [] OTHER -> 6

Stricter(a, b) == IF Rank(a) <= Rank(b) THEN a ELSE b

Asked(rules) == IF NoRoot \in rules THEN "no"
                ELSE IF RootPassword \in rules THEN "prohibit-password" ELSE "unset"

\* Mutant: the last run wins.
WrittenLast(rules, earlier) ==
  [root |-> IF Asked(rules) = "unset" THEN earlier.root ELSE Asked(rules),
   pw   |-> IF NoPasswords \in rules THEN "no" ELSE earlier.pw]

\* The drop-in is merged with what an earlier run wrote to it; the block in
\* sshd_config, for an older OpenSSH, is replaced: its lines are not read back.
Written(rules, earlier) ==
  LET before == IF Dropin THEN earlier ELSE [root |-> "unset", pw |-> "unset"]
  IN IF rules \cap {RootPassword, NoPasswords, NoRoot} = {} THEN earlier
     ELSE [root |-> IF Asked(rules) = "unset" THEN before.root
                    ELSE Stricter(Asked(rules), before.root),
           pw   |-> IF NoPasswords \in rules THEN "no" ELSE before.pw]

\* PAM lines come before sshd in the recipe; a failing run stops anywhere.
Converge ==
  /\ pc = "converge"
  /\ \E done \in {{}, plan \cap {RestrictSu}, plan} :
       /\ su' = (su /\ RestrictSu \notin done)
       /\ owned' = Written(done, owned)
  /\ pc' = "idle" /\ plan' = {}
  /\ sure' = FALSE
  /\ UNCHANGED <<accounts, vendor, session>>

\* An administrator changes the account or the sshd configuration.
Administer ==
  /\ \E a \in Accounts :
       \/ key' \in {key \union {a}, key \ {a}} /\ UNCHANGED <<shell, password, sudo, vendor>>
       \/ password' \in {password \union {a}, password \ {a}}
          /\ UNCHANGED <<shell, key, sudo, vendor>>
       \/ a # Root /\ sudo' \in {sudo \union {a}, sudo \ {a}}
          /\ UNCHANGED <<shell, key, password, vendor>>
  /\ sure' = FALSE
  /\ UNCHANGED <<su, owned, session, pc, plan>>

----------------------------------------------------------------------------

Init ==
  /\ shell \in {Accounts, Users}
  /\ key \in SUBSET shell /\ password \in SUBSET shell
  /\ sudo \in SUBSET Users
  /\ su \in BOOLEAN
  /\ vendor \in [root : RootLogins, pw : {"yes", "no"}]
  /\ owned = [root |-> "unset", pw |-> "unset"]
  /\ session \in {a \in shell : LogsIn(Effective(owned, vendor), a)} \union {Nobody}
  /\ pc = "idle" /\ plan = {} /\ sure = FALSE

Next == (\E rules \in SUBSET Rules \ {{}} : Plan(rules)) \/ Guard \/ Converge \/ Administer

Spec == Init /\ [][Next]_vars

TypeOK ==
  /\ shell \in SUBSET Accounts /\ key \in SUBSET Accounts
  /\ password \in SUBSET Accounts /\ sudo \in SUBSET Users
  /\ su \in BOOLEAN
  /\ vendor \in [root : RootLogins, pw : {"yes", "no"}] /\ owned \in Settings
  /\ session \in Accounts \union {Nobody}
  /\ pc \in {"idle", "guard", "converge"}
  /\ plan \in SUBSET Rules /\ sure \in BOOLEAN

----------------------------------------------------------------------------
(* What the guards promise of a step that they decided on true facts.      *)

\* keyAccess: "disabling passwords must leave somebody able to log in"; no run
\* of any selection of the rules takes the last login over SSH away.
NobodyLockedOut ==
  [][sure /\ SomebodyLogsIn(sshdNow) /\ pc = "converge" /\ pc' = "idle"
       => SomebodyLogsIn(Effective(owned', vendor'))]_vars

\* "... the person running the harden included".
SessionKeepsAccess ==
  [][sure /\ session # Nobody /\ LogsIn(sshdNow, session) /\ pc = "converge" /\ pc' = "idle"
       => LogsIn(Effective(owned', vendor'), session)]_vars

\* helpers.rb: "a second harden run must add to what the first one wrote, never
\* drop it"; HARDENING.md: PermitRootLogin "is never relaxed by a later run".
EarlierRunsAreKept ==
  [][/\ owned.pw = "no" => owned'.pw = "no"
     /\ Rank(owned'.root) <= Rank(owned.root)]_vars

\* suAlternative: "restricting su must not remove the only way to root": while su
\* is open, no run of any selection of the rules, which may close it and root's
\* own logins at once, leaves the host without any of the ways to root.
AWayToRootStays ==
  [][sure /\ su /\ WayToRoot(sshdNow, su) /\ pc = "converge" /\ pc' = "idle"
       => WayToRoot(Effective(owned', vendor'), su')]_vars
=============================================================================
