------------------------------ MODULE Catalog -------------------------------
(***************************************************************************)
(* The catalog (catalog.Catalog): profiles from the lightest to the        *)
(* heaviest, and which controls a filter selects.                          *)
(***************************************************************************)
EXTENDS Naturals, Sequences, SequencesExt

CONSTANTS
  Profiles,  \* a sequence: the key of a profile and every name it goes by
  Controls   \* id, profile, pillar and the standards it maps to

\* A name, or none; the words that the code itself uses are among them.
Names == STRING \union {"", "all", "advanced", "complete"}

\* Parse refuses another catalog.
ASSUME CatalogAssumption ==
  /\ Profiles \in Seq([key : Names, names : SUBSET STRING]) \ {<<>>}
  /\ \A c \in Controls : \E i \in DOMAIN Profiles : Profiles[i].key = c.profile
  /\ \A c, d \in Controls : c.id = d.id => c = d

Ids     == {c.id : c \in Controls}
Pillars == {c.pillar : c \in Controls}

Standards        == {"cis", "anssi", "nist", "nist171", "pci", "stig"}
ValidStandard(s) == s \in {"", "all"} \union Standards
Has(c, standard) == standard \in {"", "all"} \union c.standards

\* -1 for a key that is not in the catalog, one below the lightest profile; here
\* the ranks start with 1.
ProfileRank(key) == SelectInSeq(Profiles, LAMBDA p : p.key = key)

\* A key, a title in either language or a number; "" when it is none.
ProfileKey(name) ==
  LET i == SelectInSeq(Profiles, LAMBDA p : name \in p.names)
  IN IF i = 0 THEN "" ELSE Profiles[i].key

Filters  == [profile : Names, pillars : SUBSET Nat, standard : Names,
             ids : SUBSET STRING, exclude : SUBSET STRING]
NoFilter == [profile |-> "", pillars |-> {}, standard |-> "all", ids |-> {}, exclude |-> {}]

\* An explicit list stands against every criterion but the exclusions; an empty
\* list is no list.
Selected(c, f) ==
  /\ c.id \notin f.exclude
  /\ IF f.ids # {} THEN c.id \in f.ids
     ELSE /\ f.profile = "" \/ ProfileRank(c.profile) <= ProfileRank(f.profile)
          /\ f.pillars = {} \/ c.pillar \in f.pillars
          /\ Has(c, f.standard)

Select(f) == {c.id : c \in {d \in Controls : Selected(d, f)}}
=============================================================================
