------------------------------- MODULE Version ------------------------------
(***************************************************************************)
(* The order of versions (selfupdate.Compare): three numbers, then the     *)
(* identifiers of a pre-release.  A version is a record                    *)
(*   parts: what stands between the dots,       *)
(*   pre:   the identifiers of the pre-release, <<>> when there is none,   *)
(*   build: whether something follows a "+".                               *)
(* An identifier is the number it reads as, NaN when it is none, and the   *)
(* rank of its text in byte order.                                         *)
(***************************************************************************)
EXTENDS Integers, Sequences

NaN == -1  \* what strconv.Atoi refuses

Identifiers == [value : Nat \union {NaN}, text : Nat]
Readable ==
  [parts : Seq(Nat \union {NaN}), pre : Seq(Identifiers), build : BOOLEAN]

Sign(a, b) == IF a < b THEN -1 ELSE IF a = b THEN 0 ELSE 1

Least(S) == CHOOSE i \in S : \A j \in S : i <= j

\* The three numbers of a version: what is missing or unreadable counts as 0,
\* and a third part that holds another dot is unreadable.
Core(v) ==
  [i \in 1 .. 3 |->
    IF i > Len(v.parts) \/ (i = 3 /\ Len(v.parts) > 3) \/ v.parts[i] = NaN
      THEN 0 ELSE v.parts[i]]

\* Where two sequences differ first, as far as both go.
Differ(a, b, len) == {i \in 1 .. len : a[i] # b[i]}
Common(a, b) == IF Len(a) < Len(b) THEN Len(a) ELSE Len(b)

\* Numbers before words, numbers by value, words by their text.
CompareIdentifier(x, y) ==
  CASE x.value # NaN /\ y.value # NaN /\ x.value # y.value -> Sign(x.value, y.value)
    [] x.value # NaN /\ y.value = NaN -> -1
    [] x.value = NaN /\ y.value # NaN -> 1
    [] OTHER -> Sign(x.text, y.text)

\* The shorter of two pre-releases that agree as far as both go is the older.
ComparePre(a, b) ==
  LET D == Differ(a, b, Common(a, b)) IN
  IF D = {} THEN Sign(Len(a), Len(b))
  ELSE CompareIdentifier(a[Least(D)], b[Least(D)])

\* Mutant: the last number that differs decides.
CompareLast(a, b) ==
  LET D == Differ(Core(a), Core(b), 3)
      Last == CHOOSE i \in D : \A j \in D : j <= i
  IN
  CASE D # {} -> Sign(Core(a)[Last], Core(b)[Last])
    [] D = {} /\ a.pre = b.pre -> 0
    [] D = {} /\ a.pre # b.pre /\ a.pre = <<>> -> 1
    [] D = {} /\ a.pre # b.pre /\ b.pre = <<>> -> -1
    [] OTHER -> ComparePre(a.pre, b.pre)

\* A pre-release is older than its release.
Compare(a, b) ==
  LET D == Differ(Core(a), Core(b), 3) IN
  CASE D # {} -> Sign(Core(a)[Least(D)], Core(b)[Least(D)])
    [] D = {} /\ a.pre = b.pre -> 0
    [] D = {} /\ a.pre # b.pre /\ a.pre = <<>> -> 1
    [] D = {} /\ a.pre # b.pre /\ b.pre = <<>> -> -1
    [] OTHER -> ComparePre(a.pre, b.pre)

\* Three numbers and nothing else; anything longer is a development build.
IsRelease(v) ==
  /\ Len(v.parts) = 3 /\ v.pre = <<>> /\ ~v.build
  /\ \A i \in 1 .. 3 : v.parts[i] # NaN
=============================================================================
