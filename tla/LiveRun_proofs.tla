--------------------------- MODULE LiveRun_proofs ---------------------------
(***************************************************************************)
(* What a scan or a converge with its progress on the terminal keeps, for  *)
(* any output however it is cut into pieces, any width of the terminal and *)
(* any interleaving of the main goroutine, the writer and the ticker.      *)
(* Six invariants, each from those before it: EngineInv, DataInv,          *)
(* ScreenInv, LinesInv (the lines of a scan), CountInv (the counts of a    *)
(* scan), ConvergeInv (the counts and the lines of a converge).            *)
(***************************************************************************)
EXTENDS LiveRun, SequenceTheorems, FiniteSetTheorems, WellFoundedInduction, TLAPS

----------------------------------------------------------------------------
(* Induction, and folds over a sequence as a series of steps.              *)

\* Induction with a set in place of a predicate.
LEMMA ByInduction ==
  ASSUME NEW n \in Nat, NEW S, 0 \in S, \A k \in 0 .. n - 1 : k \in S => k + 1 \in S
  PROVE  \A k \in 0 .. n : k \in S
<1> DEFINE bad == {k \in 0 .. n : k \notin S}
<1> SUFFICES ASSUME bad # {} PROVE FALSE
    OBVIOUS
<1>1. PICK x \in bad : \A y \in bad : <<y, x>> \notin OpToRel(<, Nat)
  <2>1. bad \subseteq Nat
    OBVIOUS
  <2> HIDE DEF bad
  <2> QED
    BY <2>1, NatLessThanWellFounded, WFMin
<1>2. x \in 1 .. n /\ x - 1 \in 0 .. n - 1
  OBVIOUS
<1>3. x - 1 \in bad
  BY <1>2
<1>4. <<x - 1, x>> \in OpToRel(<, Nat)
  <2>1. x - 1 \in Nat /\ x \in Nat /\ x - 1 < x
    BY <1>2
  <2> HIDE DEF bad
  <2> QED
    BY <2>1, Zenon DEF OpToRel
<1> QED
  BY <1>1, <1>3, <1>4

\* Max is the largest member of a set of positions.
LEMMA LargestIsThere ==
  ASSUME NEW n \in Nat, NEW S \in SUBSET (1 .. n), S # {}
  PROVE  Max(S) \in S /\ \A y \in S : y <= Max(S)
<1> DEFINE U == {k \in Nat : \A T \in SUBSET (1 .. k) : T # {} => \E x \in T : \A y \in T : y <= x}
<1>1. 0 \in U
  <2>1. \A T \in SUBSET (1 .. 0) : T = {}
    OBVIOUS
  <2> QED
    BY <2>1
<1>2. ASSUME NEW k \in 0 .. n - 1, k \in U PROVE k + 1 \in U
  <2> SUFFICES ASSUME NEW T \in SUBSET (1 .. k + 1), T # {} PROVE \E x \in T : \A y \in T : y <= x
      OBVIOUS
  <2>1. CASE k + 1 \in T
    BY <2>1
  <2>2. CASE k + 1 \notin T
    <3>1. T \in SUBSET (1 .. k)
      BY <2>2
    <3> QED
      BY <1>2, <3>1
  <2> QED
    BY <2>1, <2>2
<1>3. n \in U
  <2> HIDE DEF U
  <2> QED
    BY <1>1, <1>2, ByInduction
<1>4. PICK x \in S : \A y \in S : y <= x
  BY <1>3
<1> QED
  BY <1>4 DEF Max

\* The function that a fold over n positions is made of exists, whatever step is.
HasFold(n, Y, base, step) ==
  \E g \in [SUBSET (1 .. n) -> Y] :
    \A T \in SUBSET (1 .. n) : g[T] = IF T = {} THEN base ELSE step[Max(T)][g[T \ {Max(T)}]]

LEMMA FoldExists ==
  ASSUME NEW n \in Nat, NEW Y, NEW base \in Y, NEW step \in [1 .. n -> [Y -> Y]]
  PROVE  HasFold(n, Y, base, step)
<1> DEFINE Is(g, k) ==
      \A T \in SUBSET (1 .. k) : g[T] = IF T = {} THEN base ELSE step[Max(T)][g[T \ {Max(T)}]]
           U == {k \in 0 .. n : \E g \in [SUBSET (1 .. k) -> Y] : Is(g, k)}
<1>1. 0 \in U
  <2>1. [T \in SUBSET (1 .. 0) |-> base] \in [SUBSET (1 .. 0) -> Y]
    OBVIOUS
  <2>2. SUBSET (1 .. 0) = {{}}
    OBVIOUS
  <2>3. Is([T \in SUBSET (1 .. 0) |-> base], 0)
    BY <2>2
  <2>4. \E g \in [SUBSET (1 .. 0) -> Y] : Is(g, 0)
    BY <2>1, <2>3
  <2>5. 0 \in 0 .. n
    OBVIOUS
  <2> HIDE DEF Is
  <2> QED
    BY <2>4, <2>5, Zenon
<1>2. ASSUME NEW k \in 0 .. n - 1, k \in U PROVE k + 1 \in U
  <2>1. PICK g \in [SUBSET (1 .. k) -> Y] : Is(g, k)
    BY <1>2
  <2> DEFINE h == [T \in SUBSET (1 .. k + 1) |->
                     IF k + 1 \in T THEN step[k + 1][g[T \ {k + 1}]] ELSE g[T]]
  <2>2. \A T \in SUBSET (1 .. k + 1) : T \ {k + 1} \in SUBSET (1 .. k)
    OBVIOUS
  <2>3. h \in [SUBSET (1 .. k + 1) -> Y]
    <3>1. \A T \in SUBSET (1 .. k + 1) : k + 1 \notin T => T \in SUBSET (1 .. k)
      BY <2>2
    <3>2. \A T \in SUBSET (1 .. k + 1) : step[k + 1][g[T \ {k + 1}]] \in Y
      BY <2>2
    <3> QED
      BY <3>1, <3>2
  <2>4. ASSUME NEW T \in SUBSET (1 .. k + 1)
        PROVE  h[T] = IF T = {} THEN base ELSE step[Max(T)][h[T \ {Max(T)}]]
    <3>1. CASE k + 1 \in T
      <4>1. Max(T) = k + 1
        <5>1. Max(T) \in T /\ \A y \in T : y <= Max(T)
          BY <3>1, LargestIsThere, k + 1 \in Nat
        <5>2. Max(T) \in 1 .. k + 1
          BY <5>1
        <5>3. k + 1 <= Max(T)
          BY <3>1, <5>1
        <5> HIDE DEF Is, U, h
        <5> QED
          BY <5>2, <5>3
      <4>2. h[T \ {k + 1}] = g[T \ {k + 1}]
        BY <2>2
      <4> QED
        BY <3>1, <4>1, <4>2
    <3>2. CASE k + 1 \notin T
      <4>1. T \in SUBSET (1 .. k)
        BY <3>2
      <4>2. h[T] = g[T]
        BY <3>2
      <4>3. T # {} => h[T \ {Max(T)}] = g[T \ {Max(T)}]
        BY <3>2
      <4>4. g[T] = IF T = {} THEN base ELSE step[Max(T)][g[T \ {Max(T)}]]
        BY <2>1, <4>1
      <4> QED
        BY <4>2, <4>3, <4>4
    <3> QED
      BY <3>1, <3>2
  <2>5. Is(h, k + 1)
    BY <2>4
  <2>6. \E f \in [SUBSET (1 .. k + 1) -> Y] : Is(f, k + 1)
    BY <2>3, <2>5
  <2> HIDE DEF Is, h
  <2> QED
    BY <2>6
<1>3. n \in U
  <2> HIDE DEF U, Is
  <2>1. \A k \in 0 .. n : k \in U
    BY <1>1, <1>2, ByInduction
  <2> QED
    BY <2>1
<1> QED
  BY <1>3 DEF HasFold

----------------------------------------------------------------------------
(* The reader of a scan.                                                   *)

\* The strings; the provers do not know that a literal is one.
Texts   == STRING \union {"", "note", "summary"}
Events  == [done : Nat, id : Texts, status : Texts]
Readers == [buf : Seq(Symbols), count : Nat, events : Seq(Events), other : Seq(Seq(Symbols))]

LEMMA Associates == \A E : \A a, b, c \in Seq(E) : (a \o b) \o c = a \o (b \o c)
<1> SUFFICES ASSUME NEW E, NEW a \in Seq(E), NEW b \in Seq(E), NEW c \in Seq(E)
             PROVE  (a \o b) \o c = a \o (b \o c)
    OBVIOUS
<1> QED
  BY ConcatAssociative

LEMMA OneElement == \A E : <<>> \in Seq(E) /\ \A e \in E : <<e>> \in Seq(E)
  OBVIOUS

LEMMA SymbolType ==
  ASSUME NEW x \in Symbols
  PROVE  /\ x.is = "count" => x.done \in Nat
         /\ x.is = "status" => x.status \in STRING
         /\ x.is = "name" => x.id \in STRING
  BY DEF Symbols, Eol, Text

LEMMA FirstIsThere ==
  ASSUME NEW S \in SUBSET Nat, S # {}
  PROVE  First(S) \in S /\ \A y \in S : First(S) <= y
<1>1. PICK x \in S : \A y \in S : <<y, x>> \notin OpToRel(<, Nat)
  BY NatLessThanWellFounded, WFMin
<1>2. ASSUME NEW y \in S PROVE x <= y
  <2>1. ~(y < x)
    <3> SUFFICES ASSUME y < x PROVE FALSE
        OBVIOUS
    <3>1. <<y, x>> \in OpToRel(<, Nat)
      BY Zenon DEF OpToRel
    <3> QED
      BY <1>1, <3>1
  <2> QED
    BY <2>1
<1> QED
  BY <1>2 DEF First

\* A line makes events and an empty buffer, and forgets no event.
LEMMA LineType ==
  ASSUME NEW w \in Readers
  PROVE  /\ Line(w) \in Readers
         /\ Line(w).buf = <<>>
         /\ \E new \in Seq(Events) : Line(w).events = w.events \o new
<1> DEFINE counts   == CountsOf(w.buf)
           results  == ResultsOf(w.buf)
           count    == IF counts = {} THEN w.count ELSE w.buf[First(counts)].done
           counted  == IF count = w.count THEN <<>>
                       ELSE <<[done |-> count, id |-> "", status |-> ""]>>
           finished == IF results = {} THEN <<>>
                       ELSE <<[done |-> count, id |-> w.buf[First(results) + 1].id,
                               status |-> w.buf[First(results)].status]>>
           other    == IF counts = {} /\ results = {} /\ w.buf # <<>>
                         THEN Append(w.other, w.buf) ELSE w.other
<1>0. w.buf \in Seq(Symbols) /\ w.events \in Seq(Events)
      /\ w.count \in Nat /\ w.other \in Seq(Seq(Symbols))
  BY DEF Readers
<1>1. Line(w) = [buf |-> <<>>, count |-> count, events |-> w.events \o counted \o finished,
                 other |-> other]
  BY DEF Line
<1>2. count \in Nat
  <2>1. CASE counts # {}
    <3>1. First(counts) \in counts
      <4>1. counts \in SUBSET Nat
        BY <1>0 DEF CountsOf
      <4> HIDE DEF counts
      <4> QED
        BY <2>1, <4>1, FirstIsThere
    <3>2. First(counts) \in 1 .. Len(w.buf) /\ w.buf[First(counts)].is = "count"
      BY <3>1 DEF CountsOf
    <3>3. w.buf[First(counts)] \in Symbols
      BY <1>0, <3>2
    <3> HIDE DEF counts
    <3> QED
      BY <2>1, <3>2, <3>3, SymbolType
  <2> QED
    BY <1>0, <2>1
<1>3. counted \in Seq(Events)
  <2>1. [done |-> count, id |-> "", status |-> ""] \in Events
    <3> HIDE DEF count
    <3> QED
      BY <1>2 DEF Events, Texts
  <2> QED
    BY <2>1, OneElement, Zenon
<1>4. finished \in Seq(Events)
  <2>1. CASE results # {}
    <3>1. First(results) \in results
      <4>1. results \in SUBSET Nat
        BY <1>0 DEF ResultsOf
      <4> HIDE DEF results
      <4> QED
        BY <2>1, <4>1, FirstIsThere
    <3>2. /\ First(results) \in 1 .. Len(w.buf) - 1
          /\ w.buf[First(results)].is = "status"
          /\ w.buf[First(results) + 1].is = "name"
      BY <3>1 DEF ResultsOf
    <3>3. w.buf[First(results)] \in Symbols /\ w.buf[First(results) + 1] \in Symbols
      BY <1>0, <3>2
    <3>4. w.buf[First(results)].status \in STRING /\ w.buf[First(results) + 1].id \in STRING
      BY <3>2, <3>3, SymbolType
    <3>5. [done |-> count, id |-> w.buf[First(results) + 1].id,
           status |-> w.buf[First(results)].status] \in Events
      <4> HIDE DEF results, count
      <4> QED
        BY <1>2, <3>4 DEF Events, Texts
    <3> HIDE DEF results, count
    <3> QED
      BY <2>1, <3>5
  <2> QED
    BY <2>1
<1>5. other \in Seq(Seq(Symbols))
  <2> HIDE DEF counts, results
  <2> QED
    BY <1>0
<1> DEFINE events == w.events \o counted \o finished
<1>6. /\ counted \o finished \in Seq(Events)
      /\ events = w.events \o (counted \o finished)
      /\ events \in Seq(Events)
  <2> HIDE DEF counted, finished
  <2>1. events = w.events \o (counted \o finished)
    <3>1. \A a, b, c \in Seq(Events) : a \o b \o c = a \o (b \o c)
      BY Associates, SMTT(20)
    <3> QED
      BY <1>0, <1>3, <1>4, <3>1
  <2>2. counted \o finished \in Seq(Events)
    BY <1>3, <1>4, ConcatProperties, Zenon
  <2>3. w.events \o (counted \o finished) \in Seq(Events)
    BY <1>0, <2>2, ConcatProperties, Zenon
  <2> QED
    BY <2>1, <2>2, <2>3, Zenon
<1>7. Line(w) = [buf |-> <<>>, count |-> count, events |-> events, other |-> other]
  BY <1>1
<1> HIDE DEF count, counts, results, counted, finished, other, events
<1>8. Line(w) \in Readers
  <2>1. <<>> \in Seq(Symbols) /\ events \in Seq(Events)
    BY <1>6
  <2> QED
    BY <1>2, <1>5, <1>7, <2>1 DEF Readers
<1>9. Line(w).events = events /\ Line(w).buf = <<>>
  BY <1>7
<1> QED
  BY <1>6, <1>8, <1>9

LEMMA FeedType ==
  ASSUME NEW w \in Readers, NEW x \in Symbols
  PROVE  /\ Feed(w, x) \in Readers
         /\ \E new \in Seq(Events) : Feed(w, x).events = w.events \o new
<1>1. CASE x = Eol
  BY <1>1, LineType DEF Feed
<1>2. CASE x # Eol
  <2>1. Feed(w, x) = [w EXCEPT !.buf = Append(@, x)]
    BY <1>2 DEF Feed
  <2>2. Append(w.buf, x) \in Seq(Symbols) /\ w.events \in Seq(Events)
    BY DEF Readers
  <2>3. Feed(w, x) \in Readers /\ Feed(w, x).events = w.events
    BY <2>1, <2>2 DEF Readers
  <2>4. w.events = w.events \o <<>> /\ <<>> \in Seq(Events)
    BY <2>2, ConcatEmptySeq
  <2> QED
    BY <2>3, <2>4, Zenon
<1> QED
  BY <1>1, <1>2

\* A piece is read symbol by symbol: h[k] is what the writer remembers after k.
IsFeeding(h, w, s) ==
  /\ h \in [0 .. Len(s) -> Readers]
  /\ h[0] = w
  /\ \A k \in 1 .. Len(s) : h[k] = Feed(h[k - 1], s[k])
  /\ FoldLeft(Feed, w, s) = h[Len(s)]

LEMMA FeedsInSteps ==
  ASSUME NEW w \in Readers, NEW s \in Seq(Symbols)
  PROVE  \E h : IsFeeding(h, w, s)
<1> DEFINE n    == Len(s)
           Step(T, g) == IF T = {} THEN w ELSE Feed(g[T \ {Max(T)}], s[Max(T)])
           feed == [i \in 1 .. n |-> [r \in Readers |-> Feed(r, s[i])]]
           iter == CHOOSE g : g = [T \in SUBSET (1 .. n) |-> Step(T, g)]
           h    == [k \in 0 .. n |-> iter[1 .. k]]
<1>0. n \in Nat /\ DOMAIN s = 1 .. n /\ \A i \in 1 .. n : s[i] \in Symbols
  OBVIOUS
<1>1. FoldLeft(Feed, w, s) = iter[1 .. n]
  BY <1>0 DEF FoldLeft, MapThenFoldSet
<1>2. \E g : g = [T \in SUBSET (1 .. n) |-> Step(T, g)]
  <2>1. feed \in [1 .. n -> [Readers -> Readers]]
    BY <1>0, FeedType
  <2>2. PICK g \in [SUBSET (1 .. n) -> Readers] :
          \A T \in SUBSET (1 .. n) : g[T] = IF T = {} THEN w ELSE feed[Max(T)][g[T \ {Max(T)}]]
    <3> HIDE DEF feed, n, Step, iter, h
    <3>1. HasFold(n, Readers, w, feed)
      BY <1>0, <2>1, FoldExists
    <3> QED
      BY <3>1 DEF HasFold
  <2>3. ASSUME NEW T \in SUBSET (1 .. n) PROVE g[T] = Step(T, g)
    <3>1. CASE T # {}
      <4>1. Max(T) \in 1 .. n /\ T \ {Max(T)} \in SUBSET (1 .. n)
        BY <1>0, <3>1, LargestIsThere
      <4>2. g[T \ {Max(T)}] \in Readers
        BY <4>1
      <4> QED
        BY <2>2, <3>1, <4>1, <4>2
    <3> QED
      BY <2>2, <3>1
  <2> QED
    BY <2>3
<1>3. iter = [T \in SUBSET (1 .. n) |-> Step(T, iter)]
  <2> HIDE DEF n, Step
  <2> QED
    BY <1>2
<1>4. h[0] = w
  <2>1. 1 .. 0 = {} /\ {} \in SUBSET (1 .. n)
    OBVIOUS
  <2>2. iter[{}] = w
    BY <1>3, <2>1
  <2> HIDE DEF iter
  <2> QED
    BY <1>0, <2>1, <2>2
<1>5. ASSUME NEW k \in 1 .. n PROVE h[k] = Feed(h[k - 1], s[k])
  <2>1. 1 .. k \in SUBSET (1 .. n) /\ k \in 1 .. k /\ k - 1 \in 0 .. n
    BY <1>0
  <2>2. Max(1 .. k) = k
    <3> HIDE DEF n, Step, feed, iter, h
    <3>1. k \in Nat
      BY <1>0
    <3>2. 1 .. k \in SUBSET (1 .. k) /\ 1 .. k # {}
      BY <2>1
    <3>3. Max(1 .. k) \in 1 .. k /\ \A y \in 1 .. k : y <= Max(1 .. k)
      BY <3>1, <3>2, LargestIsThere
    <3> QED
      BY <2>1, <3>1, <3>3
  <2>3. (1 .. k) \ {k} = 1 .. k - 1
    BY <1>0
  <2>4. iter[1 .. k] = Feed(iter[1 .. k - 1], s[k])
    <3> HIDE DEF iter
    <3> QED
      BY <1>3, <2>1, <2>2, <2>3
  <2> HIDE DEF iter
  <2> QED
    BY <1>0, <2>1, <2>4
<1>6. \A k \in 0 .. n : k \in {j \in 0 .. n : h[j] \in Readers}
  <2> DEFINE typed == {j \in 0 .. n : h[j] \in Readers}
  <2>1. 0 \in typed
    BY <1>0, <1>4
  <2>2. ASSUME NEW k \in 0 .. n - 1, k \in typed PROVE k + 1 \in typed
    <3>1. k + 1 \in 1 .. n /\ (k + 1) - 1 = k /\ k + 1 \in 0 .. n
      BY <1>0
    <3>2. h[k + 1] = Feed(h[k], s[k + 1])
      BY <1>5, <3>1
    <3>3. h[k] \in Readers
      BY <2>2
    <3>4. h[k + 1] \in Readers
      BY <1>0, <3>1, <3>2, <3>3, FeedType
    <3> HIDE DEF h
    <3> QED
      BY <3>1, <3>4
  <2> HIDE DEF typed
  <2>3. \A k \in 0 .. n : k \in typed
    BY <1>0, <2>1, <2>2, ByInduction
  <2> QED
    BY <2>3 DEF typed
<1>7. h \in [0 .. n -> Readers]
  BY <1>6
<1>8. h[n] = iter[1 .. n]
  BY <1>0
<1> HIDE DEF h, iter
<1>9. IsFeeding(h, w, s)
  BY <1>1, <1>4, <1>5, <1>7, <1>8 DEF IsFeeding
<1> QED
  BY <1>9

\* The events of one writer begin with those of an earlier one.
Extends(new, old) == \E more \in Seq(Events) : new.events = old.events \o more

LEMMA ExtendsFurther ==
  ASSUME NEW a \in Readers, NEW b \in Readers, NEW c \in Readers, Extends(b, a), Extends(c, b)
  PROVE  Extends(c, a)
<1>1. PICK x \in Seq(Events) : b.events = a.events \o x
  BY DEF Extends
<1>2. PICK y \in Seq(Events) : c.events = b.events \o y
  BY DEF Extends
<1>3. a.events \in Seq(Events)
  BY DEF Readers
<1>4. \A p, q, r \in Seq(Events) : p \o q \o r = p \o (q \o r)
  BY Associates, SMTT(20)
<1>5. x \o y \in Seq(Events)
  OBVIOUS
<1>6. (a.events \o x) \o y = a.events \o (x \o y)
  BY <1>3, <1>4
<1>7. c.events = a.events \o (x \o y)
  BY <1>1, <1>2, <1>6, Zenon
<1> QED
  BY <1>5, <1>7 DEF Extends

LEMMA ExtendsItself == ASSUME NEW w \in Readers PROVE Extends(w, w)
<1>1. w.events \in Seq(Events) /\ <<>> \in Seq(Events)
  BY DEF Readers
<1>2. w.events = w.events \o <<>>
  BY <1>1, ConcatEmptySeq
<1> QED
  BY <1>1, <1>2, Zenon DEF Extends

LEMMA FeedExtends ==
  ASSUME NEW w \in Readers, NEW x \in Symbols PROVE Extends(Feed(w, x), w)
  BY FeedType DEF Extends

LEMMA FoldType ==
  ASSUME NEW w \in Readers, NEW s \in Seq(Symbols)
  PROVE  FoldLeft(Feed, w, s) \in Readers /\ Extends(FoldLeft(Feed, w, s), w)
<1>1. PICK h : IsFeeding(h, w, s)
  BY FeedsInSteps
<1>2. /\ h \in [0 .. Len(s) -> Readers] /\ h[0] = w /\ FoldLeft(Feed, w, s) = h[Len(s)]
      /\ \A k \in 1 .. Len(s) : h[k] = Feed(h[k - 1], s[k])
  BY <1>1 DEF IsFeeding
<1> DEFINE U == {k \in 0 .. Len(s) : Extends(h[k], w)}
<1>3. 0 \in U
  BY <1>2, ExtendsItself
<1>4. ASSUME NEW k \in 0 .. Len(s) - 1, k \in U PROVE k + 1 \in U
  <2>1. k + 1 \in 1 .. Len(s) /\ k + 1 \in 0 .. Len(s) /\ (k + 1) - 1 = k
    OBVIOUS
  <2>2. h[k + 1] = Feed(h[k], s[k + 1]) /\ s[k + 1] \in Symbols /\ h[k] \in Readers
        /\ h[k + 1] \in Readers
    BY <1>2, <2>1
  <2>3. Extends(h[k + 1], h[k])
    BY <2>2, FeedExtends
  <2>4. Extends(h[k + 1], w)
    BY <1>4, <2>2, <2>3, ExtendsFurther
  <2> QED
    BY <2>1, <2>4
<1>5. Len(s) \in Nat /\ Len(s) \in 0 .. Len(s)
  OBVIOUS
<1> HIDE DEF U
<1>6. \A k \in 0 .. Len(s) : k \in U
  BY <1>3, <1>4, <1>5, ByInduction
<1> QED
  BY <1>2, <1>5, <1>6 DEF U

\* A piece leaves a bounded buffer and forgets no event.
LEMMA WriteType ==
  ASSUME NEW w \in Readers, NEW s \in Seq(Symbols)
  PROVE  /\ Write(w, s) \in Readers
         /\ Len(Write(w, s).buf) <= MaxBuffer
         /\ Extends(Write(w, s), w)
<1> DEFINE all == FoldLeft(Feed, w, s)
           len == Len(all.buf)
<1>1. all \in Readers /\ Extends(all, w)
  BY FoldType
<1>2. all.buf \in Seq(Symbols) /\ len \in Nat
  BY <1>1 DEF Readers
<1>3. Write(w, s) = IF len > MaxBuffer
                      THEN [all EXCEPT !.buf = SubSeq(@, len - KeepBuffer + 1, len)] ELSE all
  BY DEF Write
<1> HIDE DEF all
<1>4. CASE len > MaxBuffer
  <2> DEFINE cut == SubSeq(all.buf, len - KeepBuffer + 1, len)
  <2>1. \A i \in len - KeepBuffer + 1 .. len : i \in 1 .. len
    BY <1>2, <1>4, ProgressStreamAssumption
  <2>2. cut \in Seq(Symbols) /\ Len(cut) <= MaxBuffer
    <3>1. len - KeepBuffer + 1 \in Int /\ len \in Int
          /\ \A i \in len - KeepBuffer + 1 .. len : all.buf[i] \in Symbols
      BY <1>2, <2>1, ProgressStreamAssumption
    <3>2. cut \in Seq(Symbols)
          /\ Len(cut) = IF len - KeepBuffer + 1 <= len THEN len - (len - KeepBuffer + 1) + 1 ELSE 0
      BY <3>1, SubSeqProperties
    <3> HIDE DEF cut
    <3> QED
      BY <1>2, <3>2, ProgressStreamAssumption
  <2>3. Write(w, s) = [all EXCEPT !.buf = cut]
    BY <1>3, <1>4
  <2> HIDE DEF cut, len
  <2>4. Write(w, s) \in Readers /\ Write(w, s).buf = cut /\ Write(w, s).events = all.events
    BY <1>1, <2>2, <2>3 DEF Readers
  <2> QED
    BY <1>1, <2>2, <2>4 DEF Extends
<1>5. CASE ~(len > MaxBuffer)
  BY <1>1, <1>2, <1>3, <1>5, ProgressStreamAssumption
<1> QED
  BY <1>4, <1>5

LEMMA FlushType ==
  ASSUME NEW w \in Readers
  PROVE  Flush(w) \in Readers /\ Flush(w).buf = <<>> /\ Extends(Flush(w), w)
  BY LineType, ExtendsItself DEF Flush, Extends

\* What is new in the events of a writer.
LEMMA NewEvents ==
  ASSUME NEW old \in Readers, NEW new \in Readers, Extends(new, old)
  PROVE  LET more == SubSeq(new.events, Len(old.events) + 1, Len(new.events))
         IN  more \in Seq(Events) /\ new.events = old.events \o more
<1>1. PICK more \in Seq(Events) : new.events = old.events \o more
  BY DEF Extends
<1>2. old.events \in Seq(Events) /\ new.events \in Seq(Events)
  BY DEF Readers
<1> DEFINE cut == SubSeq(new.events, Len(old.events) + 1, Len(new.events))
<1>3. /\ Len(new.events) = Len(old.events) + Len(more)
      /\ \A i \in 1 .. Len(more) : new.events[Len(old.events) + i] = more[i]
  BY <1>1, <1>2
<1>4. cut \in Seq(Events) /\ Len(cut) = Len(more)
      /\ \A i \in 1 .. Len(more) : cut[i] = more[i]
  BY <1>2, <1>3
<1>5. cut = more
  <2> HIDE DEF cut
  <2> QED
    BY <1>4, SeqEqual
<1> QED
  BY <1>1, <1>5

----------------------------------------------------------------------------
(* The view of a scan.                                                     *)

Classes == {"passed", "failed", "skipped", "errors"}
Tallies == [Classes \union {"done"} -> Nat]

ClassOf(e) == CASE e.status \in {"passed", "failed"}   -> e.status
                [] e.status \in {"skipped", "waived"}  -> "skipped"
                [] OTHER                               -> "errors"

LEMMA ClassType == ASSUME NEW e PROVE ClassOf(e) \in Classes
<1>1. CASE e.status \in {"passed", "failed"}
  BY <1>1 DEF ClassOf, Classes
<1>2. CASE e.status \in {"skipped", "waived"}
  BY <1>2 DEF ClassOf, Classes
<1>3. CASE e.status \notin {"passed", "failed", "skipped", "waived"}
  BY <1>3 DEF ClassOf, Classes
<1> QED
  BY <1>1, <1>2, <1>3

LEMMA CountedType ==
  ASSUME NEW t \in Tallies, NEW e \in Events
  PROVE  Counted(t, e) \in Tallies
<1>1. Counted(t, e) = IF e.id = "" THEN [t EXCEPT !.done = e.done]
                      ELSE [t EXCEPT !.done = e.done, ![ClassOf(e)] = @ + 1]
  BY DEF Counted, ClassOf
<1>2. e.done \in Nat /\ ClassOf(e) \in Classes
  BY ClassType DEF Events
<1>3. [t EXCEPT !.done = e.done] \in Tallies
  BY <1>2 DEF Tallies
<1>4. /\ [t EXCEPT !.done = e.done, !["passed"] = @ + 1] \in Tallies
      /\ [t EXCEPT !.done = e.done, !["failed"] = @ + 1] \in Tallies
      /\ [t EXCEPT !.done = e.done, !["skipped"] = @ + 1] \in Tallies
      /\ [t EXCEPT !.done = e.done, !["errors"] = @ + 1] \in Tallies
  BY <1>2 DEF Tallies, Classes
<1>5. \A c \in Classes : [t EXCEPT !.done = e.done, ![c] = @ + 1] \in Tallies
  BY <1>4, Zenon DEF Classes
<1> QED
  BY <1>1, <1>2, <1>3, <1>5

LEMMA NoTallyType == NoTally \in Tallies /\ DOMAIN NoTally = Classes \union {"done"}
  BY DEF NoTally, Tallies, Classes

\* Events are counted one by one: h[k] is what the view shows after k.
IsCounting(h, s) ==
  /\ h \in [0 .. Len(s) -> Tallies]
  /\ h[0] = NoTally
  /\ \A k \in 1 .. Len(s) : h[k] = Counted(h[k - 1], s[k])
  /\ FoldLeft(Counted, NoTally, s) = h[Len(s)]

LEMMA CountsInSteps ==
  ASSUME NEW s \in Seq(Events)
  PROVE  \E h : IsCounting(h, s)
<1> DEFINE n    == Len(s)
           Step(T, g) == IF T = {} THEN NoTally ELSE Counted(g[T \ {Max(T)}], s[Max(T)])
           count == [i \in 1 .. n |-> [r \in Tallies |-> Counted(r, s[i])]]
           iter == CHOOSE g : g = [T \in SUBSET (1 .. n) |-> Step(T, g)]
           h    == [k \in 0 .. n |-> iter[1 .. k]]
<1>0. n \in Nat /\ DOMAIN s = 1 .. n /\ \A i \in 1 .. n : s[i] \in Events
  OBVIOUS
<1>1. FoldLeft(Counted, NoTally, s) = iter[1 .. n]
  BY <1>0 DEF FoldLeft, MapThenFoldSet
<1>2. \E g : g = [T \in SUBSET (1 .. n) |-> Step(T, g)]
  <2>1. count \in [1 .. n -> [Tallies -> Tallies]]
    BY <1>0, CountedType
  <2>2. PICK g \in [SUBSET (1 .. n) -> Tallies] :
          \A T \in SUBSET (1 .. n) : g[T] = IF T = {} THEN NoTally ELSE count[Max(T)][g[T \ {Max(T)}]]
    <3> HIDE DEF count, n, Step, iter, h
    <3>1. HasFold(n, Tallies, NoTally, count)
      BY <1>0, <2>1, FoldExists, NoTallyType
    <3> QED
      BY <3>1 DEF HasFold
  <2>3. ASSUME NEW T \in SUBSET (1 .. n) PROVE g[T] = Step(T, g)
    <3>1. CASE T # {}
      <4>1. Max(T) \in 1 .. n /\ T \ {Max(T)} \in SUBSET (1 .. n)
        BY <1>0, <3>1, LargestIsThere
      <4>2. g[T \ {Max(T)}] \in Tallies
        BY <4>1
      <4> QED
        BY <2>2, <3>1, <4>1, <4>2
    <3> QED
      BY <2>2, <3>1
  <2> QED
    BY <2>3
<1>3. iter = [T \in SUBSET (1 .. n) |-> Step(T, iter)]
  <2> HIDE DEF n, Step
  <2> QED
    BY <1>2
<1>4. h[0] = NoTally
  <2>1. 1 .. 0 = {} /\ {} \in SUBSET (1 .. n)
    OBVIOUS
  <2>2. iter[{}] = NoTally
    BY <1>3, <2>1
  <2> HIDE DEF iter
  <2> QED
    BY <1>0, <2>1, <2>2
<1>5. ASSUME NEW k \in 1 .. n PROVE h[k] = Counted(h[k - 1], s[k])
  <2>1. 1 .. k \in SUBSET (1 .. n) /\ k \in 1 .. k /\ k - 1 \in 0 .. n
    BY <1>0
  <2>2. Max(1 .. k) = k
    <3> HIDE DEF n, Step, count, iter, h
    <3>1. k \in Nat
      BY <1>0
    <3>2. 1 .. k \in SUBSET (1 .. k) /\ 1 .. k # {}
      BY <2>1
    <3>3. Max(1 .. k) \in 1 .. k /\ \A y \in 1 .. k : y <= Max(1 .. k)
      BY <3>1, <3>2, LargestIsThere
    <3> QED
      BY <2>1, <3>1, <3>3
  <2>3. (1 .. k) \ {k} = 1 .. k - 1
    BY <1>0
  <2>4. iter[1 .. k] = Counted(iter[1 .. k - 1], s[k])
    <3> HIDE DEF iter
    <3> QED
      BY <1>3, <2>1, <2>2, <2>3
  <2> HIDE DEF iter
  <2> QED
    BY <1>0, <2>1, <2>4
<1>6. \A k \in 0 .. n : k \in {j \in 0 .. n : h[j] \in Tallies}
  <2> DEFINE typed == {j \in 0 .. n : h[j] \in Tallies}
  <2>1. 0 \in typed
    BY <1>0, <1>4, NoTallyType
  <2>2. ASSUME NEW k \in 0 .. n - 1, k \in typed PROVE k + 1 \in typed
    <3>1. k + 1 \in 1 .. n /\ (k + 1) - 1 = k /\ k + 1 \in 0 .. n
      BY <1>0
    <3>2. h[k + 1] = Counted(h[k], s[k + 1])
      BY <1>5, <3>1
    <3>3. h[k] \in Tallies
      BY <2>2
    <3>4. h[k + 1] \in Tallies
      BY <1>0, <3>1, <3>2, <3>3, CountedType
    <3> HIDE DEF h
    <3> QED
      BY <3>1, <3>4
  <2> HIDE DEF typed
  <2>3. \A k \in 0 .. n : k \in typed
    BY <1>0, <2>1, <2>2, ByInduction
  <2> QED
    BY <2>3 DEF typed
<1>7. h \in [0 .. n -> Tallies]
  BY <1>6
<1>8. h[n] = iter[1 .. n]
  BY <1>0
<1> HIDE DEF h, iter
<1>9. IsCounting(h, s)
  BY <1>1, <1>4, <1>5, <1>7, <1>8 DEF IsCounting
<1> QED
  BY <1>9

----------------------------------------------------------------------------
(* The engine.                                                             *)

Rest == {"finish", "stopping", "summary", "ended"}

\* Where Exec is tells what is at work: nothing before it, nothing after it.
EngineInv ==
  /\ EngineTypeOK
  /\ mode = command.mode
  /\ exec = "before" => client = "none"
  /\ client = "none" => exec \in {"before", "returned"} /\ container = "none"
  /\ exec \in {"flush", "returned"} => client # "running"
  /\ container = "running" => client = "running"
  /\ mode # "docker" => container = "none"
  /\ exec \in {"removing", "draining"} => mode = "docker"
  /\ mode = "chef" => report = "none"
  /\ result = "ok" => /\ exec = "returned"
                      /\ mode # "chef" => report = "whole"
                      /\ mode = "chef" => code = "ok"
  /\ pc \in {"start", "phases"} => exec = "before"
  /\ pc \in Rest => exec \in {"before", "returned"}
  /\ pc \in {"start", "phases", "exec"} \union Rest

LEMMA EngineInit == Init => EngineInv
  BY LiveRunAssumption DEF Init, EngineInv, EngineTypeOK, Execs, Waits, Amounts, Rest

LEMMA EngineNext == EngineInv /\ [Next]_vars => EngineInv'
<1> SUFFICES ASSUME EngineInv, [Next]_vars PROVE EngineInv'
    OBVIOUS
<1> USE DEF EngineInv, EngineTypeOK, Execs, Waits, Amounts, Rest, Modes
<1>1. CASE UNCHANGED <<engine, command, pc>>
  BY <1>1 DEF engine
<1>2. CASE Begin \/ NextPhase \/ Over \/ Finish \/ Clean \/ Summary
  BY <1>2 DEF Begin, NextPhase, Over, Finish, Clean, Summary, engine
<1>3. CASE PhaseFails \/ StagingFails
  BY <1>3 DEF PhaseFails, StagingFails
<1>4. CASE Audit \/ BeginConverge
  BY <1>4 DEF Audit, BeginConverge, StartExec
<1>5. CASE Waited
  BY <1>5 DEF Waited, WaitReturns, Drained, own
<1>6. CASE Abandoned
  BY <1>6 DEF Abandoned, Abandon, RemoveContainer, own
<1>7. CASE Returned
  <2>1. /\ ResultOf \in {"ok", "error"}
        /\ ResultOf = "ok" => (mode = "chef" => code = "ok") /\ (mode # "chef" => report = "whole")
    <3>1. CASE mode = "chef"
      BY <3>1 DEF ResultOf
    <3>2. CASE mode # "chef"
      BY <3>2 DEF ResultOf
    <3> QED
      BY <3>1, <3>2
  <2> QED
    BY <1>7, <2>1 DEF Returned, Return, own
<1>8. CASE Program
  BY <1>8 DEF Program, Create, ClientExits, WriteReport, ProgramEnds, Alive, own
<1>9. CASE Ends
  BY <1>9 DEF Ends, Expire, Kill, own
<1>10. CASE Read
  BY <1>10 DEF Read, Output
<1>11. CASE FlushOutput \/ Resizes \/ TakeView \/ CountEvent \/ ReadLine \/ Ticking
            \/ \E a \in Actors : Printing(a)
  <2>1. UNCHANGED <<engine, command, pc>>
    BY <1>11 DEF FlushOutput, Resizes, TakeView, CountEvent, ReadLine, Ticking, Printing, own
  <2> QED
    BY <1>1, <2>1
<1>12. CASE UNCHANGED vars
  BY <1>1, <1>12 DEF vars, own
<1> QED
  BY <1>2, <1>3, <1>4, <1>5, <1>6, <1>7, <1>8, <1>9, <1>10, <1>11, <1>12 DEF Next, Main

\* When Exec has returned nothing of the run is left at work, in particular no
\* container, and a result is that of a whole report.
THEOREM NothingIsLeft == Spec => []ReturnedMeansOver
<1>1. EngineInv => ReturnedMeansOver
  BY DEF EngineInv, ReturnedMeansOver, EngineTypeOK, Converge
<1> QED
  BY <1>1, EngineInit, EngineNext, PTL DEF Spec

----------------------------------------------------------------------------
(* What is read and counted.                                               *)

\* An event is counted under the lock of the view, and the last line is read
\* when everything before it was counted.
DataInv ==
  /\ command \in Commands /\ phase \in 0 .. Len(command.phases)
  /\ reader \in Readers /\ Len(reader.buf) <= MaxBuffer
  /\ tally \in Tallies
  /\ ~Converge => todo \in Seq(Symbols) /\ due \in Seq(Events)
  /\ viewer # "none" => ~Converge /\ viewer \in {"main", "writer"} /\ due # <<>>
  /\ Converge => reader.buf = <<>>
  /\ exec = "flush" /\ reader.buf # <<>> => due = <<>> /\ viewer = "none"

LEMMA CommandType ==
  ASSUME NEW c \in Commands
  PROVE  /\ c.tty \in BOOLEAN /\ c.mode \in Modes /\ c.phases \in Seq(STRING)
         /\ c.mode = "chef" <=> c.phases = <<>>
         /\ c.mode = "chef" => c.stream \in Seq(Lines)
         /\ c.mode # "chef" => c.stream \in Seq(Symbols)
  BY LiveRunAssumption

LEMMA DataInit == Init => DataInv
<1> SUFFICES ASSUME Init PROVE DataInv
    OBVIOUS
<1>1. Empty \in Readers /\ Empty.buf = <<>>
  BY DEF Empty, Readers
<1>2. command.phases \in Seq(STRING)
      /\ (command.mode # "chef" => command.stream \in Seq(Symbols))
  BY CommandType DEF Init
<1> QED
  BY <1>1, <1>2, NoTallyType, ProgressStreamAssumption DEF Init, InitRegion, DataInv, Converge

LEMMA DataNext == EngineInv /\ DataInv /\ [Next]_vars => DataInv'
<1> SUFFICES ASSUME EngineInv, DataInv, [Next]_vars PROVE DataInv'
    OBVIOUS
<1> USE DEF DataInv, Converge
<1>0. command.phases \in Seq(STRING)
  BY CommandType
<1>1. CASE UNCHANGED <<mode, command, phase, reader, due, tally, todo, viewer, exec>>
  BY <1>1
<1>2. CASE NextPhase
  BY <1>0, <1>2 DEF NextPhase, engine, view
<1>3. CASE PhaseFails \/ StagingFails
  BY <1>1, <1>3 DEF PhaseFails, StagingFails, region, view
<1>4. CASE Audit \/ BeginConverge
  <2>1. exec = "before" /\ exec' # "flush"
    BY <1>4 DEF Audit, BeginConverge, StartExec
  <2>2. UNCHANGED <<mode, command, phase, reader, due, tally, todo, viewer>>
    BY <1>4 DEF Audit, BeginConverge, StartExec, Start, region, view
  <2> QED
    BY <2>1, <2>2
<1>5. CASE Waited
  BY <1>5 DEF Waited, WaitReturns, Drained, Handled, region, own, view
<1>6. CASE Abandoned
  <2>1. exec' # "flush" /\ (todo' = todo \/ todo' = <<>>)
    BY <1>6 DEF Abandoned, Abandon, RemoveContainer
  <2>2. UNCHANGED <<mode, command, phase, reader, due, tally, viewer>>
    BY <1>6 DEF Abandoned, Abandon, RemoveContainer, region, own, view
  <2>3. ~Converge => todo' \in Seq(Symbols)
    <3>1. <<>> \in Seq(Symbols)
      OBVIOUS
    <3> QED
      BY <2>1, <3>1, Zenon
  <2> QED
    BY <2>1, <2>2, <2>3, Zenon
<1>7. CASE FlushOutput
  <2>1. UNCHANGED <<mode, command, phase, tally, todo, viewer, exec>>
        /\ exec = "flush" /\ reader.buf # <<>>
        /\ reader' = Flush(reader)
        /\ due' = SubSeq(Flush(reader).events, Len(reader.events) + 1, Len(Flush(reader).events))
    BY <1>7 DEF FlushOutput, region, engine
  <2>2. reader' \in Readers /\ reader'.buf = <<>> /\ Extends(reader', reader)
    BY <2>1, FlushType
  <2>3. due' \in Seq(Events)
    BY <2>1, <2>2, NewEvents
  <2>4. Len(reader'.buf) <= MaxBuffer
    BY <2>2, ProgressStreamAssumption
  <2> QED
    BY <2>1, <2>2, <2>3, <2>4
<1>8. CASE Returned
  BY <1>8 DEF Returned, Return, region, own, view
<1>9. CASE Begin \/ Over \/ Finish \/ Clean \/ Summary
  BY <1>1, <1>9 DEF Begin, Start, Over, Finish, Stop, Clean, Stopped, Summary, region, engine, view
<1>10. CASE Program \/ Ends
  <2>1. exec' = exec /\ (todo' = todo \/ todo' = <<>>)
    BY <1>10 DEF Program, Create, ClientExits, WriteReport, ProgramEnds, Ends, Expire, Kill
  <2>2. UNCHANGED <<mode, command, phase, reader, due, tally, viewer>>
    BY <1>10 DEF Program, Create, ClientExits, WriteReport, ProgramEnds, Ends, Expire, Kill,
                 region, own, view
  <2>3. ~Converge => todo' \in Seq(Symbols)
    <3>1. <<>> \in Seq(Symbols)
      OBVIOUS
    <3> QED
      BY <2>1, <3>1, Zenon
  <2> QED
    BY <2>1, <2>2, <2>3, Zenon
<1>11. CASE Read
  <2>1. UNCHANGED <<mode, command, phase, tally, viewer, exec>> /\ viewer = "none"
    BY <1>11 DEF Read, Output, Handled, region
  <2>2. exec # "flush"
    BY <1>11 DEF Read, Output, Alive, EngineInv
  <2>3. PICK n \in 1 .. IF Converge THEN 1 ELSE Len(todo) :
          /\ Output(n)
          /\ IF Converge
               THEN due' = <<todo[1]>> /\ UNCHANGED reader
               ELSE /\ reader' = Write(reader, SubSeq(todo, 1, n))
                    /\ due' = SubSeq(reader'.events, Len(reader.events) + 1, Len(reader'.events))
    BY <1>11 DEF Read
  <2>4. CASE Converge
    BY <2>1, <2>2, <2>3, <2>4
  <2>5. CASE ~Converge
    <3>1. n \in 1 .. Len(todo) /\ todo' = SubSeq(todo, n + 1, Len(todo)) /\ todo \in Seq(Symbols)
      BY <2>3, <2>5 DEF Output
    <3>2. SubSeq(todo, 1, n) \in Seq(Symbols) /\ todo' \in Seq(Symbols)
      BY <3>1
    <3>3. reader' \in Readers /\ Len(reader'.buf) <= MaxBuffer /\ Extends(reader', reader)
      BY <2>3, <2>5, <3>2, WriteType
    <3>4. due' \in Seq(Events)
      BY <2>3, <2>5, <3>3, NewEvents
    <3> QED
      BY <2>1, <2>2, <2>5, <3>2, <3>3, <3>4
  <2> QED
    BY <2>4, <2>5
<1>12. CASE TakeView
  BY <1>12 DEF TakeView, Deliverer, own, view, engine
<1>13. CASE CountEvent
  <2>1. /\ ~Converge /\ viewer # "none"
        /\ tally' = Counted(tally, Head(due)) /\ due' = Tail(due) /\ viewer' = "none"
        /\ UNCHANGED <<mode, command, phase, reader, todo, exec>>
    BY <1>13 DEF CountEvent, engine
  <2>2. Head(due) \in Events /\ Tail(due) \in Seq(Events)
    BY <2>1
  <2>3. tally' \in Tallies
    BY <2>1, <2>2, CountedType
  <2>4. ~(exec = "flush" /\ reader.buf # <<>>)
    BY <2>1
  <2> QED
    BY <2>1, <2>2, <2>3, <2>4
<1>14. CASE ReadLine
  BY <1>14 DEF ReadLine, engine
<1>15. CASE Ticking \/ Resizes \/ \E a \in Actors : Printing(a)
  <2>1. UNCHANGED <<engine, own, viewer>>
    BY <1>15 DEF Ticking, Tick, TickerStops, Resizes, Resize, Printing, Enter, Leave, PrintPlain
  <2> QED
    BY <1>1, <2>1 DEF engine, own, view
<1>16. CASE UNCHANGED vars
  BY <1>1, <1>16 DEF vars, region, engine, own, view
<1> QED
  BY <1>2, <1>3, <1>4, <1>5, <1>6, <1>7, <1>8, <1>9, <1>10, <1>11, <1>12, <1>13, <1>14, <1>15,
     <1>16 DEF Next, Main

----------------------------------------------------------------------------
(* The screen.                                                             *)

\* A region that is not running has no frame and nobody who would draw one; an
\* actor that holds its lock has still something to print.
ScreenInv ==
  /\ RegionTypeOK
  /\ ~narrowed => junk = 0 /\ RowsOf(painted, width) = painted.lines
  /\ ~running => holder = "none" /\ painted = NoFrame /\ cursor = "shown" /\ ticker # "on"
  /\ calls["ticker"] \in {<<>>, <<Redraw>>}
  /\ ticker # "on" => Idle("ticker")
  /\ holder # "none" => ~Idle(holder)
  /\ pc \in {"start", "summary", "ended"} => ~running
  /\ pc \notin {"phases", "finish"} => Idle("main")
  /\ Converge /\ due # <<>> => Idle("writer")

LEMMA AFactor == \A n, k \in Nat : k >= 1 => n * k \in Nat /\ n * k >= n
  OBVIOUS

LEMMA RowsType ==
  ASSUME NEW frame \in [lines : Nat, len : Nat], NEW w \in Widths
  PROVE  /\ RowsOf(frame, w) \in Nat /\ RowsOf(frame, w) >= frame.lines
         /\ RowsOf(NoFrame, w) = 0
<1>1. w \in Nat /\ w >= 1
  BY LiveRegionAssumption
<1>2. frame.lines \in Nat /\ frame.len \in Nat
  OBVIOUS
<1>3. frame.len # 0 => (frame.len + w - 1) \div w \in Nat /\ (frame.len + w - 1) \div w >= 1
  BY <1>1, <1>2
<1> DEFINE k == IF frame.len = 0 THEN 1 ELSE (frame.len + w - 1) \div w
<1>4. k \in Nat /\ k >= 1
  BY <1>3
<1>5. RowsOf(frame, w) = frame.lines * k
  BY DEF RowsOf
<1>6. RowsOf(NoFrame, w) = 0
  BY DEF RowsOf, NoFrame
<1> HIDE DEF k
<1> QED
  BY <1>2, <1>4, <1>5, <1>6, AFactor

LEMMA NoRows ==
  /\ NoFrame \in [lines : Nat, len : Nat] /\ NoFrame.lines = 0
  /\ \A w \in Widths : RowsOf(NoFrame, w) = 0
<1>1. NoFrame \in [lines : Nat, len : Nat] /\ NoFrame.lines = 0
  BY DEF NoFrame
<1> QED
  BY <1>1, RowsType

LEMMA FrameType ==
  ASSUME width \in Widths, NEW lines \in Nat
  PROVE  FrameOf(lines) \in [lines : Nat, len : Nat] /\ FrameOf(lines).lines = lines
  BY LiveRegionAssumption DEF FrameOf

LEMMA FrameLinesType == DataInv => FrameLines \in Nat
<1> SUFFICES ASSUME DataInv PROVE FrameLines \in Nat
    OBVIOUS
<1>1. Results \in Nat
  BY DEF DataInv, Tallies, Classes, Results
<1> QED
  BY <1>1 DEF FrameLines

LEMMA ClearType ==
  ASSUME ScreenInv, Clear
  PROVE  /\ painted' = NoFrame /\ junk' \in Nat
         /\ ~narrowed => junk' = 0
  BY RowsType DEF Clear, ScreenInv, RegionTypeOK

LEMMA ScreenInit == Init => ScreenInv
  BY NoRows DEF Init, InitRegion, ScreenInv, RegionTypeOK, Actors, Idle

LEMMA ScreenNext == EngineInv /\ DataInv /\ ScreenInv /\ [Next]_vars => ScreenInv'
<1> SUFFICES ASSUME EngineInv, DataInv, ScreenInv, [Next]_vars PROVE ScreenInv'
    OBVIOUS
<1> USE DEF ScreenInv, RegionTypeOK, Idle, Actors, Converge
<1>1. CASE UNCHANGED <<region, mode, pc>> /\ (due' = due \/ due' = <<>> \/ ~Converge)
  BY <1>1 DEF region
<1>2. CASE Waited \/ Abandoned \/ Returned \/ Program \/ Ends
  <2>1. UNCHANGED <<region, mode, pc, due>>
    BY <1>2 DEF Waited, WaitReturns, Drained, Abandoned, Abandon, RemoveContainer, Returned, Return,
                Program, Create, ClientExits, WriteReport, ProgramEnds, Ends, Expire, Kill, own, view
  <2> QED
    BY <1>1, <2>1
<1>3. CASE PhaseFails \/ StagingFails \/ Audit
  BY <1>3 DEF PhaseFails, StagingFails, Audit, StartExec, region, view
<1>4. CASE Begin \/ BeginConverge
  BY <1>4 DEF Begin, BeginConverge, Start, StartExec, region, engine, view
<1>5. CASE NextPhase
  BY <1>5 DEF NextPhase, screen, engine, view
<1>6. CASE FlushOutput
  <2>1. ~Converge /\ UNCHANGED <<region, mode, pc>>
    BY <1>6 DEF FlushOutput, DataInv, engine
  <2> QED
    BY <1>1, <2>1
<1>7. CASE Over
  BY <1>7 DEF Over, screen, engine
<1>8. CASE Finish
  <2>1. CASE running
    BY <1>8, <2>1 DEF Finish, Stop, screen, engine, view
  <2>2. CASE ~running
    BY <1>8, <2>2 DEF Finish, region, engine, view
  <2> QED
    BY <2>1, <2>2
<1>9. CASE Clean
  BY <1>9, ClearType, NoRows DEF Clean, Stopped, region, engine, view
<1>10. CASE Summary
  BY <1>10 DEF Summary, engine, view
<1>11. CASE Read
  BY <1>11 DEF Read, Output, Handled, region
<1>12. CASE TakeView \/ CountEvent
  BY <1>12 DEF TakeView, CountEvent, Deliverer, screen, engine, own, view
<1>13. CASE ReadLine
  BY <1>13 DEF ReadLine, DataInv, screen, engine
<1>14. CASE Resizes
  BY <1>14, NoRows DEF Resizes, Resize, screen, engine, own, view
<1>15. CASE Ticking
  BY <1>15 DEF Ticking, Tick, TickerStops, screen, engine, own, view
<1>16. ASSUME NEW a \in Actors, Enter(a) /\ UNCHANGED <<engine, own>> PROVE ScreenInv'
  <2>1. painted' = NoFrame /\ junk' \in Nat /\ (~narrowed => junk' = 0)
    BY <1>16, ClearType DEF Enter
  <2>2. running
    BY <1>16 DEF Enter
  <2> QED
    BY <1>16, <2>1, <2>2, NoRows DEF Enter, engine, own, view
<1>17. ASSUME NEW a \in Actors, Leave(a, FrameLines) /\ UNCHANGED <<engine, own>> PROVE ScreenInv'
  <2>1. FrameOf(FrameLines) \in [lines : Nat, len : Nat]
        /\ FrameOf(FrameLines).lines = FrameLines
    BY FrameLinesType, FrameType
  <2>2. running
    BY <1>17 DEF Leave
  <2>3. Tail(<<Redraw>>) = <<>>
    OBVIOUS
  <2>4. calls'["ticker"] = calls["ticker"] \/ calls'["ticker"] = <<>>
    BY <1>17, <2>3 DEF Leave
  <2>5. /\ painted' = FrameOf(FrameLines) /\ holder' = "none" /\ calls' = [calls EXCEPT ![a] = Tail(@)]
        /\ narrowed' = (narrowed \/ RowsOf(FrameOf(FrameLines), width) # FrameLines)
        /\ UNCHANGED <<width, cursor, junk, running, stop, ticker, viewer, mode, pc, due>>
        /\ holder = a
    BY <1>17 DEF Leave, engine, own, view
  <2>6. pc \notin {"phases", "finish"} => calls'["main"] = <<>>
    BY <2>5
  <2>7. Converge /\ due # <<>> => calls'["writer"] = <<>>
    BY <2>5
  <2>8. RegionTypeOK'
    BY <2>1, <2>5
  <2>9. ~narrowed' => junk' = 0 /\ RowsOf(painted', width') = painted'.lines
    BY <2>1, <2>5
  <2>10. /\ calls'["ticker"] \in {<<>>, <<Redraw>>} /\ (ticker' # "on" => calls'["ticker"] = <<>>)
         /\ running' /\ holder' = "none" /\ pc' \notin {"start", "summary", "ended"}
    BY <2>2, <2>4, <2>5
  <2> QED
    BY <2>5, <2>6, <2>7, <2>8, <2>9, <2>10
<1>18. ASSUME NEW a \in Actors, PrintPlain(a) /\ UNCHANGED <<engine, own>> PROVE ScreenInv'
  BY <1>18 DEF PrintPlain, engine, own, view
<1>19. CASE UNCHANGED vars
  BY <1>1, <1>19 DEF vars, engine, own, view
<1> QED
  BY <1>2, <1>3, <1>4, <1>5, <1>6, <1>7, <1>8, <1>9, <1>10, <1>11, <1>12, <1>13, <1>14, <1>15,
     <1>16, <1>17, <1>18, <1>19 DEF Next, Main, Printing

\* Every variable has its type, and the memory of the reader is bounded.
THEOREM TypeCorrect == Spec => []TypeOK
<1>1. EngineInv /\ DataInv /\ ScreenInv => TypeOK
  BY NoTallyType DEF TypeOK, EngineInv, DataInv, ScreenInv, Tallies, Rest
<1> QED
  BY <1>1, EngineInit, EngineNext, DataInit, DataNext, ScreenInit, ScreenNext, PTL DEF Spec

----------------------------------------------------------------------------
(* The lines a scan leaves.                                                *)

Ticked == SubSeq(command.phases, 1, IF command.tty /\ phase > 0 THEN phase - 1 ELSE phase)

\* What the main goroutine has still to print of its first call.
Pending == IF holder = "main" \/ Idle("main") THEN <<>> ELSE Head(calls["main"])

\* The phases ticked off are on the screen or about to be printed, by the main
\* goroutine alone.
LinesInv ==
  /\ ~Converge => /\ chef = EmptyView /\ Idle("writer")
                  /\ printed \in Seq(Texts)
                  /\ \/ Idle("main")
                     \/ \E l \in Seq(Texts) : calls["main"] \in {<<l>>, <<l, Redraw>>}
                  /\ pc # "ended" => printed \o Pending = Ticked
                  /\ pc = "ended" => printed = ScanLines
  /\ pc = "start" => phase = 0
  /\ Converge => pc # "phases"

LEMMA LinesInit == Init => LinesInv
<1> SUFFICES ASSUME Init PROVE LinesInv
    OBVIOUS
<1>1. command.phases \in Seq(STRING)
  BY CommandType DEF Init
<1>2. Ticked = <<>>
  BY <1>1 DEF Init, Ticked
<1> QED
  BY <1>2 DEF Init, InitRegion, LinesInv, Pending, Idle, Actors

\* One more phase ticked off.
LEMMA OneMore ==
  ASSUME NEW s \in Seq(STRING), NEW k \in 1 .. Len(s)
  PROVE  SubSeq(s, 1, k - 1) \o <<s[k]>> = SubSeq(s, 1, k) /\ <<s[k]>> \in Seq(Texts)
<1>1. 1 \in 1 .. Len(s) /\ k \in 1 .. Len(s)
  OBVIOUS
<1>2. SubSeq(s, 1, k) = SubSeq(s, 1, k - 1) \o <<s[k]>>
  BY <1>1, SubSeqRecursiveSecond
<1>3. s[k] \in Texts
  <2>1. s[k] \in STRING
    BY ElementOfSeq
  <2> QED
    BY <2>1 DEF Texts
<1> QED
  BY <1>2, <1>3, OneElement

LEMMA PhaseTicksOff ==
  ASSUME EngineInv, DataInv, ScreenInv, LinesInv, NextPhase PROVE LinesInv'
<1>1. /\ ~Converge /\ ~Converge' /\ pc = "phases" /\ pc' = "phases" /\ Idle("main")
      /\ phase < Len(command.phases) /\ phase' = phase + 1
      /\ calls' = [calls EXCEPT !["main"] = PhaseLines(phase + 1)]
      /\ UNCHANGED <<printed, holder, command, chef>>
  BY DEF NextPhase, LinesInv, Converge, screen, engine, view
<1>2. holder # "main"
  BY <1>1 DEF ScreenInv
<1>3. command.phases \in Seq(STRING) /\ phase \in Nat /\ Len(command.phases) \in Nat
      /\ command.tty \in BOOLEAN
  BY CommandType DEF DataInv
<1>4. printed \in Seq(Texts) /\ printed = Ticked /\ printed \o <<>> = printed
  <2>1. printed \in Seq(Texts) /\ printed \o <<>> = Ticked
    BY <1>1 DEF LinesInv, Pending
  <2> QED
    BY <2>1, ConcatEmptySeq
<1>5. calls'["main"] = PhaseLines(phase + 1) /\ Idle("writer")'
  BY <1>1 DEF ScreenInv, RegionTypeOK, Actors, LinesInv, Idle
<1>6. ASSUME NEW k \in 1 .. Len(command.phases),
             printed = SubSeq(command.phases, 1, k - 1), Ticked' = SubSeq(command.phases, 1, k),
             calls'["main"] \in {<<<<command.phases[k]>>>>, <<<<command.phases[k]>>, Redraw>>}
      PROVE  LinesInv'
  <2> DEFINE l == <<command.phases[k]>>
  <2>1. l \in Seq(Texts) /\ printed \o l = Ticked'
    BY <1>3, <1>6, OneMore
  <2> HIDE DEF l
  <2>2. calls'["main"] \in {<<l>>, <<l, Redraw>>}
    BY <1>6 DEF l
  <2>3. Pending' = l
    BY <1>1, <1>2, <2>2 DEF Pending, Idle
  <2> QED
    BY <1>1, <1>4, <1>5, <2>1, <2>2, <2>3 DEF LinesInv
<1>7. CASE ~command.tty
  <2>1. PhaseLines(phase + 1) = <<<<command.phases[phase + 1]>>>>
    BY <1>7 DEF PhaseLines
  <2>3. /\ printed = SubSeq(command.phases, 1, (phase + 1) - 1)
        /\ Ticked' = SubSeq(command.phases, 1, phase + 1)
        /\ phase + 1 \in 1 .. Len(command.phases)
    BY <1>1, <1>3, <1>4, <1>7 DEF Ticked
  <2> QED
    BY <1>5, <1>6, <2>1, <2>3
<1>8. CASE command.tty /\ phase = 0
  <2>1. PhaseLines(phase + 1) = <<Redraw>>
    BY <1>3, <1>8 DEF PhaseLines
  <2>2. calls'["main"] = <<Redraw>> /\ Pending' = <<>>
    BY <1>1, <1>2, <1>5, <2>1 DEF Pending, Idle, Redraw
  <2>3. Ticked' = Ticked
    BY <1>1, <1>3, <1>8 DEF Ticked
  <2>4. <<>> \in Seq(Texts) /\ Redraw = <<>>
    BY DEF Redraw
  <2> QED
    BY <1>1, <1>4, <1>5, <2>2, <2>3, <2>4 DEF LinesInv
<1>9. CASE command.tty /\ phase > 0
  <2>1. PhaseLines(phase + 1) = <<<<command.phases[phase]>>, Redraw>>
    <3>1. phase + 1 # 1 /\ (phase + 1) - 1 = phase
      BY <1>3, <1>9
    <3> QED
      BY <1>9, <3>1 DEF PhaseLines
  <2>3. /\ printed = SubSeq(command.phases, 1, phase - 1)
        /\ Ticked' = SubSeq(command.phases, 1, phase)
        /\ phase \in 1 .. Len(command.phases)
    BY <1>1, <1>3, <1>4, <1>9 DEF Ticked
  <2> QED
    BY <1>5, <1>6, <2>1, <2>3
<1> QED
  BY <1>3, <1>7, <1>8, <1>9

\* A line moves from what is pending to what is printed, and no other moves.
LEMMA PrintingKeepsLines ==
  ASSUME EngineInv, DataInv, ScreenInv, LinesInv, NEW a \in Actors, Printing(a) PROVE LinesInv'
<1>1. UNCHANGED <<mode, result, command, pc, phase, chef>>
  BY DEF Printing, engine, own, view
<1>2. Ticked' = Ticked /\ ScanLines' = ScanLines /\ Converge' = Converge
  BY <1>1 DEF Ticked, ScanLines, Converge
<1>3. CASE Converge
  BY <1>1, <1>2, <1>3 DEF LinesInv
<1> SUFFICES ASSUME ~Converge PROVE LinesInv'
    BY <1>3
<1>4. a # "writer" /\ Idle("writer")' /\ Idle("writer")
  BY DEF Printing, Enter, Leave, PrintPlain, LinesInv, ScreenInv, Idle, RegionTypeOK, Actors
<1>5. printed \in Seq(Texts) /\ \A s \in Seq(Texts) : s \o <<>> = s
  BY ConcatEmptySeq DEF LinesInv
<1>6. \/ Idle("main")
      \/ \E l \in Seq(Texts) : calls["main"] \in {<<l>>, <<l, Redraw>>}
  BY DEF LinesInv
<1>7. pc # "ended" => printed \o Pending = Ticked
  BY DEF LinesInv
<1>8. CASE a = "ticker"
  <2>1. pc # "ended"
    BY <1>8 DEF Printing, Enter, Leave, PrintPlain, ScreenInv, Idle
  <2>2. calls'["main"] = calls["main"]
    BY <1>8 DEF Printing, Enter, Leave, PrintPlain, ScreenInv, RegionTypeOK, Actors
  <2>3. Head(<<Redraw>>) = <<>>
    BY DEF Redraw
  <2>4. printed' = printed
    BY <1>5, <1>8, <2>3 DEF Printing, Enter, Leave, PrintPlain, ScreenInv, Idle
  <2>5. (holder = "main") = (holder' = "main")
    BY <1>8 DEF Printing, Enter, Leave, PrintPlain
  <2>6. Pending' = Pending
    BY <2>2, <2>5 DEF Pending, Idle
  <2> QED
    BY <1>1, <1>2, <1>4, <1>5, <1>6, <1>7, <2>1, <2>2, <2>4, <2>6 DEF LinesInv, Idle
<1>9. CASE a = "main"
  <2>1. ~Idle("main") /\ pc # "ended"
    BY <1>9 DEF Printing, Enter, Leave, PrintPlain, ScreenInv
  <2>2. PICK l \in Seq(Texts) : calls["main"] \in {<<l>>, <<l, Redraw>>}
    BY <1>6, <2>1
  <2>3. /\ Head(calls["main"]) = l /\ Tail(calls["main"]) \in {<<>>, <<Redraw>>}
        /\ Head(<<Redraw>>) = <<>>
    <3>1. CASE calls["main"] = <<l>>
      BY <3>1 DEF Redraw
    <3>2. CASE calls["main"] = <<l, Redraw>>
      BY <3>2 DEF Redraw
    <3> QED
      BY <2>2, <3>1, <3>2
  <2>4. printed \o l \in Seq(Texts) /\ <<>> \in Seq(Texts) /\ Redraw = <<>>
    BY <1>5 DEF Redraw
  <2>5. CASE Enter("main")
    <3>1. printed' = printed \o l /\ holder' = "main" /\ calls' = calls /\ holder = "none"
      BY <2>3, <2>5 DEF Enter
    <3>2. Pending = l /\ Pending' = <<>>
      BY <2>1, <2>3, <3>1 DEF Pending
    <3> QED
      BY <1>1, <1>2, <1>4, <1>5, <1>6, <1>7, <2>1, <2>4, <3>1, <3>2 DEF LinesInv, Idle
  <2>6. CASE \/ Leave("main", FrameLines)
             \/ PrintPlain("main")
    <3>1. calls' = [calls EXCEPT !["main"] = Tail(@)]
      BY <2>6 DEF Leave, PrintPlain
    <3>2. calls'["main"] \in {<<>>, <<Redraw>>}
      BY <2>3, <3>1 DEF ScreenInv, RegionTypeOK, Actors
    <3>3. Pending' = <<>>
      BY <2>3, <3>2 DEF Pending, Idle
    <3>4. \/ Idle("main")'
          \/ \E r \in Seq(Texts) : calls'["main"] \in {<<r>>, <<r, Redraw>>}
      BY <2>4, <3>2 DEF Idle
    <3>5. CASE Leave("main", FrameLines)
      <4>1. printed' = printed /\ Pending = <<>>
        BY <3>5 DEF Leave, Pending
      <4> QED
        BY <1>1, <1>2, <1>4, <1>5, <1>7, <2>1, <3>3, <3>4, <4>1 DEF LinesInv
    <3>6. CASE PrintPlain("main")
      <4>1. printed' = printed \o l /\ Pending = l
        BY <2>1, <2>3, <3>6 DEF PrintPlain, Pending, ScreenInv
      <4> QED
        BY <1>1, <1>2, <1>4, <1>5, <1>7, <2>1, <2>4, <3>3, <3>4, <4>1 DEF LinesInv
    <3> QED
      BY <2>6, <3>5, <3>6
  <2> QED
    BY <1>9, <2>5, <2>6 DEF Printing
<1> QED
  BY <1>4, <1>8, <1>9 DEF Actors

LEMMA LinesNext == EngineInv /\ DataInv /\ ScreenInv /\ LinesInv /\ [Next]_vars => LinesInv'
<1> SUFFICES ASSUME EngineInv, DataInv, ScreenInv, LinesInv, [Next]_vars PROVE LinesInv'
    OBVIOUS
<1> USE DEF LinesInv, Converge
<1>1. CASE UNCHANGED <<region, mode, result, command, pc, phase, chef>>
  BY <1>1 DEF region, Pending, Ticked, ScanLines, Idle
\* The main goroutine goes on: no line is printed, and the end is not reached.
<1>2. CASE /\ UNCHANGED <<printed, holder, mode, command, phase>>
           /\ pc # "ended" /\ pc' \notin {"ended", "start", "phases"}
           /\ ~Converge => /\ chef' = chef
                           /\ calls'["main"] = calls["main"] /\ calls'["writer"] = calls["writer"]
  <2>1. Ticked' = Ticked /\ (~Converge => Pending' = Pending)
    BY <1>2 DEF Ticked, Pending, Idle
  <2> QED
    BY <1>2, <2>1 DEF Idle
<1>3. CASE Begin
  BY <1>3 DEF Begin, Start, region, engine, view, Pending, Ticked, Idle
<1>4. CASE BeginConverge \/ StagingFails \/ PhaseFails \/ Audit
  BY <1>2, <1>4 DEF BeginConverge, StagingFails, PhaseFails, Audit, Start, StartExec, region, engine, view
<1>5. CASE NextPhase
  BY <1>5, PhaseTicksOff
<1>6. CASE Waited \/ Abandoned \/ Returned \/ FlushOutput \/ Read \/ Program \/ Ends
  <2>1. UNCHANGED <<region, mode, command, pc, phase, chef>>
    BY <1>6 DEF Waited, WaitReturns, Drained, Abandoned, Abandon, RemoveContainer, Returned, Return,
                FlushOutput, Read, Output, Program, Create, ClientExits, WriteReport, ProgramEnds,
                Ends, Expire, Kill, engine, own, view
  <2>2. pc = "ended" => result' = result
    BY <1>6 DEF Waited, WaitReturns, Drained, Abandoned, Abandon, RemoveContainer, Returned, Return,
                FlushOutput, Read, Output, Program, Create, ClientExits, WriteReport, ProgramEnds,
                Ends, Expire, Kill, engine, EngineInv, Rest
  <2>3. Ticked' = Ticked /\ Pending' = Pending /\ (pc = "ended" => ScanLines' = ScanLines)
    BY <2>1, <2>2 DEF region, Ticked, Pending, ScanLines, Idle
  <2> QED
    BY <2>1, <2>3 DEF region, Idle
<1>7. CASE Over
  <2>1. ~Converge => /\ chef' = chef
                     /\ calls'["main"] = calls["main"] /\ calls'["writer"] = calls["writer"]
    <3> SUFFICES ASSUME ~Converge
                 PROVE  /\ chef' = chef
                        /\ calls'["main"] = calls["main"] /\ calls'["writer"] = calls["writer"]
        OBVIOUS
    <3>1. chef.cur = NoResource /\ chef = EmptyView
      BY DEF EmptyView
    <3>2. ~Changed(chef.cur)
      BY <3>1 DEF Changed
    <3>3. chef' = [EmptyView EXCEPT !.cur = NoResource]
      BY <1>7, <3>1 DEF Over, FinishRes
    <3>4. calls["main"] = <<>>
      BY <1>7 DEF Over, ScreenInv, Idle
    <3>5. calls' = [calls EXCEPT !["main"] = <<>>]
      BY <1>7, <3>2 DEF Over
    <3> QED
      BY <3>1, <3>3, <3>4, <3>5 DEF EmptyView, ScreenInv, RegionTypeOK, Actors
  <2> QED
    BY <1>2, <1>7, <2>1 DEF Over, screen, engine
<1>8. CASE Finish \/ Clean
  BY <1>2, <1>8 DEF Finish, Stop, Clean, Stopped, region, screen, engine, view
<1>9. CASE Summary
  <2>1. /\ pc = "summary" /\ pc' = "ended"
        /\ printed' = IF result = "ok" \/ Converge THEN Append(printed, "summary") ELSE printed
        /\ UNCHANGED <<calls, result, mode, command, phase, chef>>
    BY <1>9 DEF Summary, engine, view
  <2>2. CASE Converge
    BY <2>1, <2>2
  <2>3. CASE ~Converge
    <3>1. Idle("main") /\ Pending = <<>>
      BY <2>1 DEF ScreenInv, Pending
    <3>2. printed \in Seq(Texts) /\ printed = Ticked
      BY <2>1, <2>3, <3>1, ConcatEmptySeq
    <3>3. "summary" \in Texts
      BY DEF Texts
    <3>4. Append(printed, "summary") = printed \o <<"summary">>
          /\ Append(printed, "summary") \in Seq(Texts) /\ printed \o <<>> = printed
      BY <3>2, <3>3, AppendIsConcat, AppendProperties, ConcatEmptySeq
    <3>5. ScanLines' = Ticked \o IF result = "ok" THEN <<"summary">> ELSE <<>>
      BY <2>1 DEF ScanLines, Ticked
    <3>6. printed' \in Seq(Texts) /\ printed' = ScanLines'
      BY <2>1, <2>3, <3>2, <3>4, <3>5
    <3> QED
      BY <2>1, <2>3, <3>1, <3>6 DEF Idle
  <2> QED
    BY <2>2, <2>3
<1>10. CASE TakeView \/ CountEvent
  <2>1. UNCHANGED <<calls, printed, holder, mode, result, command, pc, phase, chef>>
    BY <1>10 DEF TakeView, CountEvent, screen, engine, own, view
  <2> QED
    BY <2>1 DEF Pending, Ticked, ScanLines, Idle
<1>11. CASE ReadLine
  BY <1>11 DEF ReadLine, engine
<1>12. CASE Ticking
  <2>1. /\ UNCHANGED <<printed, holder, mode, result, command, pc, phase, chef>>
        /\ calls'["main"] = calls["main"] /\ calls'["writer"] = calls["writer"]
    BY <1>12 DEF Ticking, Tick, TickerStops, ScreenInv, RegionTypeOK, Actors, screen, engine, own, view
  <2> QED
    BY <2>1 DEF Pending, Ticked, ScanLines, Idle
<1>13. CASE Resizes
  <2>1. UNCHANGED <<calls, printed, holder, mode, result, command, pc, phase, chef>>
    BY <1>13 DEF Resizes, Resize, screen, engine, own, view
  <2> QED
    BY <2>1 DEF Pending, Ticked, ScanLines, Idle
<1>14. CASE \E a \in Actors : Printing(a)
  BY <1>14, PrintingKeepsLines
<1>15. CASE UNCHANGED vars
  BY <1>1, <1>15 DEF vars, engine, own, view
<1> QED
  BY <1>3, <1>4, <1>5, <1>6, <1>7, <1>8, <1>9, <1>10, <1>11, <1>12, <1>13, <1>14, <1>15
  DEF Next, Main

\* Whoever drew last, and however the run ended, the terminal is given back as
\* it was, with every line of the run in order.
THEOREM TerminalIsGivenBack == Spec => []ScreenRestored
<1>1. DataInv /\ ScreenInv /\ LinesInv => ScreenRestored
  BY DEF ScreenInv, LinesInv, ScreenRestored
<1> QED
  BY <1>1, EngineInit, EngineNext, DataInit, DataNext, ScreenInit, ScreenNext, LinesInit, LinesNext,
     PTL DEF Spec

----------------------------------------------------------------------------
(* The counts of a scan.                                                   *)

\* w has read what v has, and forgot at most some text at the start of the line.
Behind(w, v, d) ==
  /\ w.count = v.count /\ w.events = v.events
  /\ d \in 0 .. Len(v.buf)
  /\ w.buf = SubSeq(v.buf, d + 1, Len(v.buf))
  /\ \A i \in 1 .. d : v.buf[i] = Text

Alike(w, v) == \E d \in Nat : Behind(w, v, d)

LEMMA FirstShifts ==
  ASSUME NEW S \in SUBSET Nat, NEW T \in SUBSET Nat, NEW d \in Nat,
         \A i \in Nat : i \in S <=> i + d \in T, \A j \in T : j >= d
  PROVE  (S = {} <=> T = {}) /\ (S # {} => First(T) = First(S) + d)
<1>1. \A j \in T : j - d \in S
  OBVIOUS
<1>2. S = {} <=> T = {}
  BY <1>1
<1>3. ASSUME S # {} PROVE First(T) = First(S) + d
  <2>1. First(S) \in S /\ \A y \in S : First(S) <= y
    BY <1>3, FirstIsThere
  <2>2. First(T) \in T /\ \A y \in T : First(T) <= y
    BY <1>2, <1>3, FirstIsThere
  <2>3. First(S) + d \in T /\ First(T) - d \in S
    BY <1>1, <2>1, <2>2
  <2>4. First(T) <= First(S) + d /\ First(S) <= First(T) - d
    BY <2>1, <2>2, <2>3
  <2>5. First(S) \in Nat /\ First(T) \in Nat
    BY <2>1, <2>2
  <2> QED
    BY <2>4, <2>5
<1> QED
  BY <1>2, <1>3

\* What was forgotten does not show in the events of the line.
LEMMA LineAlike ==
  ASSUME NEW w \in Readers, NEW v \in Readers, Alike(w, v)
  PROVE  Line(w).count = Line(v).count /\ Line(w).events = Line(v).events
         /\ Line(w).buf = Line(v).buf
<1>1. PICK d \in Nat : Behind(w, v, d)
  BY DEF Alike
<1>2. /\ w.buf \in Seq(Symbols) /\ v.buf \in Seq(Symbols)
      /\ d \in 0 .. Len(v.buf) /\ w.count = v.count /\ w.events = v.events
      /\ w.buf = SubSeq(v.buf, d + 1, Len(v.buf))
      /\ \A i \in 1 .. d : v.buf[i] = Text
  BY <1>1 DEF Behind, Readers
<1>3. Len(w.buf) = Len(v.buf) - d /\ Len(v.buf) \in Nat
      /\ \A i \in 1 .. Len(w.buf) : w.buf[i] = v.buf[i + d]
  BY <1>2
<1> DEFINE cw == CountsOf(w.buf)
           cv == CountsOf(v.buf)
           rw == ResultsOf(w.buf)
           rv == ResultsOf(v.buf)
<1>4. (cw = {} <=> cv = {}) /\ (cw # {} => First(cv) = First(cw) + d)
  <2>1. \A j \in 1 .. d : j \notin cv
    BY <1>2 DEF CountsOf, Text
  <2>2. cw \in SUBSET Nat /\ cv \in SUBSET Nat
    BY DEF CountsOf
  <2>3. \A j \in cv : j >= d
    <3>1. \A j \in cv : j \in Nat /\ j >= 1
      BY <1>2 DEF CountsOf
    <3> HIDE DEF cv
    <3> QED
      BY <2>1, <3>1
  <2>4. \A i \in Nat : i \in cw <=> i + d \in cv
    <3>1. ASSUME NEW i \in Nat, i \in cw PROVE i + d \in cv
      BY <1>2, <1>3, <3>1 DEF CountsOf
    <3>2. ASSUME NEW i \in Nat, i + d \in cv PROVE i \in cw
      <4>1. i # 0
        BY <1>2, <2>1, <3>2 DEF CountsOf
      <4> QED
        BY <1>2, <1>3, <3>2, <4>1 DEF CountsOf
    <3> QED
      BY <3>1, <3>2
  <2> HIDE DEF cw, cv
  <2> QED
    BY <2>2, <2>3, <2>4, FirstShifts
<1>5. (rw = {} <=> rv = {}) /\ (rw # {} => First(rv) = First(rw) + d)
  <2>1. \A j \in 1 .. d : j \notin rv
    BY <1>2 DEF ResultsOf, Text
  <2>2. rw \in SUBSET Nat /\ rv \in SUBSET Nat
    BY <1>2 DEF ResultsOf
  <2>3. \A j \in rv : j >= d
    <3>1. \A j \in rv : j \in Nat /\ j >= 1
      BY <1>2 DEF ResultsOf
    <3> HIDE DEF rv
    <3> QED
      BY <2>1, <3>1
  <2>4. \A i \in Nat : i \in rw <=> i + d \in rv
    <3>1. ASSUME NEW i \in Nat, i \in rw PROVE i + d \in rv
      <4>1. /\ i \in 1 .. Len(w.buf) /\ i + 1 \in 1 .. Len(w.buf) /\ i <= Len(w.buf) - 1
            /\ w.buf[i].is = "status" /\ w.buf[i + 1].is = "name"
        BY <1>2, <3>1 DEF ResultsOf
      <4>2. w.buf[i] = v.buf[i + d] /\ w.buf[i + 1] = v.buf[(i + d) + 1]
        BY <1>2, <1>3, <4>1
      <4>3. i + d \in 1 .. Len(v.buf) - 1
        BY <1>2, <1>3, <4>1
      <4> QED
        BY <4>1, <4>2, <4>3 DEF ResultsOf
    <3>2. ASSUME NEW i \in Nat, i + d \in rv PROVE i \in rw
      <4>1. i # 0
        BY <1>2, <2>1, <3>2 DEF ResultsOf
      <4>2. /\ i + d \in 1 .. Len(v.buf) - 1
            /\ v.buf[i + d].is = "status" /\ v.buf[(i + d) + 1].is = "name"
        BY <1>2, <3>2 DEF ResultsOf
      <4>3. i \in 1 .. Len(w.buf) - 1 /\ i \in 1 .. Len(w.buf) /\ i + 1 \in 1 .. Len(w.buf)
        BY <1>2, <1>3, <4>1, <4>2
      <4>4. w.buf[i] = v.buf[i + d] /\ w.buf[i + 1] = v.buf[(i + d) + 1]
        <5>1. (i + 1) + d = (i + d) + 1
          OBVIOUS
        <5>2. w.buf[i + 1] = v.buf[(i + 1) + d]
          BY <1>3, <4>3
        <5> QED
          BY <1>3, <4>3, <5>1, <5>2
      <4> QED
        BY <4>2, <4>3, <4>4 DEF ResultsOf
    <3> QED
      BY <3>1, <3>2
  <2> HIDE DEF rw, rv
  <2> QED
    BY <2>2, <2>3, <2>4, FirstShifts
<1> DEFINE count(x)    == IF CountsOf(x.buf) = {} THEN x.count ELSE x.buf[First(CountsOf(x.buf))].done
           finished(x) == IF ResultsOf(x.buf) = {} THEN <<>>
                          ELSE <<[done |-> count(x), id |-> x.buf[First(ResultsOf(x.buf)) + 1].id,
                                  status |-> x.buf[First(ResultsOf(x.buf))].status]>>
           counted(x)  == IF count(x) = x.count THEN <<>>
                          ELSE <<[done |-> count(x), id |-> "", status |-> ""]>>
<1>6. \A x : /\ Line(x).count = count(x) /\ Line(x).events = x.events \o counted(x) \o finished(x)
             /\ Line(x).buf = <<>>
  BY DEF Line
<1>7. count(w) = count(v)
  <2>1. CASE cw = {}
    BY <1>2, <1>4, <2>1
  <2>2. CASE cw # {}
    <3>1. First(cw) \in cw
      <4>1. cw \in SUBSET Nat
        BY DEF CountsOf
      <4> QED
        BY <2>2, <4>1, FirstIsThere
    <3>2. First(cw) \in 1 .. Len(w.buf)
      BY <3>1 DEF CountsOf
    <3>3. w.buf[First(cw)] = v.buf[First(cv)]
      BY <1>3, <1>4, <2>2, <3>2
    <3> QED
      BY <1>4, <2>2, <3>3
  <2> QED
    BY <2>1, <2>2
<1>8. finished(w) = finished(v)
  <2>1. CASE rw = {}
    BY <1>5, <2>1
  <2>2. CASE rw # {}
    <3>1. First(rw) \in rw
      <4>1. rw \in SUBSET Nat
        BY <1>2 DEF ResultsOf
      <4> QED
        BY <2>2, <4>1, FirstIsThere
    <3>2. First(rw) \in 1 .. Len(w.buf) /\ First(rw) + 1 \in 1 .. Len(w.buf)
      <4>1. First(rw) \in 1 .. Len(w.buf) - 1
        BY <3>1 DEF ResultsOf
      <4> HIDE DEF rw
      <4> QED
        BY <1>3, <4>1
    <3>3. w.buf[First(rw)] = v.buf[First(rv)]
      BY <1>3, <1>5, <2>2, <3>2
    <3>4. (First(rw) + 1) + d = (First(rw) + d) + 1
      BY <3>2
    <3>5. w.buf[First(rw) + 1] = v.buf[First(rv) + 1]
      BY <1>3, <1>5, <2>2, <3>2, <3>4
    <3> HIDE DEF count
    <3> QED
      BY <1>5, <1>7, <2>2, <3>3, <3>5
  <2> QED
    BY <2>1, <2>2
<1>9. counted(w) = counted(v)
  <2> HIDE DEF count
  <2> QED
    BY <1>2, <1>7
<1> HIDE DEF count, finished, counted
<1> QED
  BY <1>2, <1>6, <1>7, <1>8, <1>9

LEMMA SameIsAlike ==
  ASSUME NEW w, NEW v, v.buf \in Seq(Symbols),
         w.count = v.count, w.events = v.events, w.buf = v.buf
  PROVE  Alike(w, v)
<1>1. SubSeq(v.buf, 0 + 1, Len(v.buf)) = v.buf
  BY SubSeqFull
<1>2. Len(v.buf) \in Nat
  OBVIOUS
<1>3. Behind(w, v, 0)
  BY <1>1, <1>2 DEF Behind
<1> QED
  BY <1>3 DEF Alike

LEMMA FeedAlike ==
  ASSUME NEW w \in Readers, NEW v \in Readers, NEW x \in Symbols, Alike(w, v)
  PROVE  Alike(Feed(w, x), Feed(v, x))
<1>1. CASE x = Eol
  <2>1. Line(v).buf \in Seq(Symbols)
    BY LineType, OneElement
  <2>2. Alike(Line(w), Line(v))
    BY <2>1, LineAlike, SameIsAlike
  <2> QED
    BY <1>1, <2>2 DEF Feed
<1>2. CASE x # Eol
  <2>1. PICK d \in Nat : Behind(w, v, d)
    BY DEF Alike
  <2>2. Feed(w, x) = [w EXCEPT !.buf = Append(@, x)] /\ Feed(v, x) = [v EXCEPT !.buf = Append(@, x)]
    BY <1>2 DEF Feed
  <2>3. /\ Feed(w, x).count = w.count /\ Feed(w, x).events = w.events
        /\ Feed(w, x).buf = Append(w.buf, x)
        /\ Feed(v, x).count = v.count /\ Feed(v, x).events = v.events
        /\ Feed(v, x).buf = Append(v.buf, x)
    BY <2>2 DEF Readers
  <2>4. /\ w.buf \in Seq(Symbols) /\ v.buf \in Seq(Symbols) /\ d \in 0 .. Len(v.buf)
        /\ w.buf = SubSeq(v.buf, d + 1, Len(v.buf)) /\ \A i \in 1 .. d : v.buf[i] = Text
        /\ w.count = v.count /\ w.events = v.events
    BY <2>1 DEF Behind, Readers
  <2> DEFINE b == w.buf
             c == v.buf
             n == Len(c)
             bx == Append(b, x)
             cx == Append(c, x)
  <2>5. \A r \in Seq(Symbols) :
          /\ Append(r, x) \in Seq(Symbols) /\ Len(Append(r, x)) = Len(r) + 1
          /\ \A i \in 1 .. Len(r) : Append(r, x)[i] = r[i]
          /\ Append(r, x)[Len(r) + 1] = x
    BY AppendProperties
  <2>6. /\ n \in Nat /\ d \in 0 .. n /\ Len(b) = n - d
        /\ \A i \in 1 .. n - d : b[i] = c[(d + 1) + i - 1]
    BY <2>4
  <2>7. /\ bx \in Seq(Symbols) /\ Len(bx) = Len(b) + 1 /\ bx[Len(b) + 1] = x
        /\ \A i \in 1 .. Len(b) : bx[i] = b[i]
    BY <2>4, <2>5
  <2>8. /\ cx \in Seq(Symbols) /\ Len(cx) = n + 1 /\ cx[n + 1] = x
        /\ \A i \in 1 .. n : cx[i] = c[i]
    BY <2>4, <2>5
  <2>9. bx = SubSeq(cx, d + 1, n + 1)
    <3> DEFINE cut == SubSeq(cx, d + 1, n + 1)
    <3> HIDE DEF n, b, c, bx, cx
    <3>1. \A i \in d + 1 .. n + 1 : cx[i] \in Symbols
      <4>1. \A i \in d + 1 .. n + 1 : i \in 1 .. Len(cx)
        BY <2>6, <2>8
      <4> QED
        BY <2>8, <4>1, ElementOfSeq
    <3>2. /\ cut \in Seq(Symbols) /\ Len(cut) = (n + 1) - (d + 1) + 1
          /\ \A i \in 1 .. (n + 1) - (d + 1) + 1 : cut[i] = cx[(d + 1) + i - 1]
      <4>1. d + 1 \in Int /\ n + 1 \in Int /\ d + 1 <= n + 1
        BY <2>6
      <4> QED
        BY <3>1, <4>1, SubSeqProperties
    <3> HIDE DEF cut
    <3>3. Len(cut) = Len(bx) /\ Len(bx) = n - d + 1
      BY <2>6, <2>7, <3>2
    <3>4. ASSUME NEW i \in 1 .. Len(bx) PROVE bx[i] = cut[i]
      <4>1. i \in 1 .. n - d + 1
        BY <3>3
      <4>2. cut[i] = cx[(d + 1) + i - 1]
        BY <2>6, <3>2, <4>1
      <4>3. CASE i = n - d + 1
        <5>1. (d + 1) + i - 1 = n + 1 /\ i = Len(b) + 1
          BY <2>6, <4>3
        <5> QED
          BY <2>7, <2>8, <4>2, <5>1
      <4>4. CASE i # n - d + 1
        <5>1. i \in 1 .. n - d /\ (d + 1) + i - 1 \in 1 .. n
          BY <2>6, <4>1, <4>4
        <5>2. bx[i] = b[i] /\ b[i] = c[(d + 1) + i - 1]
          BY <2>6, <2>7, <5>1
        <5> QED
          BY <2>8, <4>2, <5>1, <5>2
      <4> QED
        BY <4>3, <4>4
    <3> QED
      BY <2>7, <3>2, <3>3, <3>4, SeqEqual DEF cut
  <2>10. \A i \in 1 .. d : cx[i] = Text
    BY <2>4, <2>6, <2>8
  <2>11. d \in 0 .. Len(cx)
    BY <2>6, <2>8
  <2> HIDE DEF bx, cx
  <2>12. Behind(Feed(w, x), Feed(v, x), d)
    BY <2>3, <2>4, <2>8, <2>9, <2>10, <2>11 DEF Behind, bx, cx
  <2> QED
    BY <2>12 DEF Alike
<1> QED
  BY <1>1, <1>2

LEMMA FlushAlike ==
  ASSUME NEW w \in Readers, NEW v \in Readers, Alike(w, v)
  PROVE  Alike(Flush(w), Flush(v))
<1>1. PICK d \in Nat : Behind(w, v, d)
  BY DEF Alike
<1>2. /\ w.buf \in Seq(Symbols) /\ v.buf \in Seq(Symbols) /\ w.events \in Seq(Events)
      /\ w.buf = SubSeq(v.buf, d + 1, Len(v.buf)) /\ w.count = v.count /\ w.events = v.events
  BY <1>1 DEF Behind, Readers
<1>3. Line(v).buf \in Seq(Symbols) /\ Line(v).buf = <<>> /\ Line(w).buf = <<>>
  BY LineType, OneElement
<1>4. Line(w).count = Line(v).count /\ Line(w).events = Line(v).events
  BY LineAlike
<1>5. CASE v.buf = <<>>
  <2>1. w.buf = <<>>
    BY <1>2, <1>5
  <2> QED
    BY <1>5, <2>1 DEF Flush
<1>6. CASE v.buf # <<>> /\ w.buf # <<>>
  BY <1>3, <1>4, <1>6, SameIsAlike DEF Flush
<1>7. CASE v.buf # <<>> /\ w.buf = <<>>
  <2>1. CountsOf(<<>>) = {} /\ ResultsOf(<<>>) = {}
    BY DEF CountsOf, ResultsOf
  <2>2. Line(w).count = w.count /\ Line(w).events = w.events \o <<>> \o <<>>
    BY <1>7, <2>1 DEF Line
  <2>3. Line(w).events = w.events
    BY <1>2, <2>2, ConcatEmptySeq
  <2> QED
    BY <1>3, <1>4, <1>7, <2>2, <2>3, SameIsAlike DEF Flush
<1> QED
  BY <1>5, <1>6, <1>7

\* The buffer of a reader that has read k symbols and cut nothing: the line so far.
LineSoFar(v, s, k) ==
  \E i \in 1 .. k + 1 : v.buf = SubSeq(s, i, k) /\ \A j \in i .. k : s[j] # Eol

LEMMA UncutIsTheLine ==
  ASSUME NEW s \in Seq(Symbols), NEW h, IsFeeding(h, Empty, s)
  PROVE  \A k \in 0 .. Len(s) : LineSoFar(h[k], s, k)
<1> DEFINE U == {k \in 0 .. Len(s) : LineSoFar(h[k], s, k)}
<1>1. /\ h \in [0 .. Len(s) -> Readers] /\ h[0] = Empty
      /\ \A k \in 1 .. Len(s) : h[k] = Feed(h[k - 1], s[k])
  BY DEF IsFeeding
<1>2. 0 \in U
  <2>1. Empty.buf = SubSeq(s, 1, 0)
    BY SubSeqEmpty DEF Empty
  <2>2. LineSoFar(h[0], s, 0)
    BY <1>1, <2>1 DEF LineSoFar
  <2> QED
    BY <2>2
<1>3. ASSUME NEW k \in 0 .. Len(s) - 1, k \in U PROVE k + 1 \in U
  <2>1. k + 1 \in 1 .. Len(s) /\ k + 1 \in 0 .. Len(s) /\ k \in 0 .. Len(s) /\ (k + 1) - 1 = k
    OBVIOUS
  <2>2. h[k + 1] = Feed(h[k], s[k + 1]) /\ h[k] \in Readers /\ s[k + 1] \in Symbols
    BY <1>1, <2>1
  <2>3. PICK i \in 1 .. k + 1 : h[k].buf = SubSeq(s, i, k) /\ \A j \in i .. k : s[j] # Eol
    BY <1>3 DEF LineSoFar
  <2>4. CASE s[k + 1] = Eol
    <3>1. h[k + 1].buf = <<>>
      BY <2>2, <2>4, LineType DEF Feed
    <3>2. SubSeq(s, k + 2, k + 1) = <<>>
      BY SubSeqEmpty
    <3>3. LineSoFar(h[k + 1], s, k + 1)
      <4>1. k + 2 \in 1 .. (k + 1) + 1 /\ \A j \in k + 2 .. k + 1 : s[j] # Eol
        OBVIOUS
      <4> QED
        BY <3>1, <3>2, <4>1 DEF LineSoFar
    <3> QED
      BY <2>1, <3>3
  <2>5. CASE s[k + 1] # Eol
    <3>1. h[k + 1].buf = Append(h[k].buf, s[k + 1])
      BY <2>2, <2>5 DEF Feed, Readers
    <3>2. Append(SubSeq(s, i, k), s[k + 1]) = SubSeq(s, i, k + 1)
      <4>1. i \in 1 .. Len(s) /\ k + 1 \in i .. Len(s)
        BY <2>1
      <4>2. SubSeq(s, i, k + 1) = SubSeq(s, i, (k + 1) - 1) \o <<s[k + 1]>>
        BY <4>1, SubSeqRecursiveSecond
      <4>3. SubSeq(s, i, k) \in Seq(Symbols)
        BY <4>1
      <4>4. Append(SubSeq(s, i, k), s[k + 1]) = SubSeq(s, i, k) \o <<s[k + 1]>>
        BY <2>2, <4>3, AppendIsConcat
      <4> QED
        BY <2>1, <4>2, <4>4
    <3>3. \A j \in i .. k + 1 : s[j] # Eol
      BY <2>3, <2>5
    <3>4. h[k + 1].buf = SubSeq(s, i, k + 1) /\ i \in 1 .. (k + 1) + 1
      BY <2>3, <3>1, <3>2
    <3>5. LineSoFar(h[k + 1], s, k + 1)
      BY <3>3, <3>4 DEF LineSoFar
    <3> QED
      BY <2>1, <3>5
  <2> QED
    BY <2>4, <2>5
<1>4. Len(s) \in Nat
  OBVIOUS
<1> HIDE DEF U
<1>5. \A k \in 0 .. Len(s) : k \in U
  BY <1>2, <1>3, <1>4, ByInduction
<1> QED
  BY <1>5 DEF U

\* What the bound on memory may drop is text: no count and no result is as far
\* back in a line that has not ended.
OnlyTextIsCut(s) ==
  \A i, j \in 1 .. Len(s) :
    (\A k \in i .. j : s[k] # Eol) /\ j - i + 1 > MaxBuffer
      => \A k \in i .. j - KeepBuffer : s[k] = Text

LEMMA CutAlike ==
  ASSUME NEW s \in Seq(Symbols), OnlyTextIsCut(s), NEW k \in 0 .. Len(s),
         NEW w \in Readers, NEW v \in Readers, Alike(w, v), LineSoFar(v, s, k),
         Len(w.buf) > MaxBuffer
  PROVE  Alike([w EXCEPT !.buf = SubSeq(@, Len(w.buf) - KeepBuffer + 1, Len(w.buf))], v)
<1> DEFINE n == Len(v.buf)
           e == n - KeepBuffer
           cut == SubSeq(w.buf, Len(w.buf) - KeepBuffer + 1, Len(w.buf))
<1>1. PICK d \in Nat : Behind(w, v, d)
  BY DEF Alike
<1>2. /\ w.buf \in Seq(Symbols) /\ v.buf \in Seq(Symbols) /\ d \in 0 .. n
      /\ w.buf = SubSeq(v.buf, d + 1, n) /\ w.count = v.count /\ w.events = v.events
  BY <1>1 DEF Behind, Readers
<1>3. Len(w.buf) = n - d /\ n \in Nat
  BY <1>2
<1>4. KeepBuffer \in Nat /\ MaxBuffer \in Nat /\ KeepBuffer <= MaxBuffer
  BY ProgressStreamAssumption
<1>5. e \in 0 .. n /\ e \in Nat /\ e >= d
  BY <1>2, <1>3, <1>4
<1>6. PICK i \in 1 .. k + 1 : v.buf = SubSeq(s, i, k) /\ \A j \in i .. k : s[j] # Eol
  BY DEF LineSoFar
<1>7. n = k - i + 1 /\ i <= k /\ \A j \in 1 .. n : v.buf[j] = s[i + j - 1]
  <2>1. \A j \in i .. k : s[j] \in Symbols
    BY ElementOfSeq
  <2>2. /\ Len(SubSeq(s, i, k)) = IF i <= k THEN k - i + 1 ELSE 0
        /\ \A j \in 1 .. k - i + 1 : SubSeq(s, i, k)[j] = s[i + j - 1]
    BY <2>1, SubSeqProperties
  <2>3. n # 0
    BY <1>2, <1>3, <1>4
  <2> QED
    BY <1>6, <2>2, <2>3
<1>8. \A j \in 1 .. e : v.buf[j] = Text
  <2>1. i \in 1 .. Len(s) /\ k \in 1 .. Len(s)
    BY <1>7
  <2>2. k - i + 1 > MaxBuffer
    BY <1>2, <1>3, <1>4, <1>7
  <2>3. \A j \in i .. k - KeepBuffer : s[j] = Text
    BY <1>6, <2>1, <2>2 DEF OnlyTextIsCut
  <2> SUFFICES ASSUME NEW j \in 1 .. e PROVE v.buf[j] = Text
      OBVIOUS
  <2>4. j \in 1 .. n /\ i + j - 1 \in i .. k - KeepBuffer
    BY <1>4, <1>5, <1>7
  <2> QED
    BY <1>7, <2>3, <2>4
<1>9. cut = SubSeq(v.buf, e + 1, n)
  <2> DEFINE other == SubSeq(v.buf, e + 1, n)
             m == Len(w.buf)
  <2>1. \A j \in e + 1 .. n : v.buf[j] \in Symbols
    <3>1. \A j \in e + 1 .. n : j \in 1 .. n
      BY <1>5
    <3> QED
      BY <1>2, <3>1, ElementOfSeq
  <2>2. /\ other \in Seq(Symbols)
        /\ Len(other) = KeepBuffer
        /\ \A j \in 1 .. KeepBuffer : other[j] = v.buf[e + j]
    <3>1. e + 1 \in Int /\ n \in Int /\ n - (e + 1) + 1 = KeepBuffer
      BY <1>3, <1>4, <1>5
    <3>2. /\ e + 1 <= n => KeepBuffer >= 1
          /\ e + 1 > n => KeepBuffer = 0
          /\ e \in Int
      BY <1>3, <1>4, <1>5
    <3> HIDE DEF e, n
    <3>3. /\ other \in Seq(Symbols)
          /\ Len(other) = IF e + 1 <= n THEN n - (e + 1) + 1 ELSE 0
          /\ \A j \in 1 .. n - (e + 1) + 1 : other[j] = v.buf[(e + 1) + j - 1]
      <4>1. \A a, b \in Int : (\A j \in a .. b : v.buf[j] \in Symbols) =>
              /\ SubSeq(v.buf, a, b) \in Seq(Symbols)
              /\ Len(SubSeq(v.buf, a, b)) = IF a <= b THEN b - a + 1 ELSE 0
              /\ \A j \in 1 .. b - a + 1 : SubSeq(v.buf, a, b)[j] = v.buf[a + j - 1]
        BY SubSeqProperties
      <4> QED
        BY <2>1, <3>1, <4>1
    <3> HIDE DEF other
    <3>4. \A j \in 1 .. KeepBuffer : (e + 1) + j - 1 = e + j
      BY <3>2
    <3>5. Len(other) = KeepBuffer
      BY <3>1, <3>2, <3>3
    <3>6. \A j \in 1 .. KeepBuffer : other[j] = v.buf[(e + 1) + j - 1]
      BY <3>1, <3>3
    <3> QED
      BY <3>3, <3>4, <3>5, <3>6
  <2>3. \A j \in m - KeepBuffer + 1 .. m : w.buf[j] \in Symbols
    <3>1. \A j \in m - KeepBuffer + 1 .. m : j \in 1 .. m
      BY <1>3, <1>4
    <3> QED
      BY <1>2, <3>1, ElementOfSeq
  <2>4. /\ cut \in Seq(Symbols)
        /\ Len(cut) = KeepBuffer
        /\ \A j \in 1 .. KeepBuffer : cut[j] = w.buf[m - KeepBuffer + j]
    <3>0. m \in Nat
      BY <1>2
    <3>1. m - KeepBuffer + 1 \in Int /\ m \in Int /\ m - (m - KeepBuffer + 1) + 1 = KeepBuffer
      BY <1>4, <3>0
    <3>2. /\ cut \in Seq(Symbols)
          /\ Len(cut) = IF m - KeepBuffer + 1 <= m THEN m - (m - KeepBuffer + 1) + 1 ELSE 0
          /\ \A j \in 1 .. m - (m - KeepBuffer + 1) + 1 : cut[j] = w.buf[(m - KeepBuffer + 1) + j - 1]
      BY <2>3, <3>1, SubSeqProperties
    <3> HIDE DEF cut, m
    <3>3. \A j \in 1 .. KeepBuffer : (m - KeepBuffer + 1) + j - 1 = m - KeepBuffer + j
      BY <1>4, <3>0
    <3> QED
      BY <1>4, <3>0, <3>1, <3>2, <3>3
  <2>5. \A j \in 1 .. m : w.buf[j] = v.buf[d + j]
    BY <1>2, <1>3
  <2>6. ASSUME NEW j \in 1 .. KeepBuffer PROVE cut[j] = other[j]
    <3>1. m - KeepBuffer + j \in 1 .. m /\ d + (m - KeepBuffer + j) = e + j
      BY <1>2, <1>3, <1>4
    <3> HIDE DEF cut, other, m, e
    <3> QED
      BY <2>2, <2>4, <2>5, <3>1
  <2> HIDE DEF cut, other
  <2>7. cut = other
    BY <2>2, <2>4, <2>6, SeqEqual
  <2> QED
    BY <2>7 DEF other
<1> DEFINE x == [w EXCEPT !.buf = SubSeq(@, Len(w.buf) - KeepBuffer + 1, Len(w.buf))]
<1>10. x.buf = cut /\ x.count = w.count /\ x.events = w.events
  BY DEF Readers
<1> HIDE DEF x, cut
<1>11. Behind(x, v, e)
  BY <1>2, <1>5, <1>8, <1>9, <1>10 DEF Behind
<1> QED
  BY <1>5, <1>11 DEF Alike, x

\* A piece of the output, whatever its length, adds what it holds.
LEMMA WriteAlike ==
  ASSUME NEW s \in Seq(Symbols), OnlyTextIsCut(s), NEW h, IsFeeding(h, Empty, s),
         NEW n \in 0 .. Len(s), NEW m \in 1 .. Len(s) - n,
         NEW w \in Readers, Alike(w, h[n]), NEW piece \in Seq(Symbols), Len(piece) = m,
         \A k \in 1 .. m : piece[k] = s[n + k]
  PROVE  Alike(Write(w, piece), h[n + m])
<1>1. /\ h \in [0 .. Len(s) -> Readers]
      /\ \A k \in 1 .. Len(s) : h[k] = Feed(h[k - 1], s[k])
  BY DEF IsFeeding
<1>2. PICK g : IsFeeding(g, w, piece)
  BY FeedsInSteps
<1>3. /\ g \in [0 .. m -> Readers] /\ g[0] = w /\ FoldLeft(Feed, w, piece) = g[m]
      /\ \A k \in 1 .. m : g[k] = Feed(g[k - 1], piece[k])
  BY <1>2 DEF IsFeeding
<1>4. Len(s) \in Nat /\ n \in Nat /\ m \in Nat /\ n + m \in 0 .. Len(s)
  OBVIOUS
<1> DEFINE U == {k \in 0 .. m : Alike(g[k], h[n + k])}
<1>5. 0 \in U
  BY <1>3, <1>4
<1>6. ASSUME NEW k \in 0 .. m - 1, k \in U PROVE k + 1 \in U
  <2>0. k \in Nat /\ k + 1 <= m /\ n + m <= Len(s)
    BY <1>4
  <2>1. /\ k + 1 \in 1 .. m /\ k + 1 \in 0 .. m /\ k \in 0 .. m /\ (k + 1) - 1 = k
        /\ n + (k + 1) \in 1 .. Len(s) /\ (n + (k + 1)) - 1 = n + k /\ n + k \in 0 .. Len(s)
    <3>1. /\ k + 1 \in 1 .. m /\ k + 1 \in 0 .. m /\ k \in 0 .. m /\ (k + 1) - 1 = k
      BY <1>4, <2>0
    <3>2. /\ n + (k + 1) \in 1 .. Len(s) /\ (n + (k + 1)) - 1 = n + k /\ n + k \in 0 .. Len(s)
      BY <1>4, <2>0
    <3> QED
      BY <3>1, <3>2
  <2>2. g[k + 1] = Feed(g[k], s[n + (k + 1)]) /\ h[n + (k + 1)] = Feed(h[n + k], s[n + (k + 1)])
    <3>1. g[k + 1] = Feed(g[(k + 1) - 1], piece[k + 1]) /\ piece[k + 1] = s[n + (k + 1)]
      BY <1>3, <2>1
    <3>2. h[n + (k + 1)] = Feed(h[(n + (k + 1)) - 1], s[n + (k + 1)])
      BY <1>1, <2>1
    <3> QED
      BY <2>1, <3>1, <3>2
  <2>3. g[k] \in Readers /\ h[n + k] \in Readers /\ s[n + (k + 1)] \in Symbols
    <3>1. g[k] \in Readers
      BY <1>3, <2>1
    <3>2. h[n + k] \in Readers
      BY <1>1, <2>1
    <3>3. s[n + (k + 1)] \in Symbols
      BY <2>1, ElementOfSeq
    <3> QED
      BY <3>1, <3>2, <3>3
  <2>4. Alike(g[k + 1], h[n + (k + 1)])
    BY <1>6, <2>2, <2>3, FeedAlike
  <2> QED
    BY <2>1, <2>4
<1>7. Alike(g[m], h[n + m])
  <2> HIDE DEF U
  <2>1. \A k \in 0 .. m : k \in U
    BY <1>4, <1>5, <1>6, ByInduction
  <2> QED
    BY <1>4, <2>1 DEF U
<1>8. g[m] \in Readers /\ h[n + m] \in Readers /\ LineSoFar(h[n + m], s, n + m)
  <2>1. \A k \in 0 .. Len(s) : LineSoFar(h[k], s, k)
    BY UncutIsTheLine
  <2>2. g[m] \in Readers
    BY <1>3, <1>4
  <2> QED
    BY <1>1, <1>4, <2>1, <2>2
<1>9. Write(w, piece) =
        IF Len(g[m].buf) > MaxBuffer
          THEN [g[m] EXCEPT !.buf = SubSeq(@, Len(g[m].buf) - KeepBuffer + 1, Len(g[m].buf))]
          ELSE g[m]
  BY <1>3 DEF Write
<1>10. CASE Len(g[m].buf) > MaxBuffer
  <2>1. Alike([g[m] EXCEPT !.buf = SubSeq(@, Len(g[m].buf) - KeepBuffer + 1, Len(g[m].buf))], h[n + m])
    BY <1>4, <1>7, <1>8, <1>10, CutAlike
  <2> QED
    BY <1>9, <1>10, <2>1
<1>11. CASE ~(Len(g[m].buf) > MaxBuffer)
  BY <1>7, <1>9, <1>11
<1> QED
  BY <1>10, <1>11

\* One more event counts once more.
LEMMA CountsOneMore ==
  ASSUME NEW s \in Seq(Events), NEW e \in Events
  PROVE  FoldLeft(Counted, NoTally, Append(s, e)) = Counted(FoldLeft(Counted, NoTally, s), e)
<1> DEFINE n == Len(s)
           t == Append(s, e)
<1>1. /\ t \in Seq(Events) /\ Len(t) = n + 1 /\ t[n + 1] = e /\ n \in Nat
      /\ \A k \in 1 .. n : t[k] = s[k]
  BY AppendProperties
<1> HIDE DEF t, n
<1>2. PICK g : IsCounting(g, s)
  BY CountsInSteps
<1>3. PICK h : IsCounting(h, t)
  BY <1>1, CountsInSteps
<1>4. /\ g[0] = NoTally /\ FoldLeft(Counted, NoTally, s) = g[n]
      /\ \A k \in 1 .. n : g[k] = Counted(g[k - 1], s[k])
  BY <1>2 DEF IsCounting, n
<1>5. /\ h[0] = NoTally /\ FoldLeft(Counted, NoTally, t) = h[n + 1]
      /\ \A k \in 1 .. n + 1 : h[k] = Counted(h[k - 1], t[k])
  BY <1>1, <1>3 DEF IsCounting
<1> DEFINE U == {k \in 0 .. n : g[k] = h[k]}
<1>6. \A k \in 0 .. n : k \in U
  <2>1. 0 \in U
    BY <1>1, <1>4, <1>5
  <2>2. ASSUME NEW k \in 0 .. n - 1, k \in U PROVE k + 1 \in U
    <3>1. k + 1 \in 1 .. n /\ k + 1 \in 1 .. n + 1 /\ (k + 1) - 1 = k /\ k + 1 \in 0 .. n
      BY <1>1
    <3>2. g[k + 1] = Counted(g[k], s[k + 1]) /\ h[k + 1] = Counted(h[k], s[k + 1])
      BY <1>1, <1>4, <1>5, <3>1
    <3> QED
      BY <2>2, <3>1, <3>2
  <2> HIDE DEF U
  <2> QED
    BY <1>1, <2>1, <2>2, ByInduction
<1>7. g[n] = h[n]
  BY <1>1, <1>6
<1>8. n + 1 \in 1 .. n + 1 /\ (n + 1) - 1 = n
  BY <1>1
<1>9. h[n + 1] = Counted(h[n], e)
  BY <1>1, <1>5, <1>8
<1> QED
  BY <1>4, <1>5, <1>7, <1>9 DEF t

\* What a reader remembers after n symbols, when it cuts no line.
Ideal == CHOOSE h : IsFeeding(h, Empty, command.stream)

\* The writer has read the first n symbols, the report is written after all of them.
HasRead(n) ==
  /\ code # "failed" => todo = SubSeq(command.stream, n + 1, Len(command.stream))
  /\ report # "none" => n = Len(command.stream)
  /\ Alike(reader, Ideal[n]) \/ (n = Len(command.stream) /\ Alike(reader, Whole(command.stream)))

\* The view shows the events that are no longer due, and a run that succeeds has
\* read everything.
CountInv ==
  /\ code = "none" \/ client = "exited" \/ container = "gone"
  /\ ~Converge =>
       /\ \E counted \in Seq(Events) : /\ reader.events = counted \o due
                                       /\ tally = FoldLeft(Counted, NoTally, counted)
       /\ OnlyTextIsCut(command.stream) =>
            /\ \/ exec \in {"flush", "returned"} /\ report = "none"
               \/ \E n \in 0 .. Len(command.stream) : HasRead(n)
            /\ result = "ok" => due = <<>> /\ reader.events = Whole(command.stream).events

LEMMA EmptyType == Empty \in Readers /\ Empty.buf = <<>> /\ Empty.events = <<>>
  BY DEF Empty, Readers

LEMMA IdealIsRead ==
  ASSUME command.stream \in Seq(Symbols)
  PROVE  /\ IsFeeding(Ideal, Empty, command.stream)
         /\ Ideal \in [0 .. Len(command.stream) -> Readers] /\ Ideal[0] = Empty
         /\ Whole(command.stream) = Flush(Ideal[Len(command.stream)])
         /\ Whole(command.stream) \in Readers
<1>1. IsFeeding(Ideal, Empty, command.stream)
  BY EmptyType, FeedsInSteps DEF Ideal
<1>2. /\ Ideal \in [0 .. Len(command.stream) -> Readers] /\ Ideal[0] = Empty
      /\ FoldLeft(Feed, Empty, command.stream) = Ideal[Len(command.stream)]
  BY <1>1 DEF IsFeeding
<1>3. Ideal[Len(command.stream)] \in Readers
  <2>1. Len(command.stream) \in 0 .. Len(command.stream)
    OBVIOUS
  <2> QED
    BY <1>2, <2>1
<1> QED
  BY <1>1, <1>2, <1>3, FlushType DEF Whole

LEMMA CountInit == Init => CountInv
<1> SUFFICES ASSUME Init PROVE CountInv
    OBVIOUS
<1>1. code = "none" /\ report = "none" /\ result = "none" /\ reader = Empty /\ due = <<>>
      /\ tally = NoTally /\ todo = command.stream /\ mode = command.mode
  BY DEF Init
<1>2. CASE ~Converge
  <2>1. command.stream \in Seq(Symbols)
    BY <1>1, <1>2, CommandType DEF Converge, Init
  <2>2. reader.events = <<>> \o due /\ <<>> \in Seq(Events)
    BY <1>1, EmptyType
  <2>3. tally = FoldLeft(Counted, NoTally, <<>>)
    <3>1. PICK g : IsCounting(g, <<>>)
      BY <2>2, CountsInSteps
    <3>2. g[0] = NoTally /\ FoldLeft(Counted, NoTally, <<>>) = g[Len(<<>>)]
      BY <3>1 DEF IsCounting
    <3>3. Len(<<>>) = 0
      OBVIOUS
    <3> QED
      BY <1>1, <3>2, <3>3
  <2>4. HasRead(0)
    <3>1. Alike(reader, Ideal[0])
      BY <1>1, <2>1, IdealIsRead, EmptyType, SameIsAlike DEF Readers
    <3>2. SubSeq(command.stream, 0 + 1, Len(command.stream)) = command.stream
      BY <2>1, SubSeqFull
    <3> QED
      BY <1>1, <3>1, <3>2 DEF HasRead
  <2>5. 0 \in 0 .. Len(command.stream)
    BY <2>1
  <2> QED
    BY <1>1, <2>2, <2>3, <2>4, <2>5 DEF CountInv
<1> QED
  BY <1>1, <1>2 DEF CountInv

\* What a step that reads nothing keeps of the two halves of CountInv.
Reading ==
  OnlyTextIsCut(command.stream) =>
    /\ \/ exec \in {"flush", "returned"} /\ report = "none"
       \/ \E n \in 0 .. Len(command.stream) : HasRead(n)
    /\ result = "ok" => due = <<>> /\ reader.events = Whole(command.stream).events

Showing ==
  \E counted \in Seq(Events) : /\ reader.events = counted \o due
                               /\ tally = FoldLeft(Counted, NoTally, counted)

LEMMA TheRest ==
  ASSUME NEW E, NEW q \in Seq(E), NEW i \in 0 .. Len(q)
  PROVE  /\ SubSeq(q, i + 1, Len(q)) \in Seq(E)
         /\ Len(SubSeq(q, i + 1, Len(q))) = Len(q) - i
         /\ \A k \in 1 .. Len(q) - i : SubSeq(q, i + 1, Len(q))[k] = q[i + k]
  OBVIOUS

LEMMA ReadAdds ==
  ASSUME EngineInv, DataInv, CountInv, ~Converge, Read
  PROVE  Showing' /\ Reading'
<1>1. PICK m \in 1 .. Len(todo) :
        /\ Output(m)
        /\ reader' = Write(reader, SubSeq(todo, 1, m))
        /\ due' = SubSeq(reader'.events, Len(reader.events) + 1, Len(reader'.events))
  BY DEF Read
<1>2. /\ due = <<>> /\ UNCHANGED <<command, tally, exec, report, result, code>>
      /\ todo' = SubSeq(todo, m + 1, Len(todo)) /\ Alive
  BY <1>1 DEF Read, Handled, Output
<1>3. todo \in Seq(Symbols) /\ reader \in Readers /\ mode = command.mode /\ command \in Commands
  BY DEF DataInv, EngineInv
<1>4. command.stream \in Seq(Symbols)
  BY <1>3, CommandType DEF Converge
<1> DEFINE piece == SubSeq(todo, 1, m)
           s     == command.stream
           N     == Len(s)
<1>5. /\ piece \in Seq(Symbols) /\ Len(piece) = m /\ m \in Nat
      /\ \A k \in 1 .. m : piece[k] = todo[k]
  BY <1>3
<1>6. reader' \in Readers /\ Extends(reader', reader)
  BY <1>1, <1>3, <1>5, WriteType
<1>7. Showing'
  <2>1. PICK counted \in Seq(Events) : /\ reader.events = counted \o due
                                       /\ tally = FoldLeft(Counted, NoTally, counted)
    BY DEF CountInv
  <2>2. reader.events = counted
    BY <1>2, <2>1, ConcatEmptySeq
  <2>3. reader'.events = counted \o due'
    BY <1>1, <1>3, <1>6, <2>2, NewEvents
  <2> QED
    BY <1>2, <2>1, <2>3 DEF Showing
<1>8. Reading'
  <2> SUFFICES ASSUME OnlyTextIsCut(s)
               PROVE  /\ \E n \in 0 .. N : HasRead(n)'
                      /\ result # "ok"
      BY <1>2 DEF Reading
  <2>1. exec \notin {"flush", "returned"} /\ code = "none"
    BY <1>2 DEF Alive, EngineInv, EngineTypeOK, Modes, CountInv
  <2>2. result # "ok"
    BY <2>1 DEF EngineInv
  <2>3. PICK n \in 0 .. N : HasRead(n)
    BY <2>1 DEF CountInv
  <2>4. todo = SubSeq(s, n + 1, N)
    BY <2>1, <2>3 DEF HasRead
  <2>5. N \in Nat /\ n \in Nat
    BY <1>4
  <2>6. /\ Len(todo) = N - n
        /\ \A k \in 1 .. N - n : todo[k] = s[n + k]
    BY <1>4, <2>4
  <2>7. m \in 1 .. N - n /\ n + m \in 0 .. N /\ n # N
    BY <2>5, <2>6
  <2>8. Alike(reader, Ideal[n]) /\ report = "none"
    BY <2>3, <2>7, <2>1 DEF HasRead, EngineInv, EngineTypeOK, Amounts
  <2>9. \A k \in 1 .. m : piece[k] = s[n + k]
    <3> SUFFICES ASSUME NEW k \in 1 .. m PROVE piece[k] = s[n + k]
        OBVIOUS
    <3>1. k \in 1 .. N - n
      BY <1>5, <2>5, <2>7
    <3> HIDE DEF piece, N
    <3> QED
      BY <1>5, <2>6, <3>1
  <2>10. Alike(reader', Ideal[n + m])
    BY <1>1, <1>3, <1>4, <1>5, <2>7, <2>8, <2>9, IdealIsRead, WriteAlike
  <2>11. todo' = SubSeq(s, (n + m) + 1, N)
    <3> DEFINE a == SubSeq(todo, m + 1, Len(todo))
               b == SubSeq(s, (n + m) + 1, N)
    <3>1. /\ a \in Seq(Symbols) /\ Len(a) = N - n - m
          /\ \A k \in 1 .. N - n - m : a[k] = todo[m + k]
      <4>1. m \in 0 .. Len(todo) /\ Len(todo) - m = N - n - m
        BY <1>5, <2>5, <2>6, <2>7
      <4> HIDE DEF N
      <4> QED
        BY <1>3, <4>1, TheRest
    <3>2. /\ b \in Seq(Symbols) /\ Len(b) = N - n - m
          /\ \A k \in 1 .. N - n - m : b[k] = s[(n + m) + k]
      <4>1. N - (n + m) = N - n - m
        BY <1>5, <2>5
      <4> QED
        BY <1>4, <2>7, <4>1, TheRest
    <3>3. ASSUME NEW k \in 1 .. N - n - m PROVE a[k] = b[k]
      <4>1. m + k \in 1 .. N - n /\ n + (m + k) = (n + m) + k
        BY <1>5, <2>5, <2>7
      <4> HIDE DEF a, b, N
      <4>2. todo[m + k] = s[n + (m + k)]
        BY <2>6, <4>1
      <4> QED
        BY <3>1, <3>2, <4>1, <4>2
    <3> HIDE DEF a, b, N
    <3>4. a = b
      BY <3>1, <3>2, <3>3, SeqEqual
    <3> QED
      BY <1>2, <3>4 DEF a, b
  <2>12. Ideal' = Ideal
    BY <1>2 DEF Ideal
  <2>13. HasRead(n + m)'
    BY <1>2, <2>8, <2>10, <2>11, <2>12 DEF HasRead
  <2> QED
    BY <2>2, <2>7, <2>13
<1> QED
  BY <1>7, <1>8

LEMMA FlushAdds ==
  ASSUME EngineInv, DataInv, CountInv, FlushOutput
  PROVE  Showing' /\ Reading'
<1>1. /\ exec = "flush" /\ reader.buf # <<>> /\ reader' = Flush(reader)
      /\ due' = SubSeq(reader'.events, Len(reader.events) + 1, Len(reader'.events))
      /\ UNCHANGED <<command, tally, exec, report, result, code, todo>>
  BY DEF FlushOutput, engine
<1>2. ~Converge /\ due = <<>> /\ reader \in Readers /\ command \in Commands /\ mode = command.mode
      /\ result # "ok"
  BY <1>1 DEF DataInv, EngineInv
<1>3. command.stream \in Seq(Symbols)
  BY <1>2, CommandType DEF Converge
<1>4. reader' \in Readers /\ Extends(reader', reader)
  BY <1>1, <1>2, FlushType
<1>5. Showing'
  <2>1. PICK counted \in Seq(Events) : /\ reader.events = counted \o due
                                       /\ tally = FoldLeft(Counted, NoTally, counted)
    BY <1>2 DEF CountInv
  <2>2. reader.events = counted
    BY <1>2, <2>1, ConcatEmptySeq
  <2>3. reader'.events = counted \o due'
    BY <1>1, <1>2, <1>4, <2>2, NewEvents
  <2> QED
    BY <1>1, <2>1, <2>3 DEF Showing
<1>6. Reading'
  <2> SUFFICES ASSUME OnlyTextIsCut(command.stream), report # "none"
               PROVE  \E n \in 0 .. Len(command.stream) : HasRead(n)'
      BY <1>1, <1>2 DEF Reading
  <2>1. PICK n \in 0 .. Len(command.stream) : HasRead(n)
    BY <1>2 DEF CountInv
  <2>2. n = Len(command.stream)
        /\ (Alike(reader, Ideal[n]) \/ Alike(reader, Whole(command.stream)))
    BY <2>1 DEF HasRead
  <2>3. Alike(reader', Whole(command.stream))
    <3>1. CASE Alike(reader, Ideal[n])
      <4>1. Ideal[n] \in Readers /\ Whole(command.stream) = Flush(Ideal[n])
        BY <1>3, <2>2, IdealIsRead
      <4> QED
        BY <1>1, <1>2, <3>1, <4>1, FlushAlike
    <3>2. CASE Alike(reader, Whole(command.stream))
      <4>1. Whole(command.stream) \in Readers /\ Whole(command.stream).buf = <<>>
        <5>1. Len(command.stream) \in 0 .. Len(command.stream)
          BY <1>3
        <5>2. Ideal[Len(command.stream)] \in Readers
          BY <1>3, <5>1, IdealIsRead
        <5> QED
          BY <1>3, <5>2, IdealIsRead, FlushType
      <4>2. Alike(Flush(reader), Flush(Whole(command.stream)))
        BY <1>2, <3>2, <4>1, FlushAlike
      <4> QED
        BY <1>1, <4>1, <4>2 DEF Flush
    <3> QED
      BY <2>2, <3>1, <3>2
  <2>4. Whole(command.stream)' = Whole(command.stream)
    BY <1>1
  <2>5. HasRead(n)'
    BY <1>1, <2>1, <2>2, <2>3, <2>4 DEF HasRead
  <2> QED
    BY <1>1, <2>5
<1> QED
  BY <1>5, <1>6

\* The run that ends well has read its whole output.
LEMMA ReturnedHasRead ==
  ASSUME EngineInv, DataInv, CountInv, ~Converge, Returned
  PROVE  Reading'
<1>1. /\ exec = "flush" /\ reader.buf = <<>> /\ due = <<>>
      /\ result' = ResultOf /\ exec' = "returned"
      /\ UNCHANGED <<command, reader, due, code, todo, report>>
  BY DEF Returned, Return, Handled, own, view
<1>2. command.stream \in Seq(Symbols) /\ reader \in Readers
  BY CommandType DEF DataInv, EngineInv, Converge
<1> SUFFICES ASSUME OnlyTextIsCut(command.stream) PROVE Reading'
    BY <1>1 DEF Reading
<1>3. CASE report = "none"
  <2>1. ResultOf = "error"
    BY <1>3 DEF ResultOf, Converge
  <2> QED
    BY <1>1, <1>3, <2>1 DEF Reading
<1>4. CASE report # "none"
  <2>1. PICK n \in 0 .. Len(command.stream) : HasRead(n)
    BY <1>4 DEF CountInv
  <2>2. n = Len(command.stream)
        /\ (Alike(reader, Ideal[n]) \/ Alike(reader, Whole(command.stream)))
    BY <1>4, <2>1 DEF HasRead
  <2>3. Alike(reader, Whole(command.stream))
    <3>1. CASE Alike(reader, Ideal[n])
      <4>1. Ideal[n] \in Readers /\ Whole(command.stream) = Flush(Ideal[n])
        BY <1>2, <2>2, IdealIsRead
      <4>2. Flush(reader) = reader
        BY <1>1 DEF Flush
      <4> QED
        BY <1>2, <3>1, <4>1, <4>2, FlushAlike
    <3> QED
      BY <2>2, <3>1
  <2>4. reader.events = Whole(command.stream).events
    BY <2>3 DEF Alike, Behind
  <2>5. HasRead(n)'
    <3>1. Ideal' = Ideal
      BY <1>1 DEF Ideal
    <3> QED
      BY <1>1, <2>1, <3>1 DEF HasRead
  <2> QED
    BY <1>1, <2>4, <2>5 DEF Reading
<1> QED
  BY <1>3, <1>4

\* A step that touches neither the reader nor the view.
LEMMA EngineKeepsCount ==
  ASSUME CountInv, ~Converge, UNCHANGED <<command, mode, reader, due, tally>>,
         result' \in {result, "error"}, code' = "failed" \/ UNCHANGED <<code, todo>>,
         report' = report,
         exec \in {"flush", "returned"} => exec' \in {"flush", "returned"}
  PROVE  Showing' /\ Reading'
<1>1. Ideal' = Ideal
  BY DEF Ideal
<1>2. \A n \in 0 .. Len(command.stream) : HasRead(n) => HasRead(n)'
  BY <1>1 DEF HasRead
<1>3. Showing'
  BY DEF CountInv, Showing
<1>4. Reading'
  BY <1>2 DEF CountInv, Reading
<1> QED
  BY <1>3, <1>4

LEMMA ModeStays == [Next]_vars => mode' = mode /\ Converge' = Converge
  BY DEF Next, Main, vars, engine, Begin, NextPhase, PhaseFails, Audit, BeginConverge, StagingFails,
     StartExec, Waited, WaitReturns, Drained, Abandoned, Abandon, RemoveContainer, FlushOutput,
     Returned, Return, Over, Finish, Clean, Summary, Program, Create, ClientExits, WriteReport,
     ProgramEnds, Ends, Expire, Kill, Resizes, Read, Output, TakeView, CountEvent, ReadLine, Ticking,
     Printing, Converge

LEMMA CountsNext == EngineInv /\ DataInv /\ CountInv /\ [Next]_vars => CountInv'
<1> SUFFICES ASSUME EngineInv, DataInv, CountInv, [Next]_vars PROVE CountInv'
    OBVIOUS
<1> DEFINE Ended1 == code = "none" \/ client = "exited" \/ container = "gone"
<1>1. CountInv' <=> Ended1' /\ (~Converge' => Showing' /\ Reading')
  BY DEF CountInv, Showing, Reading
<1>2. Ended1 /\ (~Converge => Showing /\ Reading)
  BY DEF CountInv, Showing, Reading
<1>3. mode' = mode /\ Converge' = Converge
  BY ModeStays
<1> HIDE DEF Ended1
<1>4. CASE UNCHANGED <<engine, command, reader, due, tally>>
  <2>1. Ended1' = Ended1
    BY <1>4 DEF Ended1, engine
  <2>2. ~Converge => Showing' /\ Reading'
    BY <1>4, EngineKeepsCount DEF engine
  <2> QED
    BY <1>1, <1>2, <1>3, <2>1, <2>2
<1>5. CASE PhaseFails \/ StagingFails \/ Audit \/ BeginConverge \/ Waited
  <2>1. /\ UNCHANGED <<command, reader, due, tally, code, todo, report, container>>
        /\ result' \in {result, "error"}
        /\ exec \in {"flush", "returned"} => exec' \in {"flush", "returned"}
        /\ client' = client \/ client = "none"
    BY <1>5 DEF PhaseFails, StagingFails, Audit, BeginConverge, StartExec, Waited, WaitReturns,
       Drained, own, view, EngineInv
  <2>2. Ended1'
    BY <1>2, <2>1 DEF Ended1, EngineInv
  <2>3. ~Converge => Showing' /\ Reading'
    BY <1>3, <2>1, EngineKeepsCount
  <2> QED
    BY <1>1, <1>3, <2>2, <2>3
<1>6. CASE Abandoned \/ Ends
  <2>1. /\ UNCHANGED <<command, reader, due, tally, report, result>>
        /\ code' = "failed" \/ UNCHANGED <<code, todo>>
        /\ exec \in {"flush", "returned"} => exec' \in {"flush", "returned"}
    BY <1>6 DEF Abandoned, Abandon, RemoveContainer, Ends, Expire, Kill, own, view
  <2>2. Ended1'
    BY <1>2, <1>6 DEF Abandoned, Abandon, RemoveContainer, Ends, Expire, Kill, Ended1
  <2>3. ~Converge => Showing' /\ Reading'
    BY <1>3, <2>1, EngineKeepsCount
  <2> QED
    BY <1>1, <1>3, <2>2, <2>3
<1>7. CASE FlushOutput
  <2>1. Ended1' = Ended1
    BY <1>7 DEF FlushOutput, Ended1, engine
  <2> QED
    BY <1>1, <1>2, <1>7, <2>1, FlushAdds
<1>8. CASE Returned
  <2>1. UNCHANGED <<command, code, client, container, reader, due, tally>>
    BY <1>8 DEF Returned, Return, own, view
  <2>2. Ended1' /\ (~Converge => Showing')
    BY <1>2, <2>1 DEF Ended1, Showing
  <2> QED
    BY <1>1, <1>3, <1>8, <2>2, ReturnedHasRead
<1>9. CASE Read
  <2>1. Ended1'
    BY <1>2, <1>9 DEF Read, Output, Ended1
  <2> QED
    BY <1>1, <1>3, <1>9, <2>1, ReadAdds
<1>10. CASE Program
  <2>1. UNCHANGED <<command, reader, due, tally, exec, result>>
    BY <1>10 DEF Program, Create, ClientExits, WriteReport, ProgramEnds, own, view
  <2>2. CASE (Create \/ ClientExits) /\ UNCHANGED <<region, own>>
    <3>1. UNCHANGED report /\ (code' = "failed" \/ UNCHANGED <<code, todo>>)
      BY <2>2 DEF Create, ClientExits
    <3>2. Ended1'
      BY <1>2, <2>2 DEF Create, ClientExits, Ended1
    <3> QED
      BY <1>1, <1>3, <2>1, <3>1, <3>2, EngineKeepsCount
  <2>3. CASE ProgramEnds /\ UNCHANGED <<region, own>>
    <3>1. UNCHANGED report /\ (code' = "failed" \/ (todo = <<>> /\ todo' = <<>>)) /\ Alive
      BY <2>3 DEF ProgramEnds
    <3>2. Ended1'
      BY <2>3, <1>3 DEF ProgramEnds, Ended1
    <3>3. code # "failed"
      BY <1>2, <3>1 DEF Alive, EngineInv, EngineTypeOK, Modes, Ended1
    <3>4. Ideal' = Ideal
      BY <2>1 DEF Ideal
    <3>5. \A n \in 0 .. Len(command.stream) : HasRead(n) => HasRead(n)'
      BY <2>1, <3>1, <3>3, <3>4 DEF HasRead
    <3>6. ~Converge => Showing' /\ Reading'
      <4>1. Showing' = Showing
        BY <2>1 DEF Showing
      <4>2. ~Converge => Reading'
        BY <1>2, <2>1, <3>1, <3>5 DEF Reading
      <4> QED
        BY <1>2, <4>1, <4>2
    <3> QED
      BY <1>1, <1>3, <3>2, <3>6
  <2>4. CASE WriteReport /\ UNCHANGED <<region, own>>
    <3>1. Alive /\ todo = <<>> /\ UNCHANGED <<client, container, code, todo>> /\ ~Converge
      BY <2>4 DEF WriteReport, Converge
    <3>2. Ended1'
      BY <1>2, <3>1 DEF Ended1
    <3>3. code # "failed" /\ exec \notin {"flush", "returned"}
      BY <1>2, <3>1 DEF Alive, EngineInv, EngineTypeOK, Modes, Ended1
    <3>4. Showing'
      BY <1>2, <2>1, <3>1 DEF Showing
    <3>5. Reading'
      <4> SUFFICES ASSUME OnlyTextIsCut(command.stream) PROVE Reading'
          BY <2>1 DEF Reading
      <4>1. PICK n \in 0 .. Len(command.stream) : HasRead(n)
        BY <1>2, <3>1, <3>3 DEF Reading
      <4>2. command.stream \in Seq(Symbols)
        BY <3>1, CommandType DEF DataInv, EngineInv, Converge
      <4>3. SubSeq(command.stream, n + 1, Len(command.stream)) = <<>>
        BY <3>1, <3>3, <4>1 DEF HasRead
      <4>4. Len(SubSeq(command.stream, n + 1, Len(command.stream))) = Len(command.stream) - n
        BY <4>2, TheRest
      <4>5. n = Len(command.stream)
        <5>1. Len(<<>>) = 0 /\ Len(command.stream) \in Nat
          BY <4>2
        <5>2. Len(command.stream) - n = 0
          BY <4>3, <4>4, <5>1
        <5> QED
          BY <5>1, <5>2
      <4>6. Ideal' = Ideal
        BY <2>1 DEF Ideal
      <4>7. HasRead(n)'
        BY <2>1, <3>1, <4>1, <4>5, <4>6 DEF HasRead
      <4> QED
        BY <1>2, <2>1, <3>1, <4>7 DEF Reading
    <3> QED
      BY <1>1, <3>2, <3>4, <3>5
  <2> QED
    BY <1>10, <2>2, <2>3, <2>4 DEF Program
<1>11. CASE CountEvent
  <2>1. /\ viewer # "none" /\ ~Converge
        /\ tally' = Counted(tally, Head(due)) /\ due' = Tail(due)
        /\ UNCHANGED <<command, reader, exec, client, container, code, todo, report, result>>
    BY <1>11 DEF CountEvent, engine
  <2>2. due # <<>> /\ due \in Seq(Events)
    BY <2>1 DEF DataInv
  <2>3. Ended1'
    BY <1>2, <2>1 DEF Ended1
  <2>4. Showing'
    <3>1. PICK counted \in Seq(Events) : /\ reader.events = counted \o due
                                         /\ tally = FoldLeft(Counted, NoTally, counted)
      BY <1>2, <2>1 DEF Showing
    <3>2. /\ Head(due) \in Events /\ Tail(due) \in Seq(Events) /\ due = <<Head(due)>> \o Tail(due)
      BY <2>2, HeadTailProperties
    <3>3. Append(counted, Head(due)) = counted \o <<Head(due)>>
          /\ Append(counted, Head(due)) \in Seq(Events)
      BY <3>2, AppendIsConcat
    <3>4. <<Head(due)>> \in Seq(Events)
      BY <3>2
    <3>5. \A a, b, c \in Seq(Events) : (a \o b) \o c = a \o (b \o c)
      BY Associates, SMTT(20)
    <3>6. (counted \o <<Head(due)>>) \o Tail(due) = counted \o (<<Head(due)>> \o Tail(due))
      BY <3>2, <3>4, <3>5
    <3>7. reader.events = Append(counted, Head(due)) \o Tail(due)
      BY <3>1, <3>2, <3>3, <3>6, Zenon
    <3>8. Counted(tally, Head(due)) = FoldLeft(Counted, NoTally, Append(counted, Head(due)))
      BY <3>1, <3>2, CountsOneMore
    <3> QED
      BY <2>1, <3>3, <3>7, <3>8 DEF Showing
  <2>5. Reading'
    <3>1. Ideal' = Ideal
      BY <2>1 DEF Ideal
    <3>2. \A n \in 0 .. Len(command.stream) : HasRead(n) => HasRead(n)'
      BY <2>1, <3>1 DEF HasRead
    <3> QED
      BY <1>2, <2>1, <2>2, <3>2 DEF Reading
  <2> QED
    BY <1>1, <2>3, <2>4, <2>5
<1>12. CASE ReadLine
  <2>1. Converge /\ UNCHANGED engine
    BY <1>12 DEF ReadLine
  <2>2. Ended1' = Ended1
    BY <2>1 DEF engine, Ended1
  <2> QED
    BY <1>1, <1>2, <1>3, <2>1, <2>2
<1>13. CASE Begin \/ NextPhase \/ Over \/ Finish \/ Clean \/ Summary \/ TakeView \/ Resizes \/ Ticking
            \/ \E a \in Actors : Printing(a)
  <2>1. UNCHANGED <<engine, command, reader, due, tally>>
    BY <1>13 DEF Begin, NextPhase, Over, Finish, Clean, Summary, TakeView, Resizes, Ticking, Printing,
       own, view
  <2> QED
    BY <1>4, <2>1
<1>14. CASE UNCHANGED vars
  BY <1>4, <1>14 DEF vars, own, view
<1> QED
  BY <1>5, <1>6, <1>7, <1>8, <1>9, <1>10, <1>11, <1>12, <1>13, <1>14 DEF Next, Main

\* What a scan shows at the end are the counts of its whole output.
LEMMA ScanCounts ==
  ASSUME DataInv, CountInv, ~Converge, OnlyTextIsCut(command.stream)
  PROVE  CountsAreRight
<1> SUFFICES ASSUME result = "ok"
             PROVE  tally = FoldLeft(Counted, NoTally, Whole(command.stream).events)
    BY DEF CountsAreRight
<1>1. PICK counted \in Seq(Events) : /\ reader.events = counted \o due
                                     /\ tally = FoldLeft(Counted, NoTally, counted)
  BY DEF CountInv
<1>2. due = <<>> /\ reader.events = Whole(command.stream).events
  BY DEF CountInv
<1>3. reader.events = counted
  BY <1>1, <1>2, ConcatEmptySeq
<1> QED
  BY <1>1, <1>2, <1>3

----------------------------------------------------------------------------
(* The view of a converge.                                                 *)

Started == [name : STRING, journal : BOOLEAN, changes : Nat, inDiff : BOOLEAN]
Views   == [total : Nat, seen : Nat, updated : Nat, upToDate : Nat, skipped : Nat,
            cur : Started \union {NoResource}]

\* The view after a line.
After(v, line) == FinishRes(OneLine(v, line), Ended(v, line))

LEMMA LineFields ==
  ASSUME NEW x \in Lines
  PROVE  /\ x.is \in {"total", "log", "resource", "diff", "change", "done", "other"}
         /\ x.is = "total" => x.n \in Nat
         /\ x.is = "change" => x.sentence \in BOOLEAN
         /\ x.is = "resource" => x.name \in STRING /\ x.journal \in BOOLEAN
                                 /\ x.note \in {"none", "skipped", "up to date"}
<1>1. CASE x \in {Diff, Done, Other}
  <2>1. x.is \in {"diff", "done", "other"}
    BY <1>1 DEF Diff, Done, Other
  <2> QED
    BY <2>1
<1>2. CASE x \in [is : {"total"}, n : Nat]
  BY <1>2
<1>3. CASE x \in [is : {"change"}, sentence : BOOLEAN]
  BY <1>3
<1>4. CASE x \in [is : {"resource"}, name : STRING, note : {"none", "skipped", "up to date"},
                  journal : BOOLEAN]
  BY <1>4
<1>5. CASE x \in [is : {"log"}, plan : BOOLEAN]
  BY <1>5
<1> QED
  BY <1>1, <1>2, <1>3, <1>4, <1>5 DEF Lines

\* Changes of several fields, one after the other.
LEMMA ViewChanges ==
  ASSUME NEW v \in Views
  PROVE  /\ v.seen \in Nat /\ v.updated \in Nat /\ v.upToDate \in Nat /\ v.skipped \in Nat
         /\ v.cur \in Started \union {NoResource}
         /\ \A k \in Nat : /\ [v EXCEPT !.seen = k] \in Views /\ [v EXCEPT !.upToDate = k] \in Views
                           /\ [v EXCEPT !.skipped = k] \in Views
         /\ \A c \in Started \union {NoResource} : [v EXCEPT !.cur = c] \in Views
  BY DEF Views

LEMMA StartedChanges ==
  ASSUME NEW c \in Started
  PROVE  /\ c.changes \in Nat /\ c.inDiff \in BOOLEAN
         /\ [c EXCEPT !.inDiff = TRUE] \in Started /\ [c EXCEPT !.inDiff = FALSE] \in Started
         /\ \A k \in Nat : [c EXCEPT !.changes = k] \in Started
  BY DEF Started

LEMMA StartedIsNone == \A r \in Started : r # NoResource
<1> SUFFICES ASSUME NEW r \in Started, r = NoResource PROVE FALSE
    OBVIOUS
<1>1. DOMAIN r = {"name", "journal", "changes", "inDiff"}
  BY DEF Started
<1>2. DOMAIN NoResource = {"name"}
  BY DEF NoResource
<1> QED
  BY <1>1, <1>2

LEMMA BegunType ==
  ASSUME NEW x \in Lines, x.is = "resource"
  PROVE  Begun(x) \in Started
  BY LineFields DEF Begun, Started

\* The resource that is open after a line.
NextCur(c, x) ==
  IF x.is = "resource" /\ x.note = "none" THEN Begun(x)
  ELSE IF EndsResource(x) \/ c = NoResource THEN NoResource
  ELSE IF x.is = "diff" THEN [c EXCEPT !.inDiff = TRUE]
  ELSE IF x.is = "change" /\ ~(c.inDiff /\ ~x.sentence)
       THEN [c EXCEPT !.inDiff = FALSE, !.changes = @ + 1]
  ELSE c

Balanced(v) == v.seen = v.updated + v.upToDate + v.skipped + IF v.cur = NoResource THEN 0 ELSE 1

LEMMA OneLineIs ==
  ASSUME NEW v \in Views, NEW x \in Lines
  PROVE  /\ OneLine(v, x) \in Views
         /\ OneLine(v, x).cur = NextCur(v.cur, x)
         /\ OneLine(v, x).updated = v.updated
         /\ Balanced(v) =>
              LET w == OneLine(v, x)
              IN  w.seen = w.updated + w.upToDate + w.skipped
                             + (IF w.cur = NoResource THEN 0 ELSE 1)
                             + (IF Ended(v, x) = NoResource THEN 0 ELSE 1)
<1> DEFINE w == OneLine(v, x)
<1>0. /\ v.total \in Nat /\ v.seen \in Nat /\ v.updated \in Nat /\ v.upToDate \in Nat
      /\ v.skipped \in Nat /\ v.cur \in Started \union {NoResource}
  BY DEF Views
<1>1. CASE x.is = "total"
  <2>1. w = [v EXCEPT !.total = x.n]
    BY <1>1 DEF OneLine
  <2>2. NextCur(v.cur, x) = v.cur /\ Ended(v, x) = NoResource
    BY <1>1 DEF NextCur, Ended, EndsResource
  <2>3. x.n \in Nat
    BY <1>1, LineFields
  <2> HIDE DEF w
  <2>4. /\ w \in Views /\ w.cur = v.cur /\ w.updated = v.updated /\ w.seen = v.seen
        /\ w.upToDate = v.upToDate /\ w.skipped = v.skipped
    BY <2>1, <2>3 DEF Views
  <2> QED
    BY <1>0, <2>2, <2>4 DEF Balanced, w
<1>2. CASE x.is = "log"
  <2>1. w = [v EXCEPT !.seen = @ + 1, !.upToDate = @ + 1, !.cur = NoResource]
    BY <1>2 DEF OneLine
  <2>2. NextCur(v.cur, x) = NoResource /\ Ended(v, x) = v.cur
    BY <1>2 DEF NextCur, Ended, EndsResource
  <2> HIDE DEF w
  <2>3. v.seen + 1 \in Nat /\ v.upToDate + 1 \in Nat
    BY <1>0
  <2>4. /\ w.cur = NoResource /\ w.updated = v.updated /\ w.seen = v.seen + 1
        /\ w.upToDate = v.upToDate + 1 /\ w.skipped = v.skipped
    BY <2>1 DEF Views
  <2>5. w \in Views
    <3> DEFINE p == [v EXCEPT !.seen = v.seen + 1]
               q == [p EXCEPT !.upToDate = v.upToDate + 1]
    <3>1. w = [q EXCEPT !.cur = NoResource]
      BY <2>1 DEF Views
    <3>2. p \in Views
      BY <2>3, ViewChanges
    <3> HIDE DEF p
    <3>3. q \in Views
      BY <2>3, <3>2, ViewChanges
    <3> HIDE DEF q
    <3> QED
      BY <3>1, <3>3, ViewChanges
  <2> QED
    BY <1>0, <2>2, <2>4, <2>5 DEF Balanced, w
<1>3. CASE x.is = "resource"
  <2>1. w = [v EXCEPT !.seen     = @ + 1,
                      !.upToDate = IF x.note = "up to date" THEN @ + 1 ELSE @,
                      !.skipped  = IF x.note = "skipped" THEN @ + 1 ELSE @,
                      !.cur      = IF x.note = "none" THEN Begun(x) ELSE NoResource]
    BY <1>3 DEF OneLine
  <2>2. NextCur(v.cur, x) = (IF x.note = "none" THEN Begun(x) ELSE NoResource) /\ Ended(v, x) = v.cur
    BY <1>3 DEF NextCur, Ended, EndsResource
  <2>3. Begun(x) \in Started /\ Begun(x) # NoResource /\ x.note \in {"none", "skipped", "up to date"}
    BY <1>3, LineFields, BegunType, StartedIsNone
  <2> HIDE DEF w
  <2> DEFINE d == IF x.note = "up to date" THEN v.upToDate + 1 ELSE v.upToDate
             k == IF x.note = "skipped" THEN v.skipped + 1 ELSE v.skipped
             c == IF x.note = "none" THEN Begun(x) ELSE NoResource
  <2>4. /\ w.cur = c /\ w.updated = v.updated /\ w.seen = v.seen + 1
        /\ w.upToDate = d /\ w.skipped = k
    BY <2>1 DEF Views
  <2>8. w \in Views
    <3>1. v.seen + 1 \in Nat /\ d \in Nat /\ k \in Nat /\ c \in Started \union {NoResource}
      <4>1. v.seen + 1 \in Nat /\ v.upToDate + 1 \in Nat /\ v.skipped + 1 \in Nat
        BY <1>0
      <4>2. d \in Nat
        BY <1>0, <4>1, Zenon
      <4>3. k \in Nat
        BY <1>0, <4>1, Zenon
      <4>4. c \in Started \union {NoResource}
        BY <2>3, Zenon
      <4> QED
        BY <4>1, <4>2, <4>3, <4>4, Zenon
    <3> DEFINE p == [v EXCEPT !.seen = v.seen + 1]
               q == [p EXCEPT !.upToDate = d]
               r == [q EXCEPT !.skipped = k]
    <3>2. w = [r EXCEPT !.cur = c]
      <4> HIDE DEF d, k, c
      <4>1. w = [v EXCEPT !.seen = @ + 1, !.upToDate = d, !.skipped = k, !.cur = c]
        BY <2>1 DEF d, k, c, Views
      <4> QED
        BY <4>1 DEF Views
    <3> HIDE DEF d, k, c
    <3>3. p \in Views
      BY <3>1, ViewChanges
    <3> HIDE DEF p
    <3>4. q \in Views
      BY <3>1, <3>3, ViewChanges
    <3> HIDE DEF q
    <3>5. r \in Views
      BY <3>1, <3>4, ViewChanges
    <3> HIDE DEF r
    <3> QED
      BY <3>1, <3>2, <3>5, ViewChanges
  <2>5. CASE x.note = "none"
    <3>1. d = v.upToDate /\ k = v.skipped /\ c = Begun(x)
      BY <2>5
    <3> HIDE DEF d, k, c
    <3> QED
      BY <1>0, <2>2, <2>3, <2>4, <2>5, <2>8, <3>1 DEF Balanced, w
  <2>6. CASE x.note = "skipped"
    <3>1. d = v.upToDate /\ k = v.skipped + 1 /\ c = NoResource
      BY <2>6
    <3> HIDE DEF d, k, c
    <3> QED
      BY <1>0, <2>2, <2>4, <2>6, <2>8, <3>1 DEF Balanced, w
  <2>7. CASE x.note = "up to date"
    <3>1. d = v.upToDate + 1 /\ k = v.skipped /\ c = NoResource
      BY <2>7
    <3> HIDE DEF d, k, c
    <3>2. \A e \in Nat : v.seen = v.updated + v.upToDate + v.skipped + e
                           => v.seen + 1 = v.updated + (v.upToDate + 1) + v.skipped + 0 + e
      BY <1>0
    <3>3. Balanced(v) => v.seen + 1 = v.updated + (v.upToDate + 1) + v.skipped + 0
                                        + (IF v.cur = NoResource THEN 0 ELSE 1)
      BY <3>2 DEF Balanced
    <3>4. w.seen = v.seen + 1 /\ w.updated = v.updated /\ w.upToDate = v.upToDate + 1
          /\ w.skipped = v.skipped /\ w.cur = NoResource
      BY <2>4, <3>1
    <3>5. Ended(v, x) = v.cur /\ NextCur(v.cur, x) = NoResource
      BY <2>2, <2>7
    <3> QED
      BY <2>8, <3>3, <3>4, <3>5 DEF w
  <2> HIDE DEF d, k, c
  <2> QED
    BY <2>3, <2>5, <2>6, <2>7
<1>4. CASE x.is = "diff" /\ v.cur # NoResource
  <2>1. w = [v EXCEPT !.cur.inDiff = TRUE]
    BY <1>4 DEF OneLine
  <2>2. NextCur(v.cur, x) = [v.cur EXCEPT !.inDiff = TRUE] /\ Ended(v, x) = NoResource
    BY <1>4 DEF NextCur, Ended, EndsResource
  <2>3. [v.cur EXCEPT !.inDiff = TRUE] \in Started
    BY <1>0, <1>4, StartedChanges
  <2> HIDE DEF w
  <2>4. /\ w \in Views /\ w.cur = [v.cur EXCEPT !.inDiff = TRUE]
        /\ w.updated = v.updated /\ w.seen = v.seen
        /\ w.upToDate = v.upToDate /\ w.skipped = v.skipped
    BY <1>0, <2>1, <2>3 DEF Views
  <2>5. w.cur # NoResource
    BY <2>3, <2>4, StartedIsNone
  <2> QED
    BY <1>0, <1>4, <2>2, <2>4, <2>5 DEF Balanced, w
<1>5. CASE x.is = "change" /\ v.cur # NoResource /\ ~(v.cur.inDiff /\ ~x.sentence)
  <2>1. w = [v EXCEPT !.cur.inDiff = FALSE, !.cur.changes = @ + 1]
    BY <1>5 DEF OneLine
  <2>2. NextCur(v.cur, x) = [v.cur EXCEPT !.inDiff = FALSE, !.changes = @ + 1]
        /\ Ended(v, x) = NoResource
    BY <1>5 DEF NextCur, Ended, EndsResource
  <2>3. [v.cur EXCEPT !.inDiff = FALSE, !.changes = @ + 1] \in Started
    <3>0. v.cur \in Started
      BY <1>0, <1>5
    <3>1. [v.cur EXCEPT !.inDiff = FALSE] \in Started /\ v.cur.changes + 1 \in Nat
      <4>1. [v.cur EXCEPT !.inDiff = FALSE] \in Started /\ v.cur.changes \in Nat
        BY <3>0, StartedChanges
      <4> QED
        BY <4>1
    <3>2. [[v.cur EXCEPT !.inDiff = FALSE] EXCEPT !.changes = v.cur.changes + 1] \in Started
      BY <3>1, StartedChanges
    <3>3. [v.cur EXCEPT !.inDiff = FALSE, !.changes = @ + 1]
            = [[v.cur EXCEPT !.inDiff = FALSE] EXCEPT !.changes = v.cur.changes + 1]
      BY <1>0, <1>5 DEF Started
    <3> QED
      BY <3>2, <3>3
  <2> HIDE DEF w
  <2>4. /\ w \in Views /\ w.cur = [v.cur EXCEPT !.inDiff = FALSE, !.changes = @ + 1]
        /\ w.updated = v.updated /\ w.seen = v.seen
        /\ w.upToDate = v.upToDate /\ w.skipped = v.skipped
    BY <1>0, <1>5, <2>1, <2>3 DEF Views, Started
  <2>5. w.cur # NoResource
    BY <2>3, <2>4, StartedIsNone
  <2> QED
    BY <1>0, <1>5, <2>2, <2>4, <2>5 DEF Balanced, w
<1>6. CASE x.is = "done"
  <2>1. w = [v EXCEPT !.cur = NoResource]
    BY <1>6 DEF OneLine
  <2>2. NextCur(v.cur, x) = NoResource /\ Ended(v, x) = v.cur
    BY <1>6 DEF NextCur, Ended, EndsResource
  <2> HIDE DEF w
  <2>4. /\ w \in Views /\ w.cur = NoResource /\ w.updated = v.updated /\ w.seen = v.seen
        /\ w.upToDate = v.upToDate /\ w.skipped = v.skipped
    BY <2>1, <1>0 DEF Views
  <2> QED
    BY <1>0, <2>2, <2>4 DEF Balanced, w
<1>7. CASE x.is = "other" \/ (x.is \in {"diff", "change"} /\ v.cur = NoResource)
  <2>1. w = v
    BY <1>7 DEF OneLine
  <2>2. NextCur(v.cur, x) = v.cur /\ Ended(v, x) = NoResource
    BY <1>7 DEF NextCur, Ended, EndsResource
  <2> HIDE DEF w
  <2> QED
    BY <1>0, <2>1, <2>2 DEF Balanced, w
<1>8. CASE x.is = "change" /\ v.cur # NoResource /\ v.cur.inDiff /\ ~x.sentence
  <2>1. w = v
    BY <1>8 DEF OneLine
  <2>2. NextCur(v.cur, x) = v.cur /\ Ended(v, x) = NoResource
    BY <1>8 DEF NextCur, Ended, EndsResource
  <2> HIDE DEF w
  <2> QED
    BY <1>0, <2>1, <2>2 DEF Balanced, w
<1>9. \/ x.is = "total" \/ x.is = "log" \/ x.is = "resource" \/ x.is = "done" \/ x.is = "other"
      \/ x.is = "diff" \/ x.is = "change"
  BY LineFields
<1>10. CASE x.is = "diff"
  BY <1>4, <1>7, <1>10
<1>11. CASE x.is = "change"
  BY <1>5, <1>7, <1>8, <1>11
<1>12. CASE x.is = "other"
  BY <1>7, <1>12, Zenon
<1> QED
  BY <1>1, <1>2, <1>3, <1>6, <1>9, <1>10, <1>11, <1>12, Zenon

\* A line ends at most one resource, which is then counted as changed or not.
LEMMA AfterIs ==
  ASSUME NEW v \in Views, NEW x \in Lines
  PROVE  /\ After(v, x) \in Views
         /\ After(v, x).cur = NextCur(v.cur, x)
         /\ After(v, x).updated = v.updated + IF Changed(Ended(v, x)) THEN 1 ELSE 0
         /\ Balanced(v) => Balanced(After(v, x))
<1> DEFINE w == OneLine(v, x)
           r == Ended(v, x)
           a == After(v, x)
<1>1. /\ w \in Views /\ w.cur = NextCur(v.cur, x) /\ w.updated = v.updated
      /\ Balanced(v) => w.seen = w.updated + w.upToDate + w.skipped
                                   + (IF w.cur = NoResource THEN 0 ELSE 1)
                                   + (IF r = NoResource THEN 0 ELSE 1)
  BY OneLineIs
<1>2. a = IF r = NoResource THEN w
          ELSE IF Changed(r) THEN [w EXCEPT !.updated = @ + 1] ELSE [w EXCEPT !.upToDate = @ + 1]
  BY DEF After, FinishRes
<1>3. r = NoResource => ~Changed(r)
  BY DEF Changed
<1> HIDE DEF w, r, a
<1>4. /\ w.total \in Nat /\ w.seen \in Nat /\ w.updated \in Nat /\ w.upToDate \in Nat
      /\ w.skipped \in Nat /\ w.cur \in Started \union {NoResource}
  BY <1>1 DEF Views
<1>5. CASE r = NoResource
  BY <1>1, <1>2, <1>3, <1>4, <1>5 DEF Balanced, r, a
<1>6. CASE r # NoResource /\ Changed(r)
  <2>1. /\ a \in Views /\ a.cur = w.cur /\ a.updated = w.updated + 1 /\ a.seen = w.seen
        /\ a.upToDate = w.upToDate /\ a.skipped = w.skipped
    BY <1>1, <1>2, <1>4, <1>6 DEF Views
  <2> QED
    BY <1>1, <1>4, <1>6, <2>1 DEF Balanced, r, a
<1>7. CASE r # NoResource /\ ~Changed(r)
  <2>1. /\ a \in Views /\ a.cur = w.cur /\ a.updated = w.updated /\ a.seen = w.seen
        /\ a.upToDate = w.upToDate + 1 /\ a.skipped = w.skipped
    BY <1>1, <1>2, <1>4, <1>7 DEF Views
  <2> QED
    BY <1>1, <1>4, <1>7, <2>1 DEF Balanced, r, a
<1> QED
  BY <1>5, <1>6, <1>7

\* The resources that the first n lines leave open, at most one.
Open(s, n) ==
  {i \in 1 .. n : /\ s[i].is = "resource" /\ s[i].note = "none"
                  /\ \A k \in i + 1 .. n : ~EndsResource(s[k])}

\* A change of the resource at i.
Counts(s, i, j) == s[j].is = "change" /\ (Sentence(s[j]) \/ ~InDiff(s, i, j))

\* What the view remembers of the resource at i, n lines later.
IsOpen(c, s, n, i) ==
  /\ c \in Started /\ c.name = s[i].name /\ c.journal = s[i].journal
  /\ c.changes > 0 <=> \E j \in i + 1 .. n : Counts(s, i, j)
  /\ (c.inDiff = TRUE) <=> InDiff(s, i, n + 1)

CurAt(c, s, n) ==
  \/ c = NoResource /\ Open(s, n) = {}
  \/ \E i \in 1 .. n : Open(s, n) = {i} /\ IsOpen(c, s, n, i)

LEMMA CurStep ==
  ASSUME NEW s \in Seq(Lines), NEW n \in 0 .. Len(s) - 1, NEW c, CurAt(c, s, n)
  PROVE  CurAt(NextCur(c, s[n + 1]), s, n + 1)
<1> DEFINE x == s[n + 1]
<1>0. n \in Nat /\ n + 1 \in Nat /\ x \in Lines
  <2>1. n \in Nat /\ n + 1 \in 1 .. Len(s)
    OBVIOUS
  <2> QED
    BY <2>1
<1> HIDE DEF x
<1>1. CASE x.is = "resource" /\ x.note = "none"
  <2>1. Open(s, n + 1) = {n + 1}
    <3>1. n + 1 \in Open(s, n + 1)
      BY <1>0, <1>1 DEF Open, x
    <3>2. ASSUME NEW i \in Open(s, n + 1) PROVE i = n + 1
      <4>1. i \in 1 .. n + 1 /\ \A k \in i + 1 .. n + 1 : ~EndsResource(s[k])
        BY <3>2 DEF Open
      <4>2. EndsResource(s[n + 1])
        BY <1>1 DEF EndsResource, x
      <4> QED
        BY <1>0, <4>1, <4>2
    <3> QED
      BY <3>1, <3>2
  <2>2. IsOpen(Begun(x), s, n + 1, n + 1)
    <3>1. Begun(x) \in Started
      BY <1>0, <1>1, BegunType
    <3>2. /\ Begun(x).name = x.name /\ Begun(x).journal = x.journal
          /\ Begun(x).changes = 0 /\ Begun(x).inDiff = FALSE
      BY DEF Begun
    <3>3. ~(\E j \in (n + 1) + 1 .. n + 1 : Counts(s, n + 1, j))
      BY <1>0
    <3>4. ~InDiff(s, n + 1, (n + 1) + 1)
      BY <1>0 DEF InDiff
    <3> QED
      BY <3>1, <3>2, <3>3, <3>4 DEF IsOpen, x
  <2>3. NextCur(c, x) = Begun(x)
    BY <1>1 DEF NextCur
  <2>4. n + 1 \in 1 .. n + 1
    BY <1>0
  <2> QED
    BY <2>1, <2>2, <2>3, <2>4 DEF CurAt, x
<1>2. CASE EndsResource(x) /\ ~(x.is = "resource" /\ x.note = "none")
  <2>1. Open(s, n + 1) = {}
    <3> SUFFICES ASSUME NEW i \in Open(s, n + 1) PROVE FALSE
        OBVIOUS
    <3>1. /\ i \in 1 .. n + 1 /\ \A k \in i + 1 .. n + 1 : ~EndsResource(s[k])
          /\ s[i].is = "resource" /\ s[i].note = "none"
      BY DEF Open
    <3>2. i # n + 1
      BY <1>2, <3>1 DEF x
    <3>3. n + 1 \in i + 1 .. n + 1
      BY <1>0, <3>1, <3>2
    <3> QED
      BY <1>2, <3>1, <3>3 DEF x
  <2>2. NextCur(c, x) = NoResource
    BY <1>2 DEF NextCur
  <2> QED
    BY <2>1, <2>2 DEF CurAt, x
<1>3. CASE ~EndsResource(x)
  <2>0. x.is \notin {"log", "resource", "done"}
    BY <1>3 DEF EndsResource
  <2>1. Open(s, n + 1) = Open(s, n)
    <3>1. ASSUME NEW i \in Open(s, n + 1) PROVE i \in Open(s, n)
      <4>1. /\ i \in 1 .. n + 1 /\ \A k \in i + 1 .. n + 1 : ~EndsResource(s[k])
            /\ s[i].is = "resource" /\ s[i].note = "none"
        BY <3>1 DEF Open
      <4>2. i # n + 1
        BY <2>0, <4>1 DEF x
      <4>3. i \in 1 .. n /\ \A k \in i + 1 .. n : k \in i + 1 .. n + 1
        BY <1>0, <4>1, <4>2
      <4> QED
        BY <4>1, <4>3 DEF Open
    <3>2. ASSUME NEW i \in Open(s, n) PROVE i \in Open(s, n + 1)
      <4>1. /\ i \in 1 .. n /\ \A k \in i + 1 .. n : ~EndsResource(s[k])
            /\ s[i].is = "resource" /\ s[i].note = "none"
        BY <3>2 DEF Open
      <4>2. \A k \in i + 1 .. n + 1 : k \in i + 1 .. n \/ k = n + 1
        BY <1>0, <4>1
      <4>3. \A k \in i + 1 .. n + 1 : ~EndsResource(s[k])
        BY <1>3, <4>1, <4>2 DEF x
      <4>4. i \in 1 .. n + 1
        BY <1>0, <4>1
      <4> QED
        BY <4>1, <4>3, <4>4 DEF Open
    <3> QED
      BY <3>1, <3>2
  <2>2. CASE c = NoResource
    <3>1. NextCur(c, x) = NoResource
      BY <2>0, <2>2 DEF NextCur
    <3>2. Open(s, n) = {}
      BY <2>2, StartedIsNone DEF CurAt, IsOpen
    <3> QED
      BY <2>1, <3>1, <3>2 DEF CurAt, x
  <2>3. CASE c # NoResource
    <3>1. PICK i \in 1 .. n : Open(s, n) = {i} /\ IsOpen(c, s, n, i)
      BY <2>3 DEF CurAt
    <3>2. /\ c \in Started /\ c.name = s[i].name /\ c.journal = s[i].journal
          /\ c.changes > 0 <=> \E j \in i + 1 .. n : Counts(s, i, j)
          /\ (c.inDiff = TRUE) <=> InDiff(s, i, n + 1)
          /\ c.changes \in Nat /\ c.inDiff \in BOOLEAN
      BY <3>1, StartedChanges DEF IsOpen
    <3>3. InDiff(s, i, (n + 1) + 1) <=> x.is = "diff" \/ (InDiff(s, i, n + 1) /\ ~Sentence(x))
      <4>0. (n + 1) - 1 = n /\ ((n + 1) + 1) - 1 = n + 1 /\ n + 1 \in i + 1 .. n + 1
        BY <1>0, <3>1
      <4>1. ASSUME InDiff(s, i, (n + 1) + 1)
            PROVE  x.is = "diff" \/ (InDiff(s, i, n + 1) /\ ~Sentence(x))
        <5>1. PICK d \in i + 1 .. n + 1 : s[d].is = "diff" /\ \A k \in d + 1 .. n + 1 : ~Sentence(s[k])
          BY <4>0, <4>1 DEF InDiff
        <5>2. CASE d = n + 1
          BY <5>1, <5>2 DEF x
        <5>3. CASE d # n + 1
          <6>1. d \in i + 1 .. n /\ n + 1 \in d + 1 .. n + 1 /\ \A k \in d + 1 .. n : k \in d + 1 .. n + 1
            BY <1>0, <3>1, <5>3
          <6>2. ~Sentence(x) /\ \A k \in d + 1 .. n : ~Sentence(s[k])
            BY <5>1, <6>1 DEF x
          <6> QED
            BY <4>0, <5>1, <6>1, <6>2 DEF InDiff
        <5> QED
          BY <5>2, <5>3
      <4>2. ASSUME x.is = "diff" PROVE InDiff(s, i, (n + 1) + 1)
        <5>1. \A k \in (n + 1) + 1 .. n + 1 : ~Sentence(s[k])
          BY <1>0
        <5> QED
          BY <4>0, <4>2, <5>1 DEF InDiff, x
      <4>3. ASSUME InDiff(s, i, n + 1), ~Sentence(x) PROVE InDiff(s, i, (n + 1) + 1)
        <5>1. PICK d \in i + 1 .. n : s[d].is = "diff" /\ \A k \in d + 1 .. n : ~Sentence(s[k])
          BY <4>0, <4>3 DEF InDiff
        <5>2. d \in i + 1 .. n + 1 /\ \A k \in d + 1 .. n + 1 : k \in d + 1 .. n \/ k = n + 1
          BY <1>0, <3>1
        <5>3. \A k \in d + 1 .. n + 1 : ~Sentence(s[k])
          BY <4>3, <5>1, <5>2 DEF x
        <5> QED
          BY <4>0, <5>1, <5>2, <5>3 DEF InDiff
      <4> QED
        BY <4>1, <4>2, <4>3
    <3>4. (\E j \in i + 1 .. n + 1 : Counts(s, i, j))
            <=> (\E j \in i + 1 .. n : Counts(s, i, j)) \/ Counts(s, i, n + 1)
      <4>1. /\ n + 1 \in i + 1 .. n + 1
            /\ \A j \in i + 1 .. n + 1 : j \in i + 1 .. n \/ j = n + 1
            /\ \A j \in i + 1 .. n : j \in i + 1 .. n + 1
        BY <1>0, <3>1
      <4> QED
        BY <4>1, Zenon
    <3>5. Counts(s, i, n + 1) <=> x.is = "change" /\ (x.sentence \/ ~InDiff(s, i, n + 1))
      BY DEF Counts, Sentence, x
    <3>6. Sentence(x) <=> x.is = "change" /\ x.sentence
      BY DEF Sentence
    <3>7. i \in 1 .. n + 1
      BY <1>0, <3>1
    <3>8. x.is = "change" => x.sentence \in BOOLEAN
      BY <1>0, LineFields
    <3>9. IsOpen(NextCur(c, x), s, n + 1, i)
      <4>1. CASE x.is = "diff"
        <5>1. NextCur(c, x) = [c EXCEPT !.inDiff = TRUE]
          BY <1>3, <2>3, <4>1 DEF NextCur
        <5>2. [c EXCEPT !.inDiff = TRUE] \in Started
          BY <3>2, StartedChanges
        <5>3. /\ NextCur(c, x).name = c.name /\ NextCur(c, x).journal = c.journal
              /\ NextCur(c, x).changes = c.changes /\ NextCur(c, x).inDiff = TRUE
          BY <3>2, <5>1 DEF Started
        <5>4. ~Counts(s, i, n + 1)
          BY <3>5, <4>1
        <5> QED
          BY <3>2, <3>3, <3>4, <4>1, <5>1, <5>2, <5>3, <5>4 DEF IsOpen
      <4>2. CASE x.is = "change" /\ ~(c.inDiff /\ ~x.sentence)
        <5> DEFINE e == [c EXCEPT !.inDiff = FALSE]
                   f == [e EXCEPT !.changes = c.changes + 1]
        <5>1. NextCur(c, x) = [c EXCEPT !.inDiff = FALSE, !.changes = @ + 1]
          BY <1>3, <2>3, <4>2 DEF NextCur
        <5>2. f \in Started
          <6>1. e \in Started /\ c.changes + 1 \in Nat
            <7>1. e \in Started
              BY <3>2, StartedChanges
            <7> QED
              BY <3>2, <7>1
          <6> HIDE DEF e
          <6> QED
            BY <6>1, StartedChanges
        <5>3. [c EXCEPT !.inDiff = FALSE, !.changes = @ + 1] = f
          BY <3>2 DEF Started
        <5>4. f.name = c.name /\ f.journal = c.journal /\ f.changes = c.changes + 1 /\ f.inDiff = FALSE
          BY <3>2 DEF Started
        <5> HIDE DEF e, f
        <5>5. f.changes > 0
          BY <3>2, <5>4
        <5>6. Counts(s, i, n + 1) /\ ~InDiff(s, i, (n + 1) + 1)
          BY <3>2, <3>3, <3>5, <3>6, <3>8, <4>2
        <5> QED
          BY <3>2, <3>4, <5>1, <5>2, <5>3, <5>4, <5>5, <5>6 DEF IsOpen
      <4>3. CASE x.is = "change" /\ c.inDiff /\ ~x.sentence
        <5>1. NextCur(c, x) = c
          BY <1>3, <2>3, <4>3 DEF NextCur
        <5>2. ~Counts(s, i, n + 1) /\ InDiff(s, i, (n + 1) + 1)
          BY <3>2, <3>3, <3>5, <3>6, <4>3
        <5> QED
          BY <3>2, <3>4, <4>3, <5>1, <5>2 DEF IsOpen
      <4>4. CASE x.is \notin {"diff", "change"}
        <5>1. NextCur(c, x) = c
          BY <1>3, <2>0, <2>3, <4>4 DEF NextCur
        <5>2. ~Counts(s, i, n + 1) /\ (InDiff(s, i, (n + 1) + 1) <=> InDiff(s, i, n + 1))
          BY <3>3, <3>5, <3>6, <4>4
        <5> QED
          BY <3>2, <3>4, <5>1, <5>2 DEF IsOpen
      <4> QED
        BY <4>1, <4>2, <4>3, <4>4
    <3> QED
      BY <2>1, <3>1, <3>7, <3>9 DEF CurAt, x
  <2> QED
    BY <2>2, <2>3
<1> QED
  BY <1>1, <1>2, <1>3 DEF x

\* The resources that changed and were ended by the first n lines.
Finished(s, n) == {i \in ChangedIn(s) : \E k \in i + 1 .. n : EndsResource(s[k])}

\* Where the open resource ends, every changed resource before has ended with it.
LEMMA EndingIs ==
  ASSUME NEW s \in Seq(Lines), NEW n \in 0 .. Len(s), NEW c, CurAt(c, s, n),
         n = Len(s) \/ EndsResource(s[n + 1])
  PROVE  LET begun == {i \in ChangedIn(s) : i <= n}
         IN  /\ ~Changed(c) => begun = Finished(s, n)
             /\ Changed(c) => \E i \in 1 .. n : /\ c.name = s[i].name /\ i \notin Finished(s, n)
                                                /\ \A j \in Finished(s, n) : j < i
                                                /\ begun = Finished(s, n) \union {i}
<1> DEFINE begun == {i \in ChangedIn(s) : i <= n}
<1>0. n \in Nat /\ Len(s) \in Nat /\ n <= Len(s)
  OBVIOUS
<1>1. /\ ChangedIn(s) \in SUBSET (1 .. Len(s))
      /\ \A i \in ChangedIn(s) : s[i].is = "resource" /\ s[i].note = "none"
  BY DEF ChangedIn
<1>2. Finished(s, n) \subseteq begun
  <2> SUFFICES ASSUME NEW i \in Finished(s, n) PROVE i \in begun
      OBVIOUS
  <2>1. i \in ChangedIn(s) /\ \E k \in i + 1 .. n : EndsResource(s[k])
    BY DEF Finished
  <2>2. i \in Nat /\ i <= n
    BY <1>0, <1>1, <2>1
  <2> QED
    BY <2>1, <2>2
<1>3. \A i \in begun : i \in Finished(s, n) \/ i \in Open(s, n)
  <2> SUFFICES ASSUME NEW i \in begun, i \notin Finished(s, n) PROVE i \in Open(s, n)
      OBVIOUS
  <2>1. i \in ChangedIn(s) /\ i <= n /\ i \in 1 .. n
    BY <1>0, <1>1
  <2>2. \A k \in i + 1 .. n : ~EndsResource(s[k])
    BY <2>1 DEF Finished
  <2> QED
    BY <1>1, <2>1, <2>2 DEF Open
<1>4. \A i \in Open(s, n) : i \notin Finished(s, n)
  BY DEF Open, Finished
<1>5. CASE c = NoResource
  <2>1. Open(s, n) = {}
    BY <1>5, StartedIsNone DEF CurAt, IsOpen
  <2>2. ~Changed(c)
    BY <1>5 DEF Changed
  <2> QED
    BY <1>2, <1>3, <2>1, <2>2
<1>6. CASE c # NoResource
  <2>1. PICK i \in 1 .. n : Open(s, n) = {i} /\ IsOpen(c, s, n, i)
    BY <1>6 DEF CurAt
  <2>2. /\ i \in 1 .. n /\ s[i].is = "resource" /\ s[i].note = "none"
        /\ \A k \in i + 1 .. n : ~EndsResource(s[k])
    BY <2>1 DEF Open
  <2>3. Section(s, i) = i + 1 .. n
    <3>1. ASSUME NEW j \in Section(s, i) PROVE j \in i + 1 .. n
      <4>1. j \in i + 1 .. Len(s) /\ \A k \in i + 1 .. j : ~EndsResource(s[k])
        BY <3>1 DEF Section
      <4>2. CASE j > n
        <5>1. n + 1 \in i + 1 .. j /\ n # Len(s)
          BY <1>0, <2>2, <4>1, <4>2
        <5> QED
          BY <4>1, <5>1
      <4> QED
        BY <1>0, <2>2, <4>1, <4>2
    <3>2. ASSUME NEW j \in i + 1 .. n PROVE j \in Section(s, i)
      <4>1. j \in i + 1 .. Len(s) /\ \A k \in i + 1 .. j : k \in i + 1 .. n
        BY <1>0, <2>2
      <4> QED
        BY <2>2, <4>1 DEF Section
    <3> QED
      BY <3>1, <3>2
  <2>4. i \in 1 .. Len(s)
    BY <1>0, <2>2
  <2>5. i \in ChangedIn(s) <=> Changed(c)
    <3>1. i \in ChangedIn(s) <=> ~s[i].journal /\ \E j \in i + 1 .. n : Counts(s, i, j)
      BY <2>2, <2>3, <2>4 DEF ChangedIn, Counts
    <3>2. c.journal = s[i].journal /\ (c.changes > 0 <=> \E j \in i + 1 .. n : Counts(s, i, j))
      BY <2>1 DEF IsOpen
    <3> QED
      BY <1>6, <3>1, <3>2 DEF Changed
  <2>6. ASSUME NEW j \in Finished(s, n) PROVE j < i
    <3>1. j \in 1 .. n /\ s[j].is = "resource" /\ j # i
      BY <1>0, <1>1, <1>2, <1>4, <2>1
    <3>2. CASE j > i
      <4>1. j \in i + 1 .. n
        BY <1>0, <2>2, <3>1, <3>2
      <4>2. EndsResource(s[j])
        BY <3>1 DEF EndsResource
      <4> QED
        BY <2>2, <4>1, <4>2
    <3> QED
      BY <2>2, <3>1, <3>2
  <2>7. i <= n /\ i \notin Finished(s, n) /\ c.name = s[i].name
    BY <1>4, <2>1, <2>2 DEF IsOpen
  <2>8. CASE Changed(c)
    <3>1. begun = Finished(s, n) \union {i}
      BY <1>2, <1>3, <2>1, <2>5, <2>7, <2>8
    <3> QED
      BY <2>6, <2>7, <2>8, <3>1
  <2>9. CASE ~Changed(c)
    <3>1. begun = Finished(s, n)
      BY <1>2, <1>3, <2>1, <2>5, <2>9
    <3> QED
      BY <2>9, <3>1
  <2> QED
    BY <2>8, <2>9
<1> QED
  BY <1>5, <1>6

LEMMA FinishedStep ==
  ASSUME NEW s \in Seq(Lines), NEW n \in 0 .. Len(s) - 1, NEW v, CurAt(v.cur, s, n)
  PROVE  LET ended == Ended(v, s[n + 1])
         IN  /\ ~Changed(ended) => Finished(s, n + 1) = Finished(s, n)
             /\ Changed(ended) =>
                  \E i \in 1 .. n : /\ ended.name = s[i].name /\ i \notin Finished(s, n)
                                    /\ \A j \in Finished(s, n) : j < i
                                    /\ Finished(s, n + 1) = Finished(s, n) \union {i}
<1>0. n \in Nat /\ n \in 0 .. Len(s)
  OBVIOUS
<1>1. CASE ~EndsResource(s[n + 1])
  <2>1. Ended(v, s[n + 1]) = NoResource
    BY <1>1 DEF Ended, EndsResource
  <2>2. ~Changed(NoResource)
    BY DEF Changed
  <2>3. Finished(s, n + 1) = Finished(s, n)
    <3>1. ChangedIn(s) \in SUBSET Nat
      BY DEF ChangedIn
    <3>2. ASSUME NEW i \in ChangedIn(s)
          PROVE  (\E k \in i + 1 .. n + 1 : EndsResource(s[k])) <=> (\E k \in i + 1 .. n : EndsResource(s[k]))
      <4>1. i \in Nat
        BY <3>1
      <4>2. /\ \A k \in i + 1 .. n : k \in i + 1 .. n + 1
            /\ \A k \in i + 1 .. n + 1 : k = n + 1 \/ k \in i + 1 .. n
        BY <1>0, <4>1
      <4> QED
        BY <1>1, <4>2
    <3> QED
      BY <3>2 DEF Finished
  <2> QED
    BY <2>1, <2>2, <2>3
<1>2. CASE EndsResource(s[n + 1])
  <2>1. Ended(v, s[n + 1]) = v.cur
    BY <1>2 DEF Ended, EndsResource
  <2>2. Finished(s, n + 1) = {i \in ChangedIn(s) : i <= n}
    <3>1. ChangedIn(s) \in SUBSET Nat
      BY DEF ChangedIn
    <3>2. ASSUME NEW i \in ChangedIn(s)
          PROVE  (\E k \in i + 1 .. n + 1 : EndsResource(s[k])) <=> i <= n
      <4>1. i \in Nat
        BY <3>1
      <4>2. i <= n => n + 1 \in i + 1 .. n + 1
        BY <1>0, <4>1
      <4>3. \A k \in i + 1 .. n + 1 : i <= n
        BY <1>0, <4>1
      <4> QED
        BY <1>2, <4>2, <4>3
    <3> QED
      BY <3>2 DEF Finished
  <2>3. LET begun == {i \in ChangedIn(s) : i <= n}
        IN  /\ ~Changed(v.cur) => begun = Finished(s, n)
            /\ Changed(v.cur) =>
                 \E i \in 1 .. n : /\ v.cur.name = s[i].name /\ i \notin Finished(s, n)
                                   /\ \A j \in Finished(s, n) : j < i
                                   /\ begun = Finished(s, n) \union {i}
    BY <1>0, <1>2, EndingIs
  <2> QED
    BY <2>1, <2>2, <2>3
<1> QED
  BY <1>1, <1>2

\* At the end of the output nothing is open any more but the last resource.
LEMMA AllFinished ==
  ASSUME NEW s \in Seq(Lines), NEW c, CurAt(c, s, Len(s))
  PROVE  /\ ~Changed(c) => ChangedIn(s) = Finished(s, Len(s))
         /\ Changed(c) => \E i \in 1 .. Len(s) :
                            /\ c.name = s[i].name /\ i \notin Finished(s, Len(s))
                            /\ \A j \in Finished(s, Len(s)) : j < i
                            /\ ChangedIn(s) = Finished(s, Len(s)) \union {i}
<1> DEFINE n == Len(s)
           begun == {i \in ChangedIn(s) : i <= n}
<1>1. n \in 0 .. Len(s)
  OBVIOUS
<1>2. begun = ChangedIn(s)
  <2>1. \A i \in ChangedIn(s) : i <= Len(s)
    BY DEF ChangedIn
  <2> QED
    BY <2>1
<1>3. /\ ~Changed(c) => begun = Finished(s, n)
      /\ Changed(c) => \E i \in 1 .. n : /\ c.name = s[i].name /\ i \notin Finished(s, n)
                                         /\ \A j \in Finished(s, n) : j < i
                                         /\ begun = Finished(s, n) \union {i}
  BY <1>1, EndingIs
<1> HIDE DEF begun
<1> QED
  BY <1>2, <1>3

LEMMA FinishedCount ==
  ASSUME NEW s \in Seq(Lines), NEW n
  PROVE  /\ Finished(s, n) \in SUBSET (1 .. Len(s))
         /\ Cardinality(Finished(s, n)) \in Nat
         /\ \A i : i \notin Finished(s, n) =>
              Cardinality(Finished(s, n) \union {i}) = Cardinality(Finished(s, n)) + 1
<1>1. Finished(s, n) \subseteq 1 .. Len(s)
  BY DEF Finished, ChangedIn
<1>2. IsFiniteSet(1 .. Len(s))
  <2>1. 1 \in Int /\ Len(s) \in Int
    OBVIOUS
  <2> QED
    BY <2>1, FS_Interval
<1>3. IsFiniteSet(Finished(s, n))
  BY <1>1, <1>2, FS_Subset
<1>4. Cardinality(Finished(s, n)) \in Nat
  BY <1>3, FS_CardinalityType
<1>5. ASSUME NEW i, i \notin Finished(s, n)
      PROVE  Cardinality(Finished(s, n) \union {i}) = Cardinality(Finished(s, n)) + 1
  BY <1>3, <1>5, FS_AddElement
<1> QED
  BY <1>1, <1>4, <1>5

\* A note or the summary, after what was listed.
LEMMA ListedNote ==
  ASSUME NEW p \in Seq(Texts), NEW changed \in SUBSET Nat, NEW s, Listed(p, changed, s),
         NEW x \in {"note", "summary"}
  PROVE  Listed(Append(p, x), changed, s)
<1> DEFINE q == Append(p, x)
           n == Len(p)
<1>0. x \in Texts
  BY DEF Texts
<1>1. /\ q \in Seq(Texts) /\ n \in Nat /\ DOMAIN p = 1 .. n /\ DOMAIN q = 1 .. n + 1
      /\ q[n + 1] = x /\ \A j \in 1 .. n : q[j] = p[j]
  BY <1>0
<1> HIDE DEF q, n
<1>2. PICK at \in [changed -> 1 .. n] :
        /\ \A i, j \in changed : i < j => at[i] < at[j]
        /\ \A i \in changed : p[at[i]] = s[i].name
        /\ \A k \in 1 .. n : (\A i \in changed : at[i] # k) => p[k] \in {"note", "summary"}
  BY <1>1 DEF Listed
<1>3. at \in [changed -> 1 .. n + 1]
  <2>1. \A k \in 1 .. n : k \in 1 .. n + 1
    BY <1>1
  <2> QED
    BY <2>1
<1>4. \A i \in changed : q[at[i]] = s[i].name
  BY <1>1, <1>2
<1>5. ASSUME NEW k \in 1 .. n + 1, \A i \in changed : at[i] # k PROVE q[k] \in {"note", "summary"}
  <2>1. CASE k = n + 1
    BY <1>1, <2>1
  <2>2. CASE k # n + 1
    <3>1. k \in 1 .. n
      BY <1>1, <2>2
    <3> QED
      BY <1>1, <1>2, <1>5, <3>1
  <2> QED
    BY <2>1, <2>2
<1> QED
  BY <1>1, <1>2, <1>3, <1>4, <1>5 DEF Listed, q

\* The name of one more resource, behind all the others.
LEMMA ListedName ==
  ASSUME NEW p \in Seq(Texts), NEW changed \in SUBSET Nat, NEW s, Listed(p, changed, s),
         NEW m \in Nat, \A j \in changed : j < m, s[m].name \in Texts
  PROVE  Listed(Append(p, s[m].name), changed \union {m}, s)
<1> DEFINE x == s[m].name
           q == Append(p, x)
           n == Len(p)
<1> HIDE DEF x
<1>1. /\ q \in Seq(Texts) /\ n \in Nat /\ DOMAIN p = 1 .. n /\ DOMAIN q = 1 .. n + 1
      /\ q[n + 1] = x /\ \A j \in 1 .. n : q[j] = p[j]
  BY DEF x
<1> HIDE DEF q, n
<1>2. PICK at \in [changed -> 1 .. n] :
        /\ \A i, j \in changed : i < j => at[i] < at[j]
        /\ \A i \in changed : p[at[i]] = s[i].name
        /\ \A k \in 1 .. n : (\A i \in changed : at[i] # k) => p[k] \in {"note", "summary"}
  BY <1>1 DEF Listed
<1> DEFINE new == [i \in changed \union {m} |-> IF i = m THEN n + 1 ELSE at[i]]
<1>3. m \notin changed
  <2>1. ~(m < m)
    OBVIOUS
  <2> QED
    BY <2>1
<1>4. new \in [changed \union {m} -> 1 .. n + 1]
  <2>1. n + 1 \in 1 .. n + 1 /\ \A k \in 1 .. n : k \in 1 .. n + 1
    BY <1>1
  <2>2. \A i \in changed : at[i] \in 1 .. n + 1
    BY <2>1
  <2> QED
    BY <2>1, <2>2
<1>5. new[m] = n + 1 /\ \A i \in changed : new[i] = at[i] /\ at[i] \in 1 .. n
  BY <1>3
<1> HIDE DEF new
<1>6. ASSUME NEW i \in changed \union {m}, NEW j \in changed \union {m}, i < j PROVE new[i] < new[j]
  <2>1. CASE i = m
    <3>1. j = m \/ j < m
      OBVIOUS
    <3>2. j \in Nat
      OBVIOUS
    <3> QED
      BY <1>6, <2>1, <3>1, <3>2
  <2>2. CASE i # m /\ j = m
    BY <1>1, <1>5, <2>2
  <2>3. CASE i # m /\ j # m
    BY <1>2, <1>5, <1>6, <2>3
  <2> QED
    BY <2>1, <2>2, <2>3
<1>7. \A i \in changed \union {m} : q[new[i]] = s[i].name
  BY <1>1, <1>2, <1>5 DEF x
<1>8. ASSUME NEW k \in 1 .. n + 1, \A i \in changed \union {m} : new[i] # k
      PROVE  q[k] \in {"note", "summary"}
  <2>1. k \in 1 .. n
    BY <1>1, <1>5, <1>8
  <2>2. \A i \in changed : at[i] # k
    BY <1>5, <1>8
  <2> QED
    BY <1>1, <1>2, <2>1, <2>2
<1>9. /\ new \in [changed \union {m} -> DOMAIN q]
      /\ \A k \in DOMAIN q : (\A i \in changed \union {m} : new[i] # k) => q[k] \in {"note", "summary"}
  BY <1>1, <1>4, <1>8
<1>10. Listed(q, changed \union {m}, s)
  BY <1>6, <1>7, <1>9 DEF Listed
<1> QED
  BY <1>10 DEF q, x

----------------------------------------------------------------------------
(* The lines of a converge, on the screen or about to be.                  *)

Ones      == {<<l>> : l \in Texts}
Firsts(c) == [i \in 1 .. Len(c) |-> c[i][1]]

\* The calls of an actor that have not printed yet.
Left(a) == IF holder = a THEN Tail(calls[a]) ELSE calls[a]

\* The writer prints until Exec has returned, then the main goroutine.
Speaker == IF pc \in Rest THEN "main" ELSE "writer"
Said    == printed \o Firsts(Left(Speaker))

\* The first n lines are in the view, the first m are read.
At(n, m) ==
  /\ (due = <<>> /\ m = n) \/ (due # <<>> /\ m = n + 1 /\ due = <<command.stream[m]>>)
  /\ code # "failed" => todo = SubSeq(command.stream, m + 1, Len(command.stream))
  /\ pc \notin Rest => /\ Balanced(chef) /\ CurAt(chef.cur, command.stream, n)
                       /\ chef.updated = Cardinality(Finished(command.stream, n))
                       /\ Listed(Said, Finished(command.stream, n), command.stream)
  /\ result = "ok" => n = Len(command.stream)

Final ==
  /\ chef.seen = chef.updated + chef.upToDate + chef.skipped
  /\ chef.updated = Cardinality(ChangedIn(command.stream))
  /\ Listed(Said, ChangedIn(command.stream), command.stream)

\* The view of a converge is that of the lines read so far, and what it says
\* changed is printed by one actor at a time.
ConvergeInv ==
  Converge =>
    /\ chef \in Views /\ printed \in Seq(Texts)
    /\ calls["main"] \in Seq(Ones) /\ calls["writer"] \in Seq(Ones)
    /\ exec \in {"before", "returned"} => due = <<>> /\ Idle("writer")
    /\ pc \notin Rest => Idle("main")
    /\ code = "ok" => todo = <<>>
    /\ \E n, m \in 0 .. Len(command.stream) : At(n, m)
    /\ pc \in Rest /\ result = "ok" => Final

LEMMA FirstsType ==
  /\ \A c \in Seq(Ones) : Firsts(c) \in Seq(Texts) /\ Len(Firsts(c)) = Len(c)
  /\ Firsts(<<>>) = <<>>
<1>1. ASSUME NEW c \in Seq(Ones) PROVE Firsts(c) \in Seq(Texts) /\ Len(Firsts(c)) = Len(c)
  <2>1. \A i \in 1 .. Len(c) : c[i][1] \in Texts
    <3> SUFFICES ASSUME NEW i \in 1 .. Len(c) PROVE c[i][1] \in Texts
        OBVIOUS
    <3>1. PICK l \in Texts : c[i] = <<l>>
      BY DEF Ones
    <3> QED
      BY <3>1
  <2>2. Len(c) \in Nat
    OBVIOUS
  <2> QED
    BY <2>1, <2>2 DEF Firsts
<1>2. Firsts(<<>>) = <<>>
  BY DEF Firsts
<1> QED
  BY <1>1, <1>2

\* What is printed first is the first that was left.
LEMMA FirstOfFirsts ==
  ASSUME NEW c \in Seq(Ones), c # <<>>, NEW p \in Seq(Texts)
  PROVE  /\ p \o Head(c) \in Seq(Texts) /\ Tail(c) \in Seq(Ones)
         /\ (p \o Head(c)) \o Firsts(Tail(c)) = p \o Firsts(c)
<1>1. /\ Head(c) \in Ones /\ Tail(c) \in Seq(Ones) /\ Len(Tail(c)) = Len(c) - 1 /\ Len(c) >= 1
      /\ Len(c) \in Nat /\ \A i \in 1 .. Len(c) - 1 : Tail(c)[i] = c[i + 1]
      /\ Head(c) = c[1]
  BY HeadTailProperties
<1>2. PICK l \in Texts : Head(c) = <<l>>
  BY <1>1 DEF Ones
<1>3. Head(c) \in Seq(Texts)
  BY <1>2, OneElement, Zenon
<1>4. /\ Firsts(c) \in Seq(Texts) /\ Len(Firsts(c)) = Len(c)
      /\ Firsts(Tail(c)) \in Seq(Texts) /\ Len(Firsts(Tail(c))) = Len(c) - 1
  BY <1>1, FirstsType
<1>5. Head(c) \o Firsts(Tail(c)) = Firsts(c)
  <2> DEFINE q == Head(c) \o Firsts(Tail(c))
  <2>1. /\ q \in Seq(Texts) /\ Len(q) = Len(c)
        /\ q[1] = l /\ \A i \in 1 .. Len(c) - 1 : q[i + 1] = Firsts(Tail(c))[i]
    <3>1. Len(Head(c)) = 1 /\ Head(c)[1] = l
      <4>1. Len(<<l>>) = 1 /\ <<l>>[1] = l
        OBVIOUS
      <4> QED
        BY <1>2, <4>1, Zenon
    <3>2. /\ q \in Seq(Texts) /\ Len(q) = Len(Head(c)) + Len(Firsts(Tail(c)))
          /\ \A i \in 1 .. Len(Head(c)) + Len(Firsts(Tail(c))) :
               q[i] = IF i <= Len(Head(c)) THEN Head(c)[i] ELSE Firsts(Tail(c))[i - Len(Head(c))]
      BY <1>3, <1>4, ConcatProperties
    <3> HIDE DEF q
    <3>3. 1 + (Len(c) - 1) = Len(c) /\ 1 \in 1 .. Len(c) /\ 1 <= 1
      BY <1>1
    <3>4. \A i \in 1 .. Len(c) - 1 : i + 1 \in 1 .. Len(c) /\ ~(i + 1 <= 1) /\ (i + 1) - 1 = i
      BY <1>1
    <3> QED
      BY <1>4, <3>1, <3>2, <3>3, <3>4
  <2>2. Firsts(c)[1] = l
    <3>1. 1 \in 1 .. Len(c) /\ c[1][1] = l
      BY <1>1, <1>2
    <3> QED
      BY <3>1 DEF Firsts
  <2>3. ASSUME NEW i \in 1 .. Len(c) - 1 PROVE Firsts(c)[i + 1] = Firsts(Tail(c))[i]
    <3>1. i + 1 \in 1 .. Len(c) /\ i \in 1 .. Len(Tail(c))
      BY <1>1
    <3> QED
      BY <1>1, <3>1 DEF Firsts
  <2> HIDE DEF q
  <2>4. ASSUME NEW i \in 1 .. Len(c) PROVE q[i] = Firsts(c)[i]
    <3>1. CASE i = 1
      BY <2>1, <2>2, <3>1
    <3>2. CASE i # 1
      <4>1. i - 1 \in 1 .. Len(c) - 1 /\ (i - 1) + 1 = i
        BY <1>1, <3>2
      <4>2. q[(i - 1) + 1] = Firsts(Tail(c))[i - 1] /\ Firsts(c)[(i - 1) + 1] = Firsts(Tail(c))[i - 1]
        BY <2>1, <2>3, <4>1
      <4> QED
        BY <4>1, <4>2
    <3> QED
      BY <3>1, <3>2
  <2>5. q = Firsts(c)
    BY <1>4, <2>1, <2>4, SeqEqual
  <2> QED
    BY <2>5 DEF q
<1>6. (p \o Head(c)) \o Firsts(Tail(c)) = p \o (Head(c) \o Firsts(Tail(c)))
  <2>1. \A a, b, d \in Seq(Texts) : (a \o b) \o d = a \o (b \o d)
    BY Associates, SMTT(20)
  <2> QED
    BY <1>3, <1>4, <2>1
<1>7. p \o Head(c) \in Seq(Texts)
  BY <1>3, ConcatProperties
<1> QED
  BY <1>1, <1>5, <1>6, <1>7

\* Printing moves a line from what is left to what is printed.
LEMMA PrintingSays ==
  ASSUME EngineInv, ScreenInv, ConvergeInv, Converge, NEW a \in Actors, Printing(a)
  PROVE  /\ Said' = Said /\ printed' \in Seq(Texts)
         /\ calls'["main"] \in Seq(Ones) /\ calls'["writer"] \in Seq(Ones)
         /\ Idle("main") => calls'["main"] = <<>>
         /\ Idle("writer") => calls'["writer"] = <<>>
<1> DEFINE sp == Speaker
<1>1. /\ printed \in Seq(Texts) /\ calls["main"] \in Seq(Ones) /\ calls["writer"] \in Seq(Ones)
      /\ pc \notin Rest => Idle("main")
      /\ pc \in Rest => Idle("writer")
  BY DEF ConvergeInv, EngineInv
<1>2. UNCHANGED <<engine, own>>
  BY DEF Printing
<1>3. /\ calls["ticker"] \in {<<>>, <<Redraw>>} /\ (holder # "none" => ~Idle(holder))
      /\ DOMAIN calls = Actors /\ (~running => holder = "none")
      /\ holder \in Actors \union {"none"}
  BY DEF ScreenInv, RegionTypeOK
<1>4. sp' = sp /\ sp \in {"main", "writer"} /\ sp \in Actors
  BY <1>2 DEF Speaker, own, Actors
<1>5. calls[sp] \in Seq(Ones) /\ (~Idle(a) => a = sp \/ a = "ticker")
  BY <1>1, <1>4 DEF Speaker, Actors
<1> HIDE DEF sp
<1>6. Left(sp) = IF holder = sp THEN Tail(calls[sp]) ELSE calls[sp]
  BY DEF Left
<1>7. Left(sp)' = IF holder' = sp THEN Tail(calls'[sp]) ELSE calls'[sp]
  BY <1>4 DEF Left
<1>8. Said = printed \o Firsts(Left(sp)) /\ Said' = printed' \o Firsts(Left(sp)')
  BY <1>4 DEF Said, sp
<1>9. CASE Enter(a)
  <2>1. /\ ~Idle(a) /\ holder = "none" /\ holder' = a /\ calls' = calls
        /\ printed' = printed \o Head(calls[a])
    BY <1>9 DEF Enter
  <2>2. Left(sp) = calls[sp]
    BY <1>4, <1>6, <2>1 DEF Actors
  <2>3. CASE a = sp
    <3>1. Left(sp)' = Tail(calls[sp])
      BY <1>7, <2>1, <2>3
    <3>2. calls[sp] # <<>>
      BY <2>1, <2>3 DEF Idle
    <3>3. /\ printed \o Head(calls[sp]) \in Seq(Texts)
          /\ (printed \o Head(calls[sp])) \o Firsts(Tail(calls[sp])) = printed \o Firsts(calls[sp])
      BY <1>1, <1>5, <3>2, FirstOfFirsts
    <3>4. Said' = Said /\ printed' \in Seq(Texts)
      BY <1>8, <2>1, <2>2, <2>3, <3>1, <3>3, Zenon
    <3> QED
      BY <1>1, <2>1, <3>4 DEF Idle
  <2>4. CASE a # sp
    <3>1. a = "ticker" /\ calls[a] = <<Redraw>>
      BY <1>3, <1>5, <2>1, <2>4 DEF Idle
    <3>2. Head(<<Redraw>>) = <<>>
      BY DEF Redraw
    <3>3. printed' = printed
      BY <1>1, <2>1, <3>1, <3>2, ConcatEmptySeq
    <3>4. Left(sp)' = calls[sp]
      BY <1>4, <1>7, <2>1, <2>4
    <3>5. Said' = Said
      BY <1>8, <2>2, <3>3, <3>4, Zenon
    <3> QED
      BY <1>1, <2>1, <3>3, <3>5 DEF Idle
  <2> QED
    BY <2>3, <2>4
<1>10. CASE Leave(a, FrameLines)
  <2>1. /\ holder = a /\ holder' = "none" /\ printed' = printed
        /\ calls' = [calls EXCEPT ![a] = Tail(@)]
    BY <1>10 DEF Leave
  <2>2. a = sp \/ a = "ticker"
    BY <1>3, <1>5, <2>1 DEF Actors
  <2>3. ~Idle(a)
    BY <1>3, <2>1 DEF Actors
  <2>4. Left(sp)' = calls'[sp]
    BY <1>4, <1>7, <2>1 DEF Actors
  <2>5. Left(sp)' = Left(sp)
    BY <1>3, <1>4, <1>6, <2>1, <2>4 DEF Actors
  <2>6. Said' = Said
    BY <1>8, <2>1, <2>5, Zenon
  <2>7. \A b \in Actors : calls'[b] = IF b = a THEN Tail(calls[b]) ELSE calls[b]
    BY <1>3, <2>1
  <2>8. a \in {"main", "writer"} => Tail(calls[a]) \in Seq(Ones)
    <3>1. a \in {"main", "writer"} => calls[a] \in Seq(Ones) /\ calls[a] # <<>>
      BY <1>1, <2>3 DEF Idle
    <3> QED
      BY <3>1
  <2>9. calls'["main"] \in Seq(Ones) /\ calls'["writer"] \in Seq(Ones)
    BY <1>1, <2>7, <2>8 DEF Actors
  <2> QED
    BY <1>1, <2>1, <2>3, <2>6, <2>7, <2>9 DEF Idle, Actors
<1>11. CASE PrintPlain(a)
  <2>1. /\ ~Idle(a) /\ holder = "none" /\ holder' = holder /\ a # "ticker"
        /\ printed' = printed \o Head(calls[a])
        /\ calls' = [calls EXCEPT ![a] = Tail(@)]
    BY <1>3, <1>11 DEF PrintPlain
  <2>2. a = sp /\ calls[sp] # <<>>
    BY <1>5, <2>1 DEF Idle
  <2>3. Left(sp) = calls[sp] /\ Left(sp)' = Tail(calls[sp])
    BY <1>3, <1>4, <1>6, <1>7, <2>1, <2>2 DEF Actors
  <2>4. /\ printed \o Head(calls[sp]) \in Seq(Texts) /\ Tail(calls[sp]) \in Seq(Ones)
        /\ (printed \o Head(calls[sp])) \o Firsts(Tail(calls[sp])) = printed \o Firsts(calls[sp])
    BY <1>1, <1>5, <2>2, FirstOfFirsts
  <2>5. Said' = Said /\ printed' \in Seq(Texts)
    BY <1>8, <2>1, <2>2, <2>3, <2>4, Zenon
  <2>6. \A b \in Actors : calls'[b] = IF b = a THEN Tail(calls[b]) ELSE calls[b]
    BY <1>3, <2>1
  <2>7. calls'["main"] \in Seq(Ones) /\ calls'["writer"] \in Seq(Ones)
    BY <1>1, <2>2, <2>4, <2>6 DEF Actors
  <2> QED
    BY <2>1, <2>5, <2>6, <2>7 DEF Idle, Actors
<1> QED
  BY <1>9, <1>10, <1>11 DEF Printing

LEMMA SaysTheSame ==
  ASSUME UNCHANGED <<printed, holder>>, calls'["main"] = calls["main"],
         calls'["writer"] = calls["writer"], pc' \in Rest <=> pc \in Rest
  PROVE  Said' = Said
<1>1. Speaker' = Speaker /\ Speaker \in {"main", "writer"}
  BY DEF Speaker
<1>2. Left(Speaker)' = Left(Speaker)
  BY <1>1 DEF Left
<1> QED
  BY <1>1, <1>2 DEF Said

LEMMA StreamType ==
  ASSUME EngineInv, DataInv, Converge
  PROVE  command.stream \in Seq(Lines) /\ Len(command.stream) \in Nat
<1>1. command.stream \in Seq(Lines)
  BY CommandType DEF EngineInv, DataInv, Converge
<1> QED
  BY <1>1

LEMMA ConvergeInit == Init => ConvergeInv
<1> SUFFICES ASSUME Init, Converge PROVE ConvergeInv
    BY DEF ConvergeInv
<1>1. /\ command \in Commands /\ mode = command.mode /\ code = "none" /\ due = <<>>
      /\ result = "none" /\ todo = command.stream /\ pc = "start" /\ chef = EmptyView
      /\ exec = "before" /\ printed = <<>> /\ holder = "none"
      /\ calls["main"] = <<>> /\ calls["writer"] = <<>>
  BY DEF Init, InitRegion, Actors
<1> DEFINE s == command.stream
<1>2. s \in Seq(Lines)
  BY <1>1, CommandType DEF Converge
<1>3. pc \notin Rest
  BY <1>1 DEF Rest
<1>4. Said = <<>>
  <2>1. Left(Speaker) = <<>>
    BY <1>1, <1>3 DEF Left, Speaker
  <2>2. <<>> \o <<>> = <<>>
    OBVIOUS
  <2> QED
    BY <1>1, <2>1, <2>2, FirstsType DEF Said
<1>5. Finished(s, 0) = {} /\ Open(s, 0) = {}
  <2>1. \A i \in 1 .. Len(s) : i + 1 .. 0 = {}
    OBVIOUS
  <2>2. ChangedIn(s) \in SUBSET (1 .. Len(s))
    BY DEF ChangedIn
  <2>3. \A i \in ChangedIn(s) : ~(\E k \in i + 1 .. 0 : EndsResource(s[k]))
    BY <2>1, <2>2
  <2> QED
    BY <2>3 DEF Finished, Open
<1>6. Listed(<<>>, {}, s)
  <2> DEFINE at == [i \in {} |-> 1]
  <2>1. at \in [{} -> DOMAIN <<>>]
    OBVIOUS
  <2>2. DOMAIN <<>> = {}
    OBVIOUS
  <2> QED
    BY <2>1, <2>2 DEF Listed
<1>7. chef \in Views /\ Balanced(chef) /\ chef.cur = NoResource /\ chef.updated = 0
  BY <1>1 DEF EmptyView, Views, Balanced
<1>8. At(0, 0)
  <2>1. SubSeq(s, 0 + 1, Len(s)) = s
    BY <1>2, SubSeqFull
  <2>2. Cardinality(Finished(s, 0)) = 0
    BY <1>5, FS_EmptySet
  <2>3. CurAt(chef.cur, s, 0)
    BY <1>5, <1>7 DEF CurAt
  <2> QED
    BY <1>1, <1>3, <1>4, <1>5, <1>6, <1>7, <2>1, <2>2, <2>3 DEF At
<1>9. 0 \in 0 .. Len(s)
  BY <1>2
<1> QED
  BY <1>1, <1>3, <1>7, <1>8, <1>9, OneElement DEF ConvergeInv, Idle

\* A step of the engine, which neither the view nor the screen takes part in.
LEMMA EngineKeepsConverge ==
  ASSUME ConvergeInv, Converge, Converge', UNCHANGED <<command, chef, due, printed, holder, calls>>,
         pc' \in Rest <=> pc \in Rest, result' \in {result, "error"},
         code' = "failed" \/ UNCHANGED <<code, todo>>,
         exec' \in {"before", "returned"} => exec \in {"before", "returned"} \/ Handled
  PROVE  ConvergeInv'
<1>1. Said' = Said
  BY SaysTheSame
<1>2. \A n, m \in 0 .. Len(command.stream) : At(n, m) => At(n, m)'
  BY <1>1 DEF At
<1>3. Final => Final'
  BY <1>1 DEF Final
<1> QED
  BY <1>2, <1>3 DEF ConvergeInv, Idle, Handled

\* The resource the output ended with is counted, and printed if it changed.
LEMMA OverEnds ==
  ASSUME EngineInv, DataInv, ScreenInv, ConvergeInv, Converge, Over
  PROVE  ConvergeInv'
<1> DEFINE s == command.stream
           c == chef.cur
           v == [chef EXCEPT !.cur = NoResource]
<1>1. /\ pc = "exec" /\ exec = "returned" /\ pc' = "finish"
      /\ chef' = FinishRes(v, c)
      /\ calls' = [calls EXCEPT !["main"] = IF Changed(c) THEN <<<<c.name>>>> ELSE <<>>]
      /\ UNCHANGED <<printed, holder, engine, command, due, mode>>
  BY DEF Over, screen, engine
<1>2. /\ chef \in Views /\ printed \in Seq(Texts) /\ calls["writer"] \in Seq(Ones)
      /\ due = <<>> /\ Idle("writer") /\ Idle("main") /\ pc \notin Rest /\ pc' \in Rest
  BY <1>1 DEF ConvergeInv, Rest
<1>3. DOMAIN calls = Actors /\ (holder # "none" => ~Idle(holder))
  BY DEF ScreenInv, RegionTypeOK
<1>4. holder # "main" /\ holder # "writer"
  BY <1>2, <1>3
<1>5. s \in Seq(Lines) /\ Len(s) \in Nat
  BY StreamType
<1>6. PICK n, m \in 0 .. Len(s) : At(n, m)
  BY DEF ConvergeInv
<1>7. Said = printed
  <2>1. Left(Speaker) = <<>>
    BY <1>2, <1>4 DEF Left, Speaker, Idle
  <2> QED
    BY <1>2, <2>1, FirstsType, ConcatEmptySeq DEF Said
<1>8. /\ Balanced(chef) /\ CurAt(c, s, n) /\ chef.updated = Cardinality(Finished(s, n))
      /\ Listed(printed, Finished(s, n), s)
      /\ result = "ok" => n = Len(s)
  BY <1>2, <1>6, <1>7 DEF At
<1>9. /\ v \in Views /\ v.cur = NoResource /\ v.updated = chef.updated /\ v.seen = chef.seen
      /\ v.upToDate = chef.upToDate /\ v.skipped = chef.skipped
      /\ chef.seen \in Nat /\ chef.updated \in Nat /\ chef.upToDate \in Nat /\ chef.skipped \in Nat
      /\ c \in Started \union {NoResource}
  <2>1. v \in Views
    BY <1>2, ViewChanges
  <2> QED
    BY <1>2, <2>1 DEF Views
<1> HIDE DEF v
<1>10. calls'["writer"] = <<>> /\ calls'["main"] = (IF Changed(c) THEN <<<<c.name>>>> ELSE <<>>)
  BY <1>1, <1>2, <1>3 DEF Actors, Idle
<1>11. Left("main")' = calls'["main"] /\ Speaker' = "main"
  BY <1>1, <1>2, <1>4 DEF Left, Speaker
<1>12. Said' = printed \o Firsts(calls'["main"])
  BY <1>1, <1>11 DEF Said
<1>13. CASE Changed(c)
  <2>1. c \in Started /\ c # NoResource /\ c.name \in Texts
    BY <1>9, <1>13 DEF Changed, Started, Texts
  <2>2. <<<<c.name>>>> \in Seq(Ones)
    <3>1. <<c.name>> \in Ones
      BY <2>1 DEF Ones
    <3> QED
      BY <3>1, OneElement, Zenon
  <2>3. Firsts(<<<<c.name>>>>) = <<c.name>>
    <3>1. Len(<<<<c.name>>>>) = 1 /\ <<<<c.name>>>>[1][1] = c.name
      OBVIOUS
    <3>2. Firsts(<<<<c.name>>>>) = [i \in 1 .. 1 |-> <<<<c.name>>>>[i][1]]
      BY <3>1, Zenon DEF Firsts
    <3>3. [i \in 1 .. 1 |-> <<<<c.name>>>>[i][1]] = <<c.name>>
      OBVIOUS
    <3> QED
      BY <3>2, <3>3, Zenon
  <2>4. Said' = Append(printed, c.name)
    <3>1. Said' = printed \o <<c.name>>
      BY <1>10, <1>12, <1>13, <2>3, Zenon
    <3> QED
      BY <1>2, <2>1, <3>1, AppendIsConcat
  <2>5. chef' = [v EXCEPT !.updated = @ + 1]
    BY <1>1, <1>13, <2>1 DEF FinishRes
  <2>6. chef' \in Views /\ chef'.updated = chef.updated + 1 /\ chef'.seen = chef.seen
        /\ chef'.upToDate = chef.upToDate /\ chef'.skipped = chef.skipped
    BY <1>9, <2>5 DEF Views
  <2>7. result = "ok" => Final'
    <3> SUFFICES ASSUME result = "ok" PROVE Final'
        OBVIOUS
    <3>1. PICK i \in 1 .. Len(s) : /\ c.name = s[i].name /\ i \notin Finished(s, Len(s))
                                   /\ \A j \in Finished(s, Len(s)) : j < i
                                   /\ ChangedIn(s) = Finished(s, Len(s)) \union {i}
      BY <1>5, <1>8, <1>13, AllFinished
    <3>2. Finished(s, Len(s)) \in SUBSET Nat /\ i \in Nat
          /\ Cardinality(ChangedIn(s)) = Cardinality(Finished(s, Len(s))) + 1
      BY <1>5, <3>1, FinishedCount
    <3>3. Listed(Append(printed, s[i].name), Finished(s, Len(s)) \union {i}, s)
      BY <1>2, <1>8, <2>1, <3>1, <3>2, ListedName
    <3>4. Listed(Said', ChangedIn(s), s)
      BY <2>4, <3>1, <3>3
    <3>5. chef'.seen = chef'.updated + chef'.upToDate + chef'.skipped
      <4>1. chef.seen = chef.updated + chef.upToDate + chef.skipped + 1
        BY <1>8, <2>1 DEF Balanced
      <4> QED
        BY <1>9, <2>6, <4>1
    <3>6. chef'.updated = Cardinality(ChangedIn(s))
      BY <1>5, <1>8, <2>6, <3>2
    <3> QED
      BY <1>1, <3>4, <3>5, <3>6 DEF Final
  <2>8. At(n, m)'
    BY <1>1, <1>2, <1>6 DEF At, engine
  <2> QED
    BY <1>1, <1>2, <1>6, <1>10, <1>13, <2>2, <2>6, <2>7, <2>8, OneElement DEF ConvergeInv, engine, Idle
<1>14. CASE ~Changed(c)
  <2>1. Said' = printed
    BY <1>2, <1>10, <1>12, <1>14, FirstsType, ConcatEmptySeq
  <2>2. chef' = IF c = NoResource THEN v ELSE [v EXCEPT !.upToDate = @ + 1]
    BY <1>1, <1>14 DEF FinishRes
  <2>3. chef' \in Views /\ chef'.updated = chef.updated /\ chef'.seen = chef.seen
        /\ chef'.upToDate = chef.upToDate + (IF c = NoResource THEN 0 ELSE 1)
        /\ chef'.skipped = chef.skipped
    <3>1. CASE c = NoResource
      BY <1>9, <2>2, <3>1
    <3>2. CASE c # NoResource
      BY <1>9, <2>2, <3>2 DEF Views
    <3> QED
      BY <3>1, <3>2
  <2>4. result = "ok" => Final'
    <3> SUFFICES ASSUME result = "ok" PROVE Final'
        OBVIOUS
    <3>1. ChangedIn(s) = Finished(s, Len(s))
      BY <1>5, <1>8, <1>14, AllFinished
    <3>2. Listed(Said', ChangedIn(s), s)
      BY <1>8, <2>1, <3>1
    <3>3. chef'.seen = chef'.updated + chef'.upToDate + chef'.skipped
      <4>1. CASE c = NoResource
        <5>1. chef.seen = chef.updated + chef.upToDate + chef.skipped + 0
              /\ chef'.upToDate = chef.upToDate + 0
          BY <1>8, <2>3, <4>1 DEF Balanced
        <5>2. \A i, j, k, l, r \in Nat : i = j + k + l + 0 /\ r = k + 0 => i = j + r + l
          OBVIOUS
        <5>3. chef'.upToDate \in Nat
          BY <2>3, ViewChanges
        <5>4. /\ chef'.seen = chef.seen /\ chef'.updated = chef.updated /\ chef'.skipped = chef.skipped
              /\ chef.seen \in Nat /\ chef.updated \in Nat /\ chef.upToDate \in Nat /\ chef.skipped \in Nat
          BY <1>9, <2>3
        <5> QED
          BY <5>1, <5>2, <5>3, <5>4
      <4>2. CASE c # NoResource
        <5>1. chef.seen = chef.updated + chef.upToDate + chef.skipped + 1
              /\ chef'.upToDate = chef.upToDate + 1
          BY <1>8, <2>3, <4>2 DEF Balanced
        <5>2. \A i, j, k, l, r \in Nat : i = j + k + l + 1 /\ r = k + 1 => i = j + r + l
          OBVIOUS
        <5>3. chef'.upToDate \in Nat
          BY <2>3, ViewChanges
        <5>4. /\ chef'.seen = chef.seen /\ chef'.updated = chef.updated /\ chef'.skipped = chef.skipped
              /\ chef.seen \in Nat /\ chef.updated \in Nat /\ chef.upToDate \in Nat /\ chef.skipped \in Nat
          BY <1>9, <2>3
        <5> QED
          BY <5>1, <5>2, <5>3, <5>4
      <4> QED
        BY <4>1, <4>2
    <3> QED
      BY <1>1, <1>8, <2>3, <3>1, <3>2, <3>3 DEF Final
  <2>5. At(n, m)'
    BY <1>1, <1>2, <1>6 DEF At, engine
  <2> QED
    BY <1>1, <1>2, <1>6, <1>10, <1>14, <2>3, <2>4, <2>5, OneElement DEF ConvergeInv, engine, Idle
<1> QED
  BY <1>13, <1>14

\* The last line of a command names no resource.
LEMMA SummarySays ==
  ASSUME EngineInv, DataInv, ScreenInv, ConvergeInv, Converge, Summary
  PROVE  ConvergeInv'
<1> DEFINE s == command.stream
<1>1. /\ pc = "summary" /\ pc' = "ended" /\ printed' = Append(printed, "summary")
      /\ UNCHANGED <<holder, calls, engine, command, due, mode, chef, exec, code, todo, result>>
  BY DEF Summary, engine, view
<1>2. pc \in Rest /\ pc' \in Rest /\ printed \in Seq(Texts) /\ Idle("main")
  BY <1>1 DEF ConvergeInv, ScreenInv, Rest
<1>3. holder # "main"
  BY <1>2 DEF ScreenInv
<1>4. printed' \in Seq(Texts)
  <2>1. "summary" \in Texts
    BY DEF Texts
  <2>2. \A p \in Seq(Texts), l \in Texts : Append(p, l) \in Seq(Texts)
    OBVIOUS
  <2> QED
    BY <1>1, <1>2, <2>1, <2>2, Zenon
<1>5. Said = printed /\ Said' = printed'
  <2>1. Left(Speaker) = <<>> /\ Left(Speaker)' = <<>>
    BY <1>1, <1>2, <1>3 DEF Left, Speaker, Idle
  <2> QED
    BY <1>2, <1>4, <2>1, FirstsType, ConcatEmptySeq DEF Said
<1>6. ASSUME Final PROVE Final'
  <2>1. ChangedIn(s) \in SUBSET Nat
    BY DEF ChangedIn
  <2>2. Listed(Append(printed, "summary"), ChangedIn(s), s)
    BY <1>2, <1>5, <1>6, <2>1, ListedNote DEF Final
  <2> QED
    BY <1>1, <1>5, <1>6, <2>2 DEF Final
<1>7. \A n, m \in 0 .. Len(s) : At(n, m) => At(n, m)'
  BY <1>1, <1>2 DEF At
<1> QED
  BY <1>1, <1>2, <1>6, <1>7, <1>4 DEF ConvergeInv, Idle

\* Texts as one call each.
LEMMA OneCallEach ==
  ASSUME NEW q \in Seq(Texts)
  PROVE  LET each == [i \in 1 .. Len(q) |-> <<q[i]>>]
         IN  each \in Seq(Ones) /\ Firsts(each) = q
<1> DEFINE each == [i \in 1 .. Len(q) |-> <<q[i]>>]
<1>1. Len(q) \in Nat /\ \A i \in 1 .. Len(q) : q[i] \in Texts
  BY ElementOfSeq
<1>2. each \in Seq(Ones) /\ Len(each) = Len(q)
  <2>1. \A i \in 1 .. Len(q) : <<q[i]>> \in Ones
    BY <1>1 DEF Ones
  <2> QED
    BY <1>1, <2>1
<1>3. \A i \in 1 .. Len(q) : each[i][1] = q[i]
  OBVIOUS
<1> HIDE DEF each
<1>4. Firsts(each) \in Seq(Texts) /\ Len(Firsts(each)) = Len(q)
  BY <1>2, FirstsType
<1>5. \A i \in 1 .. Len(q) : Firsts(each)[i] = q[i]
  BY <1>2, <1>3 DEF Firsts
<1>6. Firsts(each) = q
  BY <1>1, <1>4, <1>5, SeqEqual
<1> QED
  BY <1>2, <1>6 DEF each

\* A line of the output: what it ends is counted, and due to be printed.
LEMMA ReadLineKeeps ==
  ASSUME EngineInv, DataInv, ScreenInv, ConvergeInv, ReadLine
  PROVE  ConvergeInv'
<1> DEFINE s     == command.stream
           x     == Head(due)
           ended == Ended(chef, x)
           said  == (IF Changed(ended) THEN <<ended.name>> ELSE <<>>) \o Notes(x)
           own1  == [i \in 1 .. Len(said) |-> <<said[i]>>]
<1>1. /\ Converge /\ due # <<>> /\ due' = <<>>
      /\ chef' = After(chef, x) /\ calls' = [calls EXCEPT !["writer"] = own1]
      /\ UNCHANGED <<holder, engine, command, mode, printed, exec, code, todo, result, pc>>
  BY DEF ReadLine, After, screen, engine
<1>2. s \in Seq(Lines) /\ Len(s) \in Nat
  BY <1>1, StreamType
<1>3. /\ chef \in Views /\ printed \in Seq(Texts) /\ calls["main"] \in Seq(Ones)
      /\ exec \notin {"before", "returned"} /\ pc \notin Rest /\ Idle("main")
      /\ code = "ok" => todo = <<>>
  BY <1>1 DEF ConvergeInv, EngineInv
<1>4. Idle("writer") /\ holder # "writer" /\ DOMAIN calls = Actors
  BY <1>1 DEF ScreenInv, RegionTypeOK
<1>5. PICK n, m \in 0 .. Len(s) : At(n, m)
  BY <1>1 DEF ConvergeInv
<1>6. /\ m = n + 1 /\ due = <<s[n + 1]>> /\ n \in 0 .. Len(s) - 1 /\ n \in Nat
      /\ code # "failed" => todo = SubSeq(s, m + 1, Len(s))
      /\ Balanced(chef) /\ CurAt(chef.cur, s, n) /\ chef.updated = Cardinality(Finished(s, n))
      /\ Listed(Said, Finished(s, n), s)
  <2>1. m = n + 1 /\ due = <<s[m]>>
    BY <1>1, <1>5 DEF At
  <2>2. n \in 0 .. Len(s) - 1 /\ n \in Nat
    BY <1>2, <2>1
  <2> QED
    BY <1>3, <1>5, <2>1, <2>2 DEF At
<1>7. x = s[n + 1] /\ x \in Lines
  <2>1. Head(<<s[n + 1]>>) = s[n + 1]
    OBVIOUS
  <2>2. n + 1 \in 1 .. Len(s)
    BY <1>2, <1>6
  <2>3. s[n + 1] \in Lines
    BY <1>2, <2>2
  <2> QED
    BY <1>6, <2>1, <2>3
<1>8. Said = printed
  <2>1. Left(Speaker) = <<>>
    BY <1>3, <1>4 DEF Left, Speaker, Idle
  <2> QED
    BY <1>3, <2>1, FirstsType, ConcatEmptySeq DEF Said
<1> HIDE DEF x
<1> DEFINE e == IF Changed(ended) THEN <<ended.name>> ELSE <<>>
<1>9. /\ chef' \in Views /\ chef'.cur = NextCur(chef.cur, x) /\ Balanced(chef')
      /\ chef'.updated = chef.updated + (IF Changed(ended) THEN 1 ELSE 0)
  BY <1>1, <1>3, <1>6, <1>7, AfterIs
<1>10. ended \in Started \union {NoResource} /\ (Changed(ended) => ended.name \in Texts)
  <2>1. ended \in Started \union {NoResource}
    BY <1>3, ViewChanges DEF Ended
  <2>2. Changed(ended) => ended \in Started
    BY <2>1 DEF Changed
  <2> HIDE DEF ended
  <2>3. \A r \in Started : r.name \in Texts
    BY DEF Started, Texts
  <2> QED
    BY <2>1, <2>2, <2>3
<1>11. e \in Seq(Texts) /\ Notes(x) \in Seq(Texts) /\ (Notes(x) = <<>> \/ Notes(x) = <<"note">>)
  <2>1. e \in Seq(Texts)
    <3> HIDE DEF ended
    <3> QED
      BY <1>10, OneElement
  <2>2. "note" \in Texts
    BY DEF Texts
  <2>3. Notes(x) = <<>> \/ Notes(x) = <<"note">>
    BY DEF Notes
  <2> QED
    BY <2>1, <2>2, <2>3, OneElement, Zenon
<1>12. /\ said \in Seq(Texts) /\ own1 \in Seq(Ones) /\ Firsts(own1) = said
       /\ printed \o said = (printed \o e) \o Notes(x)
  <2>1. said = e \o Notes(x)
    OBVIOUS
  <2> HIDE DEF e
  <2>2. said \in Seq(Texts)
    BY <1>11, <2>1, ConcatProperties
  <2>3. \A a, b, d \in Seq(Texts) : (a \o b) \o d = a \o (b \o d)
    BY Associates, SMTT(20)
  <2> HIDE DEF said
  <2>4. printed \o said = (printed \o e) \o Notes(x)
    <3>1. (printed \o e) \o Notes(x) = printed \o (e \o Notes(x))
      BY <1>3, <1>11, <2>3
    <3> QED
      BY <2>1, <3>1, Zenon
  <2> QED
    BY <2>2, <2>4, OneCallEach
<1>13. calls'["writer"] = own1 /\ calls'["main"] = calls["main"]
  BY <1>1, <1>4 DEF Actors
<1>14. Said' = printed \o said
  <2> HIDE DEF own1, said
  <2>1. Left(Speaker)' = own1
    BY <1>1, <1>3, <1>4, <1>13 DEF Left, Speaker
  <2> QED
    BY <1>1, <1>12, <2>1 DEF Said
<1>15. /\ Listed(printed \o e, Finished(s, n + 1), s)
       /\ chef'.updated = Cardinality(Finished(s, n + 1))
  <2>1. /\ ~Changed(ended) => Finished(s, n + 1) = Finished(s, n)
        /\ Changed(ended) =>
             \E i \in 1 .. n : /\ ended.name = s[i].name /\ i \notin Finished(s, n)
                               /\ \A j \in Finished(s, n) : j < i
                               /\ Finished(s, n + 1) = Finished(s, n) \union {i}
    BY <1>2, <1>6, <1>7, FinishedStep
  <2>2. Finished(s, n) \in SUBSET Nat
    <3>1. Finished(s, n) \in SUBSET (1 .. Len(s))
      BY <1>2, FinishedCount
    <3> QED
      BY <3>1
  <2>3. CASE Changed(ended)
    <3>1. PICK i \in 1 .. n : /\ ended.name = s[i].name /\ i \notin Finished(s, n)
                              /\ \A j \in Finished(s, n) : j < i
                              /\ Finished(s, n + 1) = Finished(s, n) \union {i}
      BY <2>1, <2>3
    <3>2. Cardinality(Finished(s, n + 1)) = Cardinality(Finished(s, n)) + 1
      BY <1>2, <3>1, FinishedCount
    <3>3. i \in Nat /\ s[i].name \in Texts
      BY <1>10, <2>3, <3>1
    <3>4. Listed(Append(printed, s[i].name), Finished(s, n) \union {i}, s)
      BY <1>3, <1>6, <1>8, <2>2, <3>1, <3>3, ListedName
    <3>5. printed \o e = Append(printed, s[i].name)
      <4>1. e = <<s[i].name>>
        BY <2>3, <3>1
      <4> QED
        BY <1>3, <3>3, <4>1, AppendIsConcat
    <3>6. Listed(printed \o e, Finished(s, n + 1), s)
      BY <3>1, <3>4, <3>5
    <3>7. chef'.updated = chef.updated + 1
      BY <1>9, <2>3
    <3> QED
      BY <1>6, <3>2, <3>6, <3>7
  <2>4. CASE ~Changed(ended)
    <3>1. printed \o e = printed
      BY <1>3, <2>4, ConcatEmptySeq
    <3>2. chef'.updated = chef.updated
      <4>1. chef'.updated = chef.updated + 0 /\ chef.updated \in Nat
        BY <1>3, <1>9, <2>4, ViewChanges
      <4> QED
        BY <4>1
    <3> QED
      BY <1>6, <1>8, <2>1, <2>4, <3>1, <3>2
  <2> QED
    BY <2>3, <2>4
<1>16. Listed(Said', Finished(s, n + 1), s)
  <2> HIDE DEF e
  <2>1. printed \o e \in Seq(Texts)
    BY <1>3, <1>11, ConcatProperties
  <2>2. Finished(s, n + 1) \in SUBSET Nat
    <3>1. Finished(s, n + 1) \in SUBSET (1 .. Len(s))
      BY <1>2, FinishedCount
    <3> QED
      BY <3>1
  <2>3. CASE Notes(x) = <<>>
    <3>1. Said' = printed \o e
      BY <1>12, <1>14, <2>1, <2>3, ConcatEmptySeq
    <3> QED
      BY <1>15, <3>1
  <2>4. CASE Notes(x) = <<"note">>
    <3>1. "note" \in Texts
      BY DEF Texts
    <3>2. Said' = Append(printed \o e, "note")
      BY <1>12, <1>14, <2>1, <2>4, <3>1, AppendIsConcat
    <3>3. Listed(Append(printed \o e, "note"), Finished(s, n + 1), s)
      BY <1>15, <2>1, <2>2, ListedNote
    <3> QED
      BY <3>2, <3>3
  <2> QED
    BY <1>11, <2>3, <2>4
<1>17. CurAt(chef'.cur, s, n + 1)
  BY <1>2, <1>6, <1>7, <1>9, CurStep
<1>18. n + 1 \in 0 .. Len(s)
  BY <1>2, <1>6
<1> HIDE DEF own1, said, e, ended
<1>19. result # "ok"
  BY <1>3 DEF EngineInv
<1>20. At(n + 1, m)'
  BY <1>1, <1>6, <1>9, <1>15, <1>16, <1>17, <1>19 DEF At, engine
<1> QED
  BY <1>1, <1>3, <1>9, <1>12, <1>13, <1>18, <1>20 DEF ConvergeInv, Idle

\* A line is read when the one before is in the view, and printed.
LEMMA ReadKeeps ==
  ASSUME EngineInv, DataInv, ScreenInv, CountInv, ConvergeInv, Converge, Read
  PROVE  ConvergeInv'
<1> DEFINE s == command.stream
<1>1. /\ Alive /\ Handled /\ due' = <<todo[1]>> /\ todo' = SubSeq(todo, 2, Len(todo))
      /\ 1 \in 1 .. Len(todo)
      /\ UNCHANGED <<region, mode, exec, code, result, command, pc, chef>>
  <2>1. PICK k \in 1 .. 1 : /\ Output(k) /\ due' = <<todo[1]>>
                            /\ UNCHANGED <<region, command, pc, chef>> /\ Handled
    BY DEF Read
  <2>2. k = 1 /\ k + 1 = 2
    BY <2>1
  <2> QED
    BY <2>1, <2>2 DEF Output
<1>2. s \in Seq(Lines) /\ Len(s) \in Nat
  BY StreamType
<1>3. /\ client = "running" /\ code = "none" /\ due = <<>>
      /\ exec \notin {"before", "returned"} /\ pc \notin Rest /\ result # "ok"
  <2>1. client = "running" /\ container # "gone"
    BY <1>1 DEF Alive, EngineInv, Converge
  <2>2. code = "none"
    BY <2>1 DEF CountInv
  <2> QED
    BY <1>1, <2>1, <2>2 DEF EngineInv, Handled
<1>4. PICK n, m \in 0 .. Len(s) : At(n, m)
  BY DEF ConvergeInv
<1>5. m = n /\ todo = SubSeq(s, n + 1, Len(s))
  BY <1>3, <1>4 DEF At
<1>6. /\ n \in Nat /\ n + 1 \in 1 .. Len(s) /\ todo[1] = s[n + 1]
      /\ SubSeq(todo, 2, Len(todo)) = SubSeq(s, (n + 1) + 1, Len(s))
  <2>1. Len(todo) = Len(s) - n
    BY <1>2, <1>4, <1>5, TheRest
  <2>2. n \in Nat /\ n + 1 \in 1 .. Len(s)
    BY <1>1, <1>2, <2>1
  <2>3. todo # <<>> /\ todo \in Seq(Lines)
    <3>1. Len(todo) # 0 /\ Len(<<>>) = 0
      BY <1>1
    <3>2. todo \in Seq(Lines)
      BY <1>2, <1>4, <1>5, TheRest
    <3> QED
      BY <3>1, <3>2
  <2>4. Tail(todo) = SubSeq(todo, 2, Len(todo)) /\ Head(todo) = todo[1]
    BY <2>3, TailIsSubSeq, HeadTailProperties
  <2>5. Head(todo) = s[n + 1] /\ Tail(todo) = SubSeq(s, (n + 1) + 1, Len(s))
    <3>1. Len(s) \in n + 1 .. Len(s)
      BY <1>2, <2>2
    <3>2. n + 1 \in 1 .. Len(s) /\ n + 1 <= Len(s)
      BY <2>2
    <3> QED
      BY <1>2, <1>5, <3>1, <3>2, HeadTailOfSubSeq
  <2> QED
    BY <2>2, <2>4, <2>5
<1>7. Said' = Said
  BY <1>1, SaysTheSame DEF region
<1>8. At(n, n + 1)'
  BY <1>1, <1>3, <1>4, <1>5, <1>6, <1>7 DEF At
<1> QED
  BY <1>1, <1>3, <1>4, <1>6, <1>7, <1>8 DEF ConvergeInv, Idle, region

\* A result is one of the whole output.
LEMMA ReturnedKeeps ==
  ASSUME EngineInv, DataInv, ConvergeInv, Converge, Returned
  PROVE  ConvergeInv'
<1> DEFINE s == command.stream
<1>1. /\ exec = "flush" /\ result' = ResultOf /\ due = <<>> /\ Idle("writer")
      /\ UNCHANGED <<region, command, pc, due, chef, mode, code, todo>>
  BY DEF Returned, Return, Handled, own, view
<1>2. s \in Seq(Lines) /\ Len(s) \in Nat
  BY StreamType
<1>3. pc \notin Rest
  BY <1>1 DEF EngineInv, Rest
<1>4. Said' = Said
  BY <1>1, SaysTheSame DEF region
<1>5. PICK n, m \in 0 .. Len(s) : At(n, m)
  BY DEF ConvergeInv
<1>6. result' = "ok" => n = Len(s)
  <2> SUFFICES ASSUME result' = "ok" PROVE n = Len(s)
      OBVIOUS
  <2>1. code = "ok" /\ todo = <<>>
    <3>1. ResultOf = "ok" => code = "ok"
      BY DEF ResultOf, Converge, EngineInv
    <3>2. code = "ok"
      BY <1>1, <3>1
    <3> QED
      BY <3>2 DEF ConvergeInv
  <2>2. m = n /\ SubSeq(s, m + 1, Len(s)) = <<>>
    BY <1>1, <1>5, <2>1 DEF At
  <2>3. Len(SubSeq(s, m + 1, Len(s))) = Len(s) - m
    BY <1>2, TheRest
  <2>4. Len(s) - m = 0
    <3>1. Len(<<>>) = 0
      OBVIOUS
    <3> QED
      BY <2>2, <2>3, <3>1
  <2> QED
    BY <1>2, <2>2, <2>4
<1>7. At(n, m)'
  BY <1>1, <1>3, <1>4, <1>5, <1>6 DEF At
<1> QED
  BY <1>1, <1>3, <1>5, <1>7 DEF ConvergeInv, Idle, region

LEMMA ConvergeNext ==
  EngineInv /\ DataInv /\ ScreenInv /\ LinesInv /\ CountInv /\ ConvergeInv /\ [Next]_vars
    => ConvergeInv'
<1> SUFFICES ASSUME EngineInv, DataInv, ScreenInv, LinesInv, CountInv, ConvergeInv, [Next]_vars,
                    Converge
             PROVE  ConvergeInv'
  <2>1. ~Converge' => ConvergeInv'
    BY DEF ConvergeInv
  <2> QED
    BY <2>1, ModeStays
<1>0. mode' = mode /\ Converge'
  BY ModeStays
<1>1. CASE UNCHANGED <<command, chef, due, printed, holder, calls, engine>>
           /\ (pc' \in Rest <=> pc \in Rest)
  BY <1>0, <1>1, EngineKeepsConverge DEF engine
<1>2. CASE StagingFails
  <2>1. /\ pc = "start" /\ pc' \in Rest /\ result' = "error" /\ pc \notin Rest
        /\ UNCHANGED <<command, chef, due, printed, holder, calls, exec, code, todo>>
    BY <1>2 DEF StagingFails, region, view, Rest
  <2>2. \A n, m \in 0 .. Len(command.stream) : At(n, m) => At(n, m)'
    BY <2>1 DEF At
  <2> QED
    BY <2>1, <2>2 DEF ConvergeInv, Idle
<1>3. CASE BeginConverge
  <2>1. /\ UNCHANGED <<command, chef, due, printed, holder, calls, code, todo>>
        /\ pc \notin Rest /\ pc' \notin Rest /\ result' \in {result, "error"} /\ exec = "before"
    BY <1>3 DEF BeginConverge, Start, StartExec, region, view, Rest
  <2> QED
    BY <1>0, <2>1, EngineKeepsConverge
<1>4. CASE Waited
  <2>1. /\ UNCHANGED <<command, chef, due, printed, holder, calls, code, todo, pc>>
        /\ result' \in {result, "error"} /\ Handled
    BY <1>4 DEF Waited, WaitReturns, Drained, region, own, view
  <2> QED
    BY <1>0, <2>1, EngineKeepsConverge
<1>5. CASE Abandoned
  <2>1. UNCHANGED <<command, chef, due, printed, holder, calls, pc, result>>
    BY <1>5 DEF Abandoned, Abandon, RemoveContainer, region, own, view
  <2>2. exec' \notin {"before", "returned"} /\ (code' = "failed" \/ UNCHANGED <<code, todo>>)
    BY <1>5 DEF Abandoned, Abandon, RemoveContainer
  <2> QED
    BY <1>0, <2>1, <2>2, EngineKeepsConverge
<1>6. CASE Ends
  <2>1. /\ UNCHANGED <<command, chef, due, printed, holder, calls, pc, result, exec>>
        /\ code' = "failed" \/ UNCHANGED <<code, todo>>
    BY <1>6 DEF Ends, Expire, Kill, region, own, view
  <2> QED
    BY <1>0, <2>1, EngineKeepsConverge
<1>7. CASE Program
  <2>1. UNCHANGED <<command, chef, due, printed, holder, calls, pc, result, exec>>
    BY <1>7 DEF Program, Create, ClientExits, WriteReport, ProgramEnds, region, own, view
  <2>2. CASE Create \/ ClientExits \/ WriteReport
    <3>1. code' = "failed" \/ UNCHANGED <<code, todo>>
      BY <2>2 DEF Create, ClientExits, WriteReport
    <3> QED
      BY <1>0, <2>1, <3>1, EngineKeepsConverge
  <2>3. CASE ProgramEnds
    <3>1. /\ Alive /\ todo' = <<>>
          /\ code' = "failed" \/ (code' = "ok" /\ todo = <<>>)
      BY <2>3 DEF ProgramEnds
    <3>2. CASE code' = "failed"
      BY <1>0, <2>1, <3>2, EngineKeepsConverge
    <3>3. CASE code' = "ok" /\ todo = <<>>
      <4>1. code = "none"
        BY <3>1 DEF Alive, EngineInv, EngineTypeOK, Modes, CountInv
      <4>2. Said' = Said
        BY <2>1, SaysTheSame
      <4>3. \A n, m \in 0 .. Len(command.stream) : At(n, m) => At(n, m)'
        BY <2>1, <3>1, <3>3, <4>1, <4>2 DEF At
      <4>4. Final => Final'
        BY <2>1, <4>2 DEF Final
      <4> QED
        BY <2>1, <3>1, <4>3, <4>4 DEF ConvergeInv, Idle
    <3> QED
      BY <3>1, <3>2, <3>3
  <2> QED
    BY <1>7, <2>2, <2>3 DEF Program
<1>8. CASE Finish \/ Clean
  <2>1. /\ UNCHANGED <<command, chef, due, printed, holder, calls, engine>>
        /\ pc \in Rest /\ pc' \in Rest
    BY <1>8 DEF Finish, Clean, Stop, Stopped, screen, region, view, Rest
  <2> QED
    BY <1>1, <2>1
<1>9. CASE Resizes
  <2>1. UNCHANGED <<command, chef, due, printed, holder, calls, engine, pc>>
    BY <1>9 DEF Resizes, Resize, screen, own, view
  <2> QED
    BY <1>1, <2>1
<1>10. CASE Ticking
  <2>1. /\ UNCHANGED <<command, chef, due, printed, holder, engine, pc, result, code, todo, exec>>
        /\ calls'["main"] = calls["main"] /\ calls'["writer"] = calls["writer"]
    BY <1>10 DEF Ticking, Tick, TickerStops, screen, engine, own, view, ScreenInv, RegionTypeOK, Actors
  <2>2. Said' = Said
    BY <2>1, SaysTheSame
  <2>3. \A n, m \in 0 .. Len(command.stream) : At(n, m) => At(n, m)'
    BY <2>1, <2>2 DEF At
  <2>4. Final => Final'
    BY <2>1, <2>2 DEF Final
  <2> QED
    BY <2>1, <2>3, <2>4 DEF ConvergeInv, Idle
<1>11. ASSUME NEW a \in Actors, Printing(a) PROVE ConvergeInv'
  <2>1. UNCHANGED <<command, chef, due, pc, result, code, todo, exec>>
    BY <1>11 DEF Printing, engine, own, view
  <2>2. /\ Said' = Said /\ printed' \in Seq(Texts)
        /\ calls'["main"] \in Seq(Ones) /\ calls'["writer"] \in Seq(Ones)
        /\ Idle("main") => calls'["main"] = <<>>
        /\ Idle("writer") => calls'["writer"] = <<>>
    BY <1>11, PrintingSays
  <2>3. \A n, m \in 0 .. Len(command.stream) : At(n, m) => At(n, m)'
    BY <2>1, <2>2 DEF At
  <2>4. Final => Final'
    BY <2>1, <2>2 DEF Final
  <2> QED
    BY <2>1, <2>2, <2>3, <2>4 DEF ConvergeInv, Idle
<1>12. ~(Begin \/ NextPhase \/ PhaseFails \/ Audit \/ FlushOutput \/ TakeView \/ CountEvent)
  BY DEF Begin, NextPhase, PhaseFails, Audit, FlushOutput, TakeView, CountEvent, LinesInv, DataInv
<1>13. CASE UNCHANGED vars
  BY <1>1, <1>13 DEF vars, region, own, view
<1> QED
  BY <1>2, <1>3, <1>4, <1>5, <1>6, <1>7, <1>8, <1>9, <1>10, <1>11, <1>12, <1>13, OverEnds,
     SummarySays, ReadLineKeeps, ReadKeeps, ReturnedKeeps DEF Next, Main

\* However the output of a command is cut into pieces, whoever printed last: a
\* scan that succeeds shows each result once, provided that a line of more than
\* 64 KiB begins with text only, which is what the bound on memory drops; a
\* converge that succeeds counts each changed resource once and printed it once.
THEOREM EachIsCountedOnce ==
  Spec => []((~Converge => OnlyTextIsCut(command.stream)) => CountsAreRight)
<1>1. DataInv /\ CountInv => (~Converge /\ OnlyTextIsCut(command.stream) => CountsAreRight)
  BY ScanCounts
<1>2. ScreenInv /\ ConvergeInv /\ Converge => CountsAreRight
  <2> SUFFICES ASSUME ScreenInv, ConvergeInv, Converge, pc = "ended", result = "ok"
               PROVE  /\ chef.seen = chef.updated + chef.upToDate + chef.skipped
                      /\ chef.updated = Cardinality(ChangedIn(command.stream))
                      /\ Listed(printed, ChangedIn(command.stream), command.stream)
      BY DEF CountsAreRight
  <2>1. Final
    BY DEF ConvergeInv, Rest
  <2>2. Said = printed
    <3>1. pc \in Rest /\ Idle("main") /\ holder # "main"
      BY DEF ScreenInv, Rest
    <3>2. Left(Speaker) = <<>>
      BY <3>1 DEF Left, Speaker, Idle
    <3> QED
      BY <3>2, FirstsType, ConcatEmptySeq DEF Said, ConvergeInv
  <2> QED
    BY <2>1, <2>2 DEF Final
<1> QED
  BY <1>1, <1>2, EngineInit, EngineNext, DataInit, DataNext, ScreenInit, ScreenNext, LinesInit,
     LinesNext, CountInit, CountsNext, ConvergeInit, ConvergeNext, PTL DEF Spec
=============================================================================
