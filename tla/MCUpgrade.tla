------------------------------ MODULE MCUpgrade -----------------------------
(* Two upgrades on one machine: 0.8.0, 0.10.1-rc.1 and 0.10.1 are          *)
(* published, 0.11.0 was and is no more, 0.10.1-dev is built from source.  *)
EXTENDS Upgrade

CONSTANTS one, two

Plain(a, b, c) == [parts |-> <<a, b, c>>, pre |-> <<>>, build |-> FALSE]
Word(rank)     == [value |-> NaN, text |-> rank]
Number(k)      == [value |-> k, text |-> k]

v8   == Plain(0, 8, 0)
v10  == Plain(0, 10, 1)
v11  == Plain(0, 11, 0)
rc   == [v10 EXCEPT !.pre = <<Word(20), Number(1)>>]
dev  == [v10 EXCEPT !.pre = <<Word(11)>>]

AllVersions == {v8, rc, v10, v11, dev}
Released    == {v8, rc, v10}
Oldest1st   == <<v8, rc, v10, v11>>
Both        == {one, two}

Usual == [tagged |-> FALSE, want |-> v10, force |-> FALSE, strict |-> FALSE,
          answer |-> "--yes", may |-> TRUE]
Asks   == [Usual EXCEPT !.answer = "terminal", !.strict = TRUE]
Back   == [Usual EXCEPT !.tagged = TRUE, !.want = v8]
Early  == [Usual EXCEPT !.tagged = TRUE, !.want = rc, !.strict = TRUE]
Forced == [Usual EXCEPT !.force = TRUE]
Mute   == [Usual EXCEPT !.answer = "none"]
Barred == [Usual EXCEPT !.may = FALSE]

Pair(p, q) == [u \in Both |-> IF u = one THEN p ELSE q]

\* Which tools there are matters to one upgrade at a time.
Alone ==
  [how : {"binary", "rpm"}, tools : SUBSET {"cosign", "gh"},
   plans : {Pair(p, Mute) : p \in {Usual, Asks, Early, Mute, Barred}}]

Together ==
  [how : {"binary", "deb", "rpm"}, tools : {{"gh"}},
   plans : {Pair(Usual, Back), Pair(Usual, Forced), Pair(Back, Forced)}]

AllSessions == Alone \union Together
=============================================================================
