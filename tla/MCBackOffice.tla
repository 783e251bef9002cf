---------------------------- MODULE MCBackOffice ----------------------------
(* A small instance of BackOffice. *)
EXTENDS BackOffice, TLC

CONSTANTS u1, u2, u3, h1, h2, b1, v1, o1, o2

(* Handlers and orders are interchangeable, and nothing chooses among them. *)
BackOfficeSymmetry == Permutations({h1, h2}) \cup Permutations({o1, o2})

Row(bps, inclusive, flat) == [bps |-> bps, inclusive |-> inclusive, flat |-> flat, freeOver |-> 100]
Checkouts == {Row(1800, FALSE, 0), Row(1800, TRUE, 5), Row(500, TRUE, 0)}
Lines == {<<7, 8, 10>>, <<101>>}

Export == <<"a", "b", "a", "c">>

Rule(strategy, adjust, percent, margin, charm) ==
    [strategy |-> strategy, adjust |-> adjust, percent |-> percent, minMargin |-> margin,
     roundTo99 |-> charm]
Rules == {Rule("BEAT_LOWEST", 5, TRUE, 10, FALSE), Rule("MATCH_LOWEST", 0, FALSE, 30, TRUE),
          Rule("FIXED_MARGIN", 20, TRUE, 10, TRUE), Rule("BEAT_LOWEST", 700, FALSE, 0, FALSE)}
=============================================================================
