-------------------------------- MODULE MCBatch --------------------------------
(* Batch on keys of up to three symbols, among them two that memory takes and *)
(* Redis spares, and matchPattern on all words of up to four.                *)
EXTENDS Batch

MCSymbols == {"u", "s", "1", "!", "[us]", Star}
MCWild    == [class \in {"[us]"} |-> {"u", "s"}]
MCKeys    == {<<"u", "1">>, <<"u", "s", "u">>, <<"[us]", "1">>, <<"!">>}
MCInvalid == {<<"!">>}

\* Memory takes usu for us*su, in which the two ends overlap, and has another reading of
\* *s* and of the class in [us]1.
MCGlobs   == {<<"u", Star>>, <<"u", "s", Star, "s", "u">>, <<Star, "s", Star>>, <<"[us]", "1">>}

\* Every key and pattern of at most four symbols, the star and the class among them.
Words(alphabet) == UNION {[1..n -> alphabet] : n \in 0..4}

ASSUME OnSimplePatternsTheyAgree ==
  \A key \in Words({"u", "s", Star}), pattern \in Words({"u", "s", "[us]", Star}) :
    /\ Simple(pattern) /\ Glob(key, pattern) => MatchPattern(key, pattern)
    /\ Literal(pattern) /\ MatchPattern(key, pattern) =>
         Glob(key, pattern) \/ Overlaps(key, pattern)
=============================================================================
