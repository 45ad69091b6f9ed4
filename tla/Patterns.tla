------------------------------- MODULE Patterns -------------------------------
(***************************************************************************)
(* How keys are matched with the pattern of a ClearByPattern: in memory by  *)
(* matchPattern (internal/cache/memory.go), in Redis by the server's glob.  *)
(* Keys and patterns are sequences of symbols.                             *)
(***************************************************************************)
EXTENDS Naturals, Sequences

CONSTANTS Symbols,  \* those of keys and patterns
          Star,     \* the symbol *
          Wild      \* what the other symbols with a meaning in a glob, such as ? or
                    \* a class [12], stand for: a function from each to a set of symbols

ASSUME SymbolsAssumption == Star \in Symbols /\ DOMAIN Wild \subseteq Symbols \ {Star}

HasPrefix(s, prefix) ==
  Len(prefix) <= Len(s) /\ SubSeq(s, 1, Len(prefix)) = prefix

HasSuffix(s, suffix) ==
  Len(suffix) <= Len(s) /\ SubSeq(s, Len(s) - Len(suffix) + 1, Len(s)) = suffix

Stars(pattern) == {i \in 1..Len(pattern) : pattern[i] = Star}
Before(s, i)   == SubSeq(s, 1, i - 1)
After(s, i)    == SubSeq(s, i + 1, Len(s))

(***************************************************************************)
(* A star at the end is looked at first, then one at the beginning, then a  *)
(* single one inside; any further star is taken literally, and a pattern    *)
(* with several stars inside, none at its ends, is compared as a whole.     *)
(***************************************************************************)
MatchPattern(key, pattern) ==
  LET n == Len(pattern)
  IN  IF pattern = <<Star>> THEN TRUE
      ELSE IF n \in Stars(pattern) THEN HasPrefix(key, Before(pattern, n))
      ELSE IF 1 \in Stars(pattern) THEN HasSuffix(key, After(pattern, 1))
      ELSE IF \E i \in Stars(pattern) : Stars(pattern) = {i}
        THEN \E i \in Stars(pattern) :
               HasPrefix(key, Before(pattern, i)) /\ HasSuffix(key, After(pattern, i))
      ELSE key = pattern

(***************************************************************************)
(* The glob of Redis: the symbols of the pattern cover the key piece by     *)
(* piece, a Star any piece, a symbol of Wild one of those it stands for and *)
(* another symbol itself.  cut[i] is where the piece of symbol i ends.      *)
(***************************************************************************)
Meaning(symbol) == IF symbol \in DOMAIN Wild THEN Wild[symbol] ELSE {symbol}

IsCut(cut, key, pattern) ==
  /\ cut[0] = 0 /\ cut[Len(pattern)] = Len(key)
  /\ \A i \in 1..Len(pattern) :
       IF pattern[i] = Star
       THEN cut[i - 1] <= cut[i]
       ELSE cut[i] = cut[i - 1] + 1 /\ key[cut[i]] \in Meaning(pattern[i])

Glob(key, pattern) ==
  \E cut \in [0..Len(pattern) -> 0..Len(key)] : IsCut(cut, key, pattern)

(***************************************************************************)
(* Where the two come apart.  matchPattern takes all that the glob of a     *)
(* Simple pattern takes; of a Literal one it takes nothing else, but for    *)
(* the keys in which what precedes a single star and what follows it        *)
(* overlap, such as aba for ab*ba.                                         *)
(***************************************************************************)
Literal(pattern) == \A i \in 1..Len(pattern) : pattern[i] \notin DOMAIN Wild

HasOneStar(pattern, i) == Stars(pattern) = {i}

Simple(pattern) ==
  Literal(pattern) /\ (Stars(pattern) = {} \/ \E i \in Stars(pattern) : HasOneStar(pattern, i))

Overlaps(key, pattern) ==
  \E i \in Stars(pattern) :
    /\ HasOneStar(pattern, i) /\ Len(key) < Len(pattern) - 1
    /\ HasPrefix(key, Before(pattern, i)) /\ HasSuffix(key, After(pattern, i))
=============================================================================
