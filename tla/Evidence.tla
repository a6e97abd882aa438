------------------------------ MODULE Evidence ------------------------------
(***************************************************************************)
(* The evidence verifier (research/verifier.py): does a quote stand in a   *)
(* text?  Its words may differ a little, its numbers may not.              *)
(*                                                                         *)
(* A text is a sequence of symbols: digits, commas, full stops and spaces  *)
(* are the code's characters; a word, whose letters nothing here tells     *)
(* apart, and a citation marker are one symbol each.  Lengths count        *)
(* symbols, scores are percentages.                                        *)
(***************************************************************************)
EXTENDS Integers, SequencesExt

CONSTANTS
  Plain,          \* typographic variants of symbols, each with its plain form
  Markers,        \* citation markers
  Threshold,      \* evidence_match_threshold
  MinLength,      \* min_length
  Context,        \* number_context_chars
  AnchorLength, MinProbe, MaxCandidates, MaxScan  \* the search's tuning constants

(* With half an anchor at least the least probe, no probe is left out. *)
ASSUME SearchAssumption ==
  /\ Threshold \in 1..100
  /\ Context \in Nat
  /\ {MinProbe, MaxCandidates, MaxScan} \subseteq Nat \ {0}
  /\ MinLength \in Nat /\ MinLength >= 2 * MinProbe
  /\ AnchorLength \in Nat /\ AnchorLength >= 2 * MinProbe

Space == " "
Digits == {"0", "1", "2", "3", "4", "5", "6", "7", "8", "9"}
Numeric == Digits \cup {",", "."}

InPlain(c) ==
  CASE c \in Markers -> Space
    [] c \in DOMAIN Plain \ Markers -> Plain[c]
    [] OTHER -> c

IsBlank(text, n) == InPlain(text[n]) = Space

(* What is left of the first n symbols: of a run of blanks the first, and   *)
(* none of those that lead.                                                 *)
Reduced(text) ==
  LET left[n \in 0..Len(text)] ==
        IF n = 0 THEN <<>>
        ELSE IF IsBlank(text, n) /\ (n = 1 \/ IsBlank(text, n - 1)) THEN left[n - 1]
        ELSE Append(left[n - 1], InPlain(text[n]))
  IN left

normalise(text) ==
  Reduced(text)[Max({0} \cup {n \in DOMAIN text : ~IsBlank(text, n)})]

(* Where numerals may stand in text[lo..hi], and where they do: in full, as *)
(* far as that part of the text goes.                                       *)
Runs(text, lo, hi) ==
  {s \in (lo..hi) \X (lo..hi) :
     /\ s[1] <= s[2] /\ text[s[1]] \in Digits /\ text[s[2]] \in Digits
     /\ \A k \in s[1]..s[2] : text[k] \in Numeric}

Numerals(text, lo, hi) ==
  {s \in Runs(text, lo, hi) :
     \A r \in Runs(text, lo, hi) : r[1] <= s[1] /\ s[2] <= r[2] => r = s}

(* Without its thousands separators. *)
Cleaned(numeral) == SelectSeq(numeral, LAMBDA c : c # ",")
Reading(text, s) == Cleaned(SubSeq(text, s[1], s[2]))

numbers_in(text) == {Reading(text, s) : s \in Numerals(text, 1, Len(text))}

(* text[p : p + n], which the end of the text may cut short. *)
Window(text, p, n) == SubSeq(text, p, Min({p + n - 1, Len(text)}))

Occurrences(needle, text) == {p \in DOMAIN text : Window(text, p, Len(needle)) = needle}

(* SequenceMatcher.  A block is n words from i on of a that are the n words *)
(* from j on of b, a region what is between two words of each.              *)
Regions(a, b) == (1..Len(a)+1) \X (0..Len(a)) \X (1..Len(b)+1) \X (0..Len(b))

Blocks(a, b, r) ==
  {k \in (r[1]..r[2]) \X (r[3]..r[4]) \X (1..Len(a)) :
     /\ k[1] + k[3] - 1 <= r[2] /\ k[2] + k[3] - 1 <= r[4]
     /\ Window(a, k[1], k[3]) = Window(b, k[2], k[3])}

(* Of the longest the first in a, then in b. *)
Longest(blocks) ==
  CHOOSE k \in blocks : \A o \in blocks :
    \/ o[3] < k[3]
    \/ o[3] = k[3] /\ (k[1] < o[1] \/ (k[1] = o[1] /\ k[2] <= o[2]))

(* The longest block, then what is left and right of it, n cuts deep. *)
Matches(a, b) ==
  LET matches[n \in 0..Len(a)] ==
        [r \in Regions(a, b) |->
           LET k == Longest(Blocks(a, b, r))
           IN IF n = 0 \/ Blocks(a, b, r) = {} THEN 0
              ELSE k[3] + matches[n - 1][<<r[1], k[1] - 1, r[3], k[2] - 1>>]
                        + matches[n - 1][<<k[1] + k[3], r[2], k[2] + k[3], r[4]>>]]
  IN matches

Matched(a, b) == Matches(a, b)[Len(a)][<<1, Len(a), 1, Len(b)>>]

Ratio(a, b) == (200 * Matched(a, b)) \div (Len(a) + Len(b))

(* Around the middle of the needle, in full, by half, or by its least part; *)
(* and without any of it a coarse scan.                                     *)
candidate_positions(needle, text) ==
  LET length == Min({Len(needle), AnchorLength})
      start == (Len(needle) - length) \div 2
      Found(n) == Occurrences(Window(needle, start + 1, n), text)
      probes == {n \in {length, length \div 2, MinProbe} : Found(n) # {}}
      anchors == Found(Max(probes))
      step == Max({1, Len(needle) \div 2})
  IN IF probes # {}
       THEN {Max({1, p - start}) :
               p \in {p \in anchors : Cardinality({o \in anchors : o < p}) < MaxCandidates}}
       ELSE {p \in 1..Max({1, Len(text) - Len(needle)}) :
               (p - 1) % step = 0 /\ (p - 1) \div step < MaxScan}

(* The first of the best windows. *)
best_match(needle, text) ==
  LET At(p) == Window(text, p, Len(needle))
      scores == [p \in candidate_positions(needle, text) |-> Ratio(needle, At(p))]
      best == Max(Range(scores))
      first == Min({p \in DOMAIN scores : scores[p] = best})
  IN IF needle = <<>> \/ text = <<>> THEN [score |-> 0, window |-> <<>>]
     ELSE IF Occurrences(needle, text) # {} THEN [score |-> 100, window |-> needle]
     ELSE [score |-> best, window |-> At(first)]

(* Mutant: the padding is taken on the wrong side of the window's start. *)
missing_after(quote, text, window) ==
  LET found == Occurrences(window, text)
      region == IF window = <<>> \/ found = {} THEN text
                ELSE SubSeq(text, Min(found) + Context,
                            Min({Len(text), Min(found) + Len(window) + Context - 1}))
  IN numbers_in(quote) \ numbers_in(region)

(* The quote's numbers that are not in the window or a little around it. *)
missing_numbers(quote, text, window) ==
  LET found == Occurrences(window, text)
      region == IF window = <<>> \/ found = {} THEN text
                ELSE SubSeq(text, Max({1, Min(found) - Context}),
                            Min({Len(text), Min(found) + Len(window) + Context - 1}))
  IN numbers_in(quote) \ numbers_in(region)

(* What verify_evidence finds for a quote in one source. *)
StandsIn(quote, text) ==
  LET q == normalise(quote)
      t == normalise(text)
      match == best_match(q, t)
  IN [ stands |-> /\ q # <<>> /\ Len(q) >= MinLength
                  /\ match.score >= Threshold
                  /\ missing_numbers(q, t, match.window) = {},
       score |-> match.score ]
=============================================================================
