------------------------------ MODULE VideoIds ------------------------------
(***************************************************************************)
(* From a topic to the id of its video: domain.Slugify, the numeric suffix *)
(* of platform/idgen, and the guard of platform/validate that an id passes *)
(* before it becomes a row and the name of a folder.                       *)
(*                                                                         *)
(* A topic is a sequence of characters, an id a sequence of bytes.  Only   *)
(* the classes the code tells apart are kept: two letters, the ASCII       *)
(* digits, one digit of another script, the four separators, and           *)
(* everything else.  Lengths count bytes, as Go's len does.                *)
(***************************************************************************)
EXTENDS Naturals, Sequences, SequencesExt

CONSTANTS MaxIdBytes,    \* the longest id: 64 in the code
          MaxAttempts    \* how many suffixes idgen tries: 20 in the code

ASSUME IdBounds == MaxIdBytes \in 3 .. 64 /\ MaxAttempts \in 1 .. 20

Letter == {"a", "b"}
digit == <<"0", "1", "2", "3", "4", "5", "6", "7", "8", "9">>
Digit == {digit[i] : i \in DOMAIN digit}
Separator == {" ", "-", "_", "/"}
Other == {"!"}                 \* punctuation, accented letters: dropped
WideDigit == "wide digit"      \* a digit of another script, two bytes in UTF-8
WideByte == {"lead byte", "tail byte"}

(* strings.ToLower, on the letters kept. *)
lower == [A |-> "a", B |-> "b"]
LowerCase(r) == IF r \in DOMAIN lower THEN lower[r] ELSE r

Character == Letter \cup DOMAIN lower \cup Digit \cup Separator \cup Other \cup {WideDigit}
Byte == Letter \cup Digit \cup {"-"} \cup WideByte

(* What one character adds to the slug: unicode.IsDigit holds for the digits *)
(* of every script, so a wide digit is written, byte by byte.  A separator   *)
(* becomes one dash, and none at the start or after another.                 *)
WriteRune(slug, r) ==
  CASE LowerCase(r) \in Letter \cup Digit -> Append(slug, LowerCase(r))
    [] r = WideDigit                      -> slug \o <<"lead byte", "tail byte">>
    [] r \in Separator /\ slug # <<>> /\ Last(slug) # "-" -> Append(slug, "-")
    [] OTHER                              -> slug

(* strings.Trim(s, "-") *)
TrimDashes(s) ==
  LET kept == {i \in DOMAIN s : s[i] # "-"}
  IN  IF kept = {} THEN <<>>
      ELSE SubSeq(s, CHOOSE i \in kept : \A j \in kept : i <= j,
                     CHOOSE i \in kept : \A j \in kept : i >= j)

(* The loop of Slugify: what is written after each character. *)
Written(topic) ==
  LET written[n \in 0 .. Len(topic)] ==
        IF n = 0 THEN <<>> ELSE WriteRune(written[n - 1], topic[n])
  IN  written

(* TrimSpace changes nothing more: a space at either end leaves no dash. *)
Slugify(topic) ==
  LET slug == TrimDashes(Written(topic)[Len(topic)])
  IN  IF Len(slug) > MaxIdBytes
        THEN TrimDashes(SubSeq(slug, 1, MaxIdBytes))
        ELSE slug

-----------------------------------------------------------------------------
Suffix(n) == IF n < 10 THEN <<"-", digit[n + 1]>>
             ELSE <<"-", digit[(n \div 10) + 1], digit[(n % 10) + 1]>>

(* The id tried at one attempt: the base, then base-2, base-3, ..., the base *)
(* cut so that the whole stays within the bound.                             *)
Candidate(base, attempt) ==
  LET suffix == Suffix(attempt)
      full == base \o suffix
  IN  CASE attempt = 1          -> base
        [] attempt > 1 /\ Len(full) > MaxIdBytes ->
             SubSeq(base, 1, MaxIdBytes - Len(suffix)) \o suffix
        [] OTHER                -> full

(* The guard VideoID: ^[a-z0-9-]{1,64}$ *)
PathSafe(id) ==
  /\ Len(id) \in 1 .. MaxIdBytes
  /\ \A i \in DOMAIN id : id[i] \in Letter \cup Digit \cup {"-"}

-----------------------------------------------------------------------------
(* Priorities: 1 is highest, 5 lowest; a caller that gives none gets 3. *)
PriorityHighest == 1
PriorityDefault == 3
PriorityLowest == 5
ValidPriority(p) == p \in PriorityHighest .. PriorityLowest
=============================================================================
