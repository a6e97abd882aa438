----------------------------- MODULE StoredTime -----------------------------
(***************************************************************************)
(* How the server keeps an instant: as RFC 3339 text in UTC, written       *)
(* without the trailing zeros of its fraction, and put in order by         *)
(* SQLite, which compares the texts.                                       *)
(*                                                                         *)
(* An instant is a natural number of hundredths of a second; the real      *)
(* clock has nine digits, two show every case.  A text keeps its date and  *)
(* time to the second as one element, for they have a fixed width, and     *)
(* then one element per character, by its code.                            *)
(***************************************************************************)
EXTENDS Naturals, Sequences

Dot == 46
Zero == 48
Zulu == 90

(* formatTime of the repositories: "05Z", "05.5Z", "05.51Z". *)
FormatTime(t) ==
  LET second == t \div 100
      tenths == (t % 100) \div 10
      rest == t % 10
  IN  CASE t % 100 = 0 -> << second, Zulu >>
        [] t % 100 # 0 /\ rest = 0 -> << second, Dot, Zero + tenths, Zulu >>
        [] OTHER -> << second, Dot, Zero + tenths, Zero + rest, Zulu >>

(* formatTime of the messages drops the fraction altogether. *)
FormatSecond(text) == text[1]

(* a sorts before b: BINARY collation.  No stored text is the beginning of  *)
(* another, for each ends in its Z.                                         *)
TextBefore(a, b) ==
  \E i \in DOMAIN a \cap DOMAIN b : a[i] < b[i] /\ \A j \in 1 .. i - 1 : a[j] = b[j]
=============================================================================
