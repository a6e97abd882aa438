--------------------------- MODULE ContentFormat ---------------------------
(***************************************************************************)
(* What kind of video this is (formats/providers): which answers of the    *)
(* model make an item, which items are of no use, how items are grouped    *)
(* for variety, and what Gate A asks for.                                  *)
(*                                                                         *)
(* A raw answer has a sort value (a year, or a surprise rating) that may   *)
(* be missing or no number, a context (a place, or a subject domain), a    *)
(* label, a claim and a quote.  A claim is its set of words.               *)
(***************************************************************************)
EXTENDS Integers, Sequences

CONSTANTS
  NoNumber,    \* a sort value that does not read as a number
  Missing,     \* a sort value that is not there
  NoContext,   \* a context left empty
  LabelWords   \* the words of each label

Formats == {"history_timeline", "myth_vs_fact"}

GateRules == [ history_timeline |-> [minItems |-> 8, minGroups |-> 4],
               myth_vs_fact     |-> [minItems |-> 5, minGroups |-> 3] ]

Filled(raw) == LabelWords[raw.label] # {} /\ raw.claim # {} /\ raw.quote # <<>>

(* An event whose year is no number is no item, one without a year is of    *)
(* the year 0; a surprise that is not rated counts as 3.                    *)
IsEvent(raw) == Filled(raw) /\ raw.key # NoNumber
Dated(raw) == [raw EXCEPT !.key = IF @ = Missing THEN 0 ELSE @]
IsMyth(raw) == Filled(raw)
Rated(raw) == [raw EXCEPT !.key = IF @ \in {NoNumber, Missing} THEN 3 ELSE @]

IsItem(format, raw) == IF format = "history_timeline" THEN IsEvent(raw) ELSE IsMyth(raw)
parse_item(format, raw) == IF format = "history_timeline" THEN Dated(raw) ELSE Rated(raw)

(* Geological times and the future are no history of a made object; a myth   *)
(* that restates its correction is none.                                     *)
HistoricYears == -4000000..2100
IsHistory(event) == event.key \in HistoricYears
IsSurprise(myth) == myth.key \in 1..5 /\ LabelWords[myth.label] # myth.claim

IsPlausible(format, item) ==
  IF format = "history_timeline" THEN IsHistory(item) ELSE IsSurprise(item)

Eras == << <<-3000, "prehistory">>, <<-500, "ancient">>, <<500, "classical">>,
           <<1400, "medieval">>, <<1750, "early-modern">>, <<1900, "industrial">>,
           <<1980, "20th-century">> >>

EraOf(year) ==
  LET later == {i \in DOMAIN Eras : year < Eras[i][1]}
  IN IF later = {} THEN "modern" ELSE Eras[CHOOSE i \in later : \A j \in later : i <= j][2]

(* Without a domain, myths are spread by their surprise. *)
DomainOf(myth) ==
  IF myth.context # NoContext THEN <<myth.context>> ELSE <<"unspecified", myth.key>>

group_of(format, item) ==
  IF format = "history_timeline" THEN <<EraOf(item.key)>> ELSE DomainOf(item)
=============================================================================
