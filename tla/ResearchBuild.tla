---------------------------- MODULE ResearchBuild ----------------------------
(***************************************************************************)
(* One build of a fact sheet in the Python worker: research/service.py and *)
(* extractor.py, around sources and a model that may fail.  What it takes  *)
(* for a quote to stand is module Evidence's, what makes an item of use is *)
(* module ContentFormat's.                                                 *)
(*                                                                         *)
(* A label is a number that sorts.  One chunk per document; a document is  *)
(* read as the loop comes to it.                                           *)
(***************************************************************************)
EXTENDS Evidence, ContentFormat, StableOrder

CONSTANTS
  Fetchers,     \* the configured sources, in order, each with the documents it can find
  Url, Text,    \* the URL and the text of each document
  RawItems,     \* the answers a model may give to the prompt of each format
  MinFacts,     \* the request's min_facts; 0 asks for the format's own
  MaxItems,     \* config: research.max_items
  MaxPerChunk,  \* bound: items the model returns for one chunk
  MaxProposed   \* bound: items the model returns in all

ASSUME BuildAssumption ==
  /\ MinFacts \in Nat /\ MaxItems \in Nat
  /\ MaxPerChunk \in Nat /\ MaxProposed \in Nat
  /\ DOMAIN RawItems \subseteq Formats

(* A source finds documents, a document is a text. *)
ASSUME SourcesAssumption ==
  /\ Fetchers \in Seq(UNION {Seq(Range(Fetchers[i])) : i \in DOMAIN Fetchers})
  /\ \A i \in DOMAIN Fetchers : \A d \in Range(Fetchers[i]) : Text[d] \in Seq(Range(Text[d]))

(* What fits the schema of an answer. *)
ASSUME AnswersAssumption ==
  \A f \in DOMAIN RawItems : \A r \in RawItems[f] :
    /\ r = [ key |-> r.key, context |-> r.context, label |-> r.label,
             claim |-> r.claim, quote |-> r.quote ]
    /\ r.key \in Int \cup {NoNumber, Missing} /\ r.label \in Nat
    /\ IsFiniteSet(r.claim) /\ r.quote \in Seq(Range(r.quote))

VARIABLES
  format,      \* the video's content format
  phase,       \* fetching, extracting, verified, done
  at,          \* the fetcher, then the document, the loop has come to
  documents,   \* what was fetched
  candidates,  \* what the model proposed, each with the URL it was read from
  verified,    \* the candidates whose evidence stands
  sheet,       \* the facts written to facts.json
  outcome      \* how build ended

vars == <<format, phase, at, documents, candidates, verified, sheet, outcome>>

Document == UNION {Range(Fetchers[i]) : i \in DOMAIN Fetchers}
Required == IF MinFacts > 0 THEN MinFacts ELSE GateRules[format].minItems

-----------------------------------------------------------------------------
(* fetch: a source that raises is skipped, and loses only its own documents; *)
(* an article that is missing or a page that cannot be read loses itself.   *)

End(result) == phase' = "done" /\ outcome' = result

Finds(source) ==
  UNION {{[i \in 1..n |-> source[pick[i]]] :
            pick \in {f \in [1..n -> DOMAIN source] : \A i, j \in 1..n : i < j => f[i] < f[j]}} :
         n \in 0..Len(source)}

FetchNext ==
  /\ phase = "fetching" /\ at <= Len(Fetchers)
  /\ \E found \in Finds(Fetchers[at]) : documents' = documents \o found
  /\ at' = at + 1
  /\ UNCHANGED <<format, phase, candidates, verified, sheet, outcome>>

FetchEnds ==
  /\ phase = "fetching" /\ at > Len(Fetchers)
  /\ IF documents = <<>> THEN End("no_sources")
                         ELSE phase' = "extracting" /\ UNCHANGED outcome
  /\ at' = 1
  /\ UNCHANGED <<format, documents, candidates, verified, sheet>>

(* extract_from_document: an answer, a chunk lost, an answer that ends the  *)
(* build, or a model that is down.                                          *)

(* _to_fact *)
Candidate(raw, document) ==
  LET item == parse_item(format, raw)
  IN [ key |-> item.key, label |-> item.label, claim |-> item.claim, quote |-> item.quote,
       from |-> Url[document], group |-> group_of(format, item) ]

(* What the model may complete a prompt with, or nothing: no object at all. *)
Completions == BoundedSeq({r \in RawItems[format] : IsItem(format, r)}, MaxPerChunk)

Answers == {a \in Completions : Len(candidates) + Len(a) <= MaxProposed}

ReadDocument ==
  /\ phase = "extracting" /\ at <= Len(documents)
  /\ \E a \in Answers :
       candidates' = candidates \o [i \in DOMAIN a |-> Candidate(a[i], documents[at])]
  /\ at' = at + 1
  /\ UNCHANGED <<format, phase, documents, verified, sheet, outcome>>

(* An object whose items are no list, nor anything one can go through. *)
ItemsAreNoList ==
  /\ phase = "extracting" /\ at <= Len(documents)
  /\ End("crashed")
  /\ UNCHANGED <<format, at, documents, candidates, verified, sheet>>

ModelIsDown ==
  /\ phase = "extracting" /\ at <= Len(documents)
  /\ End("unavailable")
  /\ UNCHANGED <<format, at, documents, candidates, verified, sheet>>

-----------------------------------------------------------------------------
(* _verify: a fact is attributed to the first URL its quote stands under,   *)
(* in fetch order, which need not be the one it was read from.  Of the      *)
(* documents of one URL only the last one's text is looked into.            *)

Quotes == UNION {{r.quote : r \in RawItems[f]} : f \in DOMAIN RawItems}
Match == [q \in Quotes |-> [d \in Document |-> StandsIn(q, Text[d])]]

LastFrom(url) == documents[Max({i \in DOMAIN documents : Url[documents[i]] = url})]

Standing(quote) == {i \in DOMAIN documents : Match[quote][LastFrom(Url[documents[i]])].stands}

Verified(c) == IsPlausible(format, c) /\ Standing(c.quote) # {}

FactOf(c, url, score) ==
  [ key |-> c.key, label |-> c.label, claim |-> c.claim, quote |-> c.quote,
    group |-> c.group, source |-> url, score |-> score ]

FirstUrl(c) == Url[documents[Min(Standing(c.quote))]]

(* Mutant: a fact stays attributed to the URL it was read from. *)
AttributeToOrigin(c) == FactOf(c, c.from, Match[c.quote][LastFrom(FirstUrl(c))].score)

Fact(c) == FactOf(c, FirstUrl(c), Match[c.quote][LastFrom(FirstUrl(c))].score)

(* The loop: what has stood after each candidate. *)
Stood(cs) ==
  LET stood[n \in 0..Len(cs)] ==
        IF n = 0 THEN <<>>
        ELSE IF Verified(cs[n]) THEN Append(stood[n - 1], Fact(cs[n])) ELSE stood[n - 1]
  IN stood

Verify ==
  /\ phase = "extracting" /\ at > Len(documents)
  /\ verified' = Stood(candidates)[Len(candidates)]
  /\ IF candidates = <<>> THEN End("no_items")
                          ELSE phase' = "verified" /\ UNCHANGED outcome
  /\ UNCHANGED <<format, at, documents, candidates, sheet>>

-----------------------------------------------------------------------------
(* _sort_and_deduplicate *)

PlayOrder(fs) ==
  [i \in DOMAIN fs |-> {j \in DOMAIN fs :
     fs[i].key < fs[j].key \/ (fs[i].key = fs[j].key /\ fs[i].label < fs[j].label)}]

IsDuplicate(a, b) ==
  /\ a.key = b.key
  /\ a.claim # {} /\ b.claim # {}
  /\ 10 * Cardinality(a.claim \cap b.claim)
       >= 6 * Min({Cardinality(a.claim), Cardinality(b.claim)})

(* Mutant: the first copy stays, however it verified. *)
KeepFirst(kept, f) ==
  IF \E i \in DOMAIN kept : IsDuplicate(kept[i], f) THEN kept ELSE Append(kept, f)

(* Keep f, or let it stand in for the first kept copy it verifies better than. *)
Keep(kept, f) ==
  LET copies == {i \in DOMAIN kept : IsDuplicate(kept[i], f)}
      first == Min(copies)
  IN CASE copies = {}                 -> Append(kept, f)
       [] copies # {} /\ f.score > kept[first].score -> [kept EXCEPT ![first] = f]
       [] OTHER                       -> kept

(* The loop: what is kept after each fact. *)
KeptOf(fs) ==
  LET kept[n \in 0..Len(fs)] == IF n = 0 THEN <<>> ELSE Keep(kept[n - 1], fs[n])
  IN kept

Deduplicated(fs) == KeptOf(StableSort(fs, PlayOrder(fs)))[Len(fs)]

(* _cap: round-robin over the groups, largest first, best-verified first    *)
(* within each; the first `limit` facts of that tour stay.                  *)

FirstOf(fs, g) == Min({i \in DOMAIN fs : fs[i].group = g})
SizeOf(fs, g) == Cardinality({i \in DOMAIN fs : fs[i].group = g})
VisitedBefore(fs, g, h) ==
  SizeOf(fs, g) > SizeOf(fs, h) \/ (SizeOf(fs, g) = SizeOf(fs, h) /\ FirstOf(fs, g) < FirstOf(fs, h))

Depth(fs, i) ==
  Cardinality({j \in DOMAIN fs :
    fs[j].group = fs[i].group /\ (fs[j].score > fs[i].score \/ (fs[j].score = fs[i].score /\ j < i))})

Tour(fs) ==
  [i \in DOMAIN fs |-> {j \in DOMAIN fs :
     \/ Depth(fs, i) < Depth(fs, j)
     \/ Depth(fs, i) = Depth(fs, j) /\ VisitedBefore(fs, fs[i].group, fs[j].group)}]

(* Mutant: the best-verified facts stay, whatever group they are in. *)
CapByScore(fs, limit) ==
  IF limit <= 0 \/ Len(fs) <= limit THEN fs
  ELSE LET best == SubSeq(StableSort(fs,
                     [i \in DOMAIN fs |-> {j \in DOMAIN fs : fs[i].score > fs[j].score}]), 1, limit)
       IN StableSort(best, PlayOrder(best))

Cap(fs, limit) ==
  IF limit <= 0 \/ Len(fs) <= limit THEN fs
  ELSE LET kept == SubSeq(StableSort(fs, Tour(fs)), 1, limit)
       IN StableSort(kept, PlayOrder(kept))

(* Mutant: the reviewer's comfort outranks the gate's bar. *)
LimitAlone == MaxItems

Limit == Max({MaxItems, Required})

Write ==
  /\ phase = "verified"
  /\ LET facts == Cap(Deduplicated(verified), Limit)
     IN IF Len(facts) < Required
          THEN End("too_few") /\ UNCHANGED sheet
          ELSE End("written") /\ sheet' = facts
  /\ UNCHANGED <<format, at, documents, candidates, verified>>

-----------------------------------------------------------------------------
Init ==
  /\ format \in DOMAIN RawItems
  /\ phase = "fetching" /\ at = 1
  /\ documents = <<>> /\ candidates = <<>> /\ verified = <<>> /\ sheet = <<>>
  /\ outcome = "none"

Next ==
  FetchNext \/ FetchEnds \/ ReadDocument \/ ItemsAreNoList \/ ModelIsDown \/ Verify \/ Write

Spec == Init /\ [][Next]_vars

-----------------------------------------------------------------------------
Urls == {Url[d] : d \in Range(documents)}

TypeOK ==
  /\ format \in Formats
  /\ phase \in {"fetching", "extracting", "verified", "done"}
  /\ at \in Nat
  /\ Range(documents) \subseteq Document
  /\ \A i \in DOMAIN candidates : candidates[i].from \in Urls
  /\ \A f \in Range(verified \o sheet) : f.source \in Urls /\ f.score \in 0..100
  /\ outcome \in {"none", "no_sources", "crashed", "unavailable", "no_items", "too_few", "written"}
  /\ (phase = "done") = (outcome # "none")

Groups(fs) == {fs[i].group : i \in DOMAIN fs}

(* n is read from digits of text[lo..hi] that are a numeral of the text in   *)
(* full, or all that the region's ends leave of one.                         *)
IsReadNear(n, text, lo, hi) ==
  \E s \in Runs(text, lo, hi) :
    /\ Reading(text, s) = n
    /\ \A r \in Runs(text, 1, Len(text)) :
         r[1] <= s[1] /\ s[2] <= r[2] => r = s \/ r[1] < lo \/ hi < r[2]

(* Some passage of d reads much like q, and every number of q is read in it *)
(* or close by.                                                             *)
Grounds ==
  [q \in Quotes |-> [d \in Document |->
     LET quote == normalise(q)
         text == normalise(Text[d])
     IN \E i, j \in DOMAIN text :
          /\ i <= j
          /\ \A n \in numbers_in(quote) :
               IsReadNear(n, text, Max({1, i - Context}), Min({Len(text), j + Context}))
          /\ Ratio(quote, SubSeq(text, i, j)) >= Threshold]]

(* Every numeral of the quote is one of the text wherever the quote stands.  *)
KeepsItsNumbers(quote, text) ==
  \A p \in Occurrences(quote, text) : \A s \in Numerals(quote, 1, Len(quote)) :
    <<p + s[1] - 1, p + s[2] - 1>> \in Numerals(text, 1, Len(text))

(* q is copied from d, with its numbers in full, and is long enough to tell. *)
Copies ==
  [q \in Quotes |-> [d \in Document |->
     /\ Len(normalise(q)) >= MinLength
     /\ \E i, j \in DOMAIN Text[d] : SubSeq(Text[d], i, j) = q
     /\ KeepsItsNumbers(normalise(q), normalise(Text[d]))]]

(* "The LLM is never the source of a fact": what reaches facts.json is of    *)
(* use for the format, and a document of the very URL it is attributed to    *)
(* grounds it, up to a numeral that the end of the region cuts in two        *)
(* (verify_evidence, _verify).                                               *)
EveryFactIsGrounded ==
  \A i \in DOMAIN sheet :
    /\ \E d \in Range(documents) : Url[d] = sheet[i].source /\ Grounds[sheet[i].quote][d]
    /\ IsPlausible(format, sheet[i])

IsBelieved(c) == \E f \in Range(verified) : f.quote = c.quote /\ f.claim = c.claim /\ f.key = c.key

(* "Demanding byte equality would reject good facts": a quote that is copied *)
(* as it stands from the last text of a URL is never taken for an invention, *)
(* wherever in the text it stands and whatever else the text says.           *)
CopiesAreBelieved ==
  phase = "verified" =>
    \A c \in Range(candidates) :
      IsPlausible(format, c) /\ (\E url \in Urls : Copies[c.quote][LastFrom(url)]) => IsBelieved(c)

(* A fact that verified better than every duplicate of it is never dropped   *)
(* for one of them, in whichever order the sources gave them.                *)
BestCopyStays ==
  phase \in {"verified", "done"} =>
    \A i \in DOMAIN verified :
      (\A j \in DOMAIN verified :
         IsDuplicate(verified[i], verified[j]) /\ j # i => verified[j].score < verified[i].score)
      => verified[i] \in Range(Deduplicated(verified))

(* "Preserving variety": the cap drops a group only when there are more      *)
(* groups than places.                                                       *)
VarietyIsKept ==
  outcome = "written" =>
    Cardinality(Groups(sheet)) = Min({Limit, Cardinality(Groups(Deduplicated(verified)))})

(* "The cap must never trim below what the gate needs": when the sheet is    *)
(* refused for having too few facts there were too few before the cap.  Two  *)
(* copies of one fact count once, although both were verified.               *)
CapSparesTheBar == outcome = "too_few" => Len(Deduplicated(verified)) < Required
=============================================================================
