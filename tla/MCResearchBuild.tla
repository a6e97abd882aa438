--------------------------- MODULE MCResearchBuild ---------------------------
(* Instances of ResearchBuild for TLC. *)
EXTENDS ResearchBuild

(* An encyclopedia, and two pages that were pasted: the second is the same  *)
(* article, of which the page's extractor keeps less.  "shoe~s" has a curly *)
(* apostrophe.                                                              *)
Sources == <<<<"article">>, <<"page", "abridged">>>>
Urls3 == [d \in {"article", "page", "abridged"} |-> IF d = "page" THEN "page" ELSE "wiki"]
Texts ==
  [ article  |-> <<"some", " ", "7", ",", "0", " ", "bc", "[1]", " ", "shoe~s", " ", "were", " ",
                   "worn", " ", "up", " ", "until", " ", "9", "0", ".">>,
    page     |-> <<" ", "1", "7", "0", " ", "by", " ", "this", " ", "shoe's", " ", "date", " ",
                   "is", " ", "8", "0", " ", "bc">>,
    abridged |-> <<"shoe~s", " ", "were", " ", "worn", " ", "up", " ", "until", " ", "9", "0", ".">> ]
Variants == [w \in {"shoe~s"} |-> "shoe's"]

(* "70" is in the page as far as the region around the passage goes. *)
Copied    == <<"7", ",", "0", " ", "bc", "[1]", " ", "shoe~s">>
Respelt   == <<"7", "0", " ", "bc", " ", "shoe's", " ", "were">>
Reworded  == <<"shoe's", " ", "date", " ", "around", " ", "7", "0">>
Falsified == <<"9", "0", " ", "bc", " ", "shoe's", " ", "were">>
Fragment  == <<"7", ",", "0", " ", "bc">>

(* "a b" and "b c" are no duplicates; both are duplicates of "a b c". *)
Wordings == {{}, {"a", "b"}, {"b", "c"}, {"a", "b", "c"}}
Labels == <<{"b", "c"}>>

Answer(keys, contexts, claims, quotes) ==
  [key : keys, context : contexts, label : {1}, claim : claims, quote : quotes]

SomeAnswers ==
  [ history_timeline |->
      Answer({NoNumber, Missing, -7000}, {NoContext}, Wordings, {Copied, Reworded})
        \cup Answer({-7000}, {NoContext}, {{"a", "b"}}, {Falsified, Fragment})
        \cup Answer({-5000000}, {NoContext}, {{"a", "b"}}, {Copied}),
    myth_vs_fact |->
      Answer({NoNumber, 5}, {NoContext, "health"}, Wordings, {Copied, Respelt})
        \cup Answer({6}, {NoContext}, {{"a", "b"}}, {Copied}) ]
=============================================================================
