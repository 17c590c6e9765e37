------------------------------ MODULE SearchQuery ------------------------------
(***************************************************************************)
(* What the search box means (web/searchQuery.js): the parser, from the    *)
(* words of the input to a query, and the matcher, from a query to the     *)
(* commits it keeps.  A word is a record: whether it starts with a dash,   *)
(* the qualifier before its colon, and its value.  Which commits a value   *)
(* fits under a qualifier (substring, prefix, date) is a constant.         *)
(***************************************************************************)
EXTENDS Sequences, SequencesExt, FiniteSets

CONSTANTS Commit,
          Fits,       \* qualifier -> value -> commits whose field fits it
          Merges,     \* commits of more than one parent
          Tips,       \* branch name -> commit
          Parents,    \* commit -> set of its parents
          NoValue     \* nothing after the colon

ASSUME NoValueAssumption == NoValue \notin {"only", "exclude"}

\* Qualifiers that gather values; the text of a bare word counts as one.
Gathered == {"author", "hash", "message", "tag", "file", "path"}
Dates == {"after", "before"}
Known == Gathered \cup Dates \cup {"merge", "branch"}
Kinds == Gathered \cup {"text"}

NewQuery == [any |-> [k \in Kinds |-> {}], none |-> [k \in Kinds |-> {}],
             after |-> NoValue, before |-> NoValue,
             merge |-> NoValue, negateMerge |-> FALSE,
             branch |-> NoValue, negateBranch |-> FALSE, errors |-> 0]

(* A dash negates a bare word and a known qualifier; before an unknown     *)
(* one it is part of the text.                                             *)
Negated(w) == w.dash /\ w.key \in Known \cup {"text"}

Gather(q, kind, negated, value) ==
    IF negated THEN [q EXCEPT !.none[kind] = @ \cup {value}] ELSE [q EXCEPT !.any[kind] = @ \cup {value}]

(* An unknown qualifier makes the whole word a text, dash and all.         *)
TextOf(w) == IF w.key = "text" THEN w.value ELSE <<w.dash, w.key, w.value>>

(* The last of several dates, merge filters or branches counts.            *)
ParseDate(q, w) ==
    CASE Negated(w) -> [q EXCEPT !.errors = @ + 1]
      [] ~Negated(w) /\ w.value = NoValue -> q
      [] ~Negated(w) /\ w.value # NoValue /\ w.value \in DOMAIN Fits[w.key] -> [q EXCEPT ![w.key] = w.value]
      [] OTHER -> [q EXCEPT !.errors = @ + 1]

ParseMerge(q, w) == IF w.value \in {"only", "exclude"} THEN [q EXCEPT !.merge = w.value, !.negateMerge = Negated(w)]
                    ELSE [q EXCEPT !.errors = @ + 1]

ParseBranch(q, w) == IF w.value = NoValue THEN q ELSE [q EXCEPT !.branch = w.value, !.negateBranch = Negated(w)]

ParseWord(q, w) ==
    CASE w.key \in Gathered -> IF w.value = NoValue THEN q ELSE Gather(q, w.key, Negated(w), w.value)
      [] w.key \in Dates -> ParseDate(q, w)
      [] w.key = "merge" -> ParseMerge(q, w)
      [] w.key = "branch" -> ParseBranch(q, w)
      [] OTHER -> Gather(q, "text", Negated(w), TextOf(w))

parseSearchQuery(words) ==
    LET query[n \in 0..Len(words)] == IF n = 0 THEN NewQuery ELSE ParseWord(query[n - 1], words[n])
    IN query[Len(words)]

(* Errors alone do not make a query.                                       *)
IsEmpty(q) == [q EXCEPT !.errors = 0, !.negateMerge = FALSE, !.negateBranch = FALSE] = NewQuery

NeedsFiles(q) == \E k \in {"file", "path"} : q.any[k] \cup q.none[k] # {}

----------------------------------------------------------------------------

FitsOf(kind, value) == IF value \in DOMAIN Fits[kind] THEN Fits[kind][value] ELSE {}

(* A text is looked for in the message, the author and the hash.           *)
Holders(kind, value) ==
    IF kind = "text" THEN UNION {FitsOf(k, value) : k \in {"message", "author", "hash"}} ELSE FitsOf(kind, value)

buildReachableSet(tip) ==
    LET Step(hashes) == hashes \cup UNION {Parents[h] : h \in hashes}
        f[n \in 0..Cardinality(Commit)] == IF n = 0 THEN {tip} ELSE Step(f[n - 1])
    IN f[Cardinality(Commit)]

Reachable(branch) == IF branch \in DOMAIN Tips THEN buildReachableSet(Tips[branch]) ELSE {}

KeepsMerges(q) == (q.merge = "only") # q.negateMerge

(* All texts must fit, one value of each other qualifier, no negated one.  *)
(* `index` is the set of commits whose files are known.                    *)
matchCommit(q, index, c) ==
    LET Has(kind, value) == c \in Holders(kind, value) /\ (kind \in {"file", "path"} => c \in index)
    IN /\ \A v \in q.any["text"] : Has("text", v)
       /\ \A k \in Gathered : q.any[k] # {} => \E v \in q.any[k] : Has(k, v)
       /\ \A k \in Kinds : \A v \in q.none[k] : ~Has(k, v)
       /\ \A k \in Dates : q[k] # NoValue => c \in FitsOf(k, q[k])
       /\ q.merge # NoValue => (c \in Merges) = KeepsMerges(q)
       /\ q.branch # NoValue => (c \in Reachable(q.branch)) # q.negateBranch

createSearchMatcher(q, index) == {c \in Commit : matchCommit(q, index, c)}
===============================================================================
