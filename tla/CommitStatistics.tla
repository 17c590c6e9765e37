--------------------------- MODULE CommitStatistics ---------------------------
(***************************************************************************)
(* The statistics the browser computes from the commits it has             *)
(* (web/analyticsView.js).  Time is counted in hours of a short week that  *)
(* begins at a multiple of WeekLength, as the weeks of the code begin on a *)
(* Monday at midnight UTC.  A percentage or an average is a pair: what is  *)
(* divided, and by what.                                                   *)
(*                                                                         *)
(* `commits` maps a hash to a commit: when it was made, by whom, and       *)
(* whether it is a merge; `files` maps a hash whose diff is known to the   *)
(* files it touches.  A cutoff of 0 takes every commit.                    *)
(***************************************************************************)
EXTENDS Naturals, Sequences, FiniteSets, FiniteSetsExt, SequencesExt

CONSTANTS WeekLength,     \* MS_PER_WEEK
          Now,            \* Date.now(), which stands still
          RollingWindow,  \* ROLLING_WINDOW, in weeks
          ChurnWindow,    \* CHURN_WINDOW_DAYS
          SizeLimits,     \* SIZE_BUCKETS: the largest size of all but the last bucket
          TopAuthors      \* TOP_N_AUTHORS

(* What the module that instantiates this one assumes of the constants.     *)
StatisticsAssumption ==
    /\ {WeekLength, RollingWindow, TopAuthors} \subseteq Nat \ {0}
    /\ {Now, ChurnWindow} \subseteq Nat /\ SizeLimits \in Seq(Nat)

weekStart(time) == time - (time % WeekLength)

Times(commits) == {commits[h].when : h \in DOMAIN commits}
InPeriod(commits, cutoff) == {h \in DOMAIN commits : commits[h].when >= cutoff}
MadeIn(commits, hashes, week) == {h \in hashes : weekStart(commits[h].when) = week}
TotalOf(counts) == FoldSeq(LAMBDA c, sum : sum + c, 0, counts)

(* The weeks from the first commit of the period, or from the cutoff, to   *)
(* this one; each with its commits and the average of the last few weeks.  *)
(* The best week is the first of the largest.                              *)
computeVelocity(commits, cutoff) ==
    LET start == Max({cutoff, Min(Times(commits))})
        first == weekStart(start)
        number == IF first > Now THEN 0 ELSE (weekStart(Now) - first) \div WeekLength + 1
        counted == InPeriod(commits, start)
        counts == [i \in 1..number |-> Cardinality(MadeIn(commits, counted, first + (i - 1) * WeekLength))]
        from(i) == IF i > RollingWindow THEN i - RollingWindow + 1 ELSE 1
        best == {i \in 1..number : \A j \in 1..number : counts[j] <= counts[i]}
    IN IF commits = <<>> THEN [weeks |-> <<>>, totalCommits |-> 0, bestWeek |-> 0]
       ELSE [weeks |-> [i \in 1..number |->
                          [ts |-> first + (i - 1) * WeekLength, count |-> counts[i],
                           avg |-> <<TotalOf(SubSeq(counts, from(i), i)), i - from(i) + 1>>]],
             totalCommits |-> TotalOf(counts),
             bestWeek |-> IF number = 0 THEN 0 ELSE Min(best)]

(* The authors with the most commits; which of equals are cut off, the     *)
(* order of the map decides, and is left open here.                        *)
computeAuthorCounts(commits, cutoff) ==
    LET period == InPeriod(commits, cutoff)
        byEmail == [a \in {commits[h].author : h \in period} |-> Cardinality({h \in period : commits[h].author = a})]
        shown == Min({TopAuthors, Cardinality(DOMAIN byEmail)})
        top == CHOOSE chosen \in kSubset(shown, DOMAIN byEmail) :
                 \A a \in chosen, b \in DOMAIN byEmail \ chosen : byEmail[a] >= byEmail[b]
    IN [authors |-> [a \in top |-> byEmail[a]], totalInPeriod |-> Cardinality(period)]

(* One cell for every hour of the week.                                    *)
computeHeatmapData(commits, cutoff) ==
    LET grid == [hour \in 0..WeekLength - 1 |->
                   Cardinality({h \in InPeriod(commits, cutoff) : commits[h].when % WeekLength = hour})]
    IN [grid |-> grid, max |-> Max({grid[hour] : hour \in DOMAIN grid})]

computeMergeStats(commits, cutoff) ==
    LET period == InPeriod(commits, cutoff)
        times == {commits[h].when : h \in period}
        merges == Cardinality({h \in period : commits[h].merge})
        span == IF period = {} THEN WeekLength ELSE Max({WeekLength, Max(times) - Min(times)})
    IN [mergeCount |-> merges, totalCount |-> Cardinality(period), mergesPerWeek |-> <<merges * WeekLength, span>>]

(* The commits of the period whose diff is known, by number of files.      *)
computeChangeSizeDistribution(commits, files, cutoff) ==
    LET known == InPeriod(commits, cutoff) \cap DOMAIN files
        size(h) == Cardinality(files[h])
        bucket(h) == Min({i \in DOMAIN SizeLimits : size(h) <= SizeLimits[i]} \cup {Len(SizeLimits) + 1})
        sorted == SetToSortSeq(known, LAMBDA g, h : size(g) < size(h))
    IN [buckets |-> [i \in 1..Len(SizeLimits) + 1 |-> Cardinality({h \in known : bucket(h) = i})],
        median |-> IF known = {} THEN 0 ELSE size(sorted[Len(sorted) \div 2 + 1]),
        avgSize |-> <<MapThenSumSet(size, known), Cardinality(known)>>]

(* The share of files, week by week, that were touched not long before.    *)
(* The commits of one time are looked at together, in the order of time:   *)
(* first what they rework, then when each file was touched last.           *)
TouchAt(touched, changed, time) == [f \in DOMAIN touched \cup changed |-> IF f \in changed THEN time ELSE touched[f]]
TouchedWithin(touched, f, time) == f \in DOMAIN touched /\ time - touched[f] <= ChurnWindow

\* Mutant: a file is touched by the commits of a time before they are looked at.
LookAtTouched(commits, files, entries, state, time) ==
    LET group == {h \in entries : commits[h].when = time}
        touched == TouchAt(state.touched, UNION {files[h] : h \in group}, time)
    IN [reworked |-> [h \in DOMAIN state.reworked \cup group |->
                        IF h \in group THEN Cardinality({f \in files[h] : TouchedWithin(touched, f, time)})
                        ELSE state.reworked[h]],
        touched |-> touched]

LookAtTime(commits, files, entries, state, time) ==
    LET group == {h \in entries : commits[h].when = time}
    IN [reworked |-> [h \in DOMAIN state.reworked \cup group |->
                        IF h \in group THEN Cardinality({f \in files[h] : TouchedWithin(state.touched, f, time)})
                        ELSE state.reworked[h]],
        touched |-> TouchAt(state.touched, UNION {files[h] : h \in group}, time)]

computeReworkRate(commits, files, cutoff) ==
    LET entries == {h \in InPeriod(commits, cutoff) \cap DOMAIN files : files[h] # {}}
        times == SetToSortSeq({commits[h].when : h \in entries}, <)
        done == FoldLeft(LAMBDA state, time : LookAtTime(commits, files, entries, state, time),
                         [reworked |-> <<>>, touched |-> <<>>], times)
        rate(week) == LET made == MadeIn(commits, entries, week)
                      IN <<MapThenSumSet(LAMBDA h : done.reworked[h], made),
                           MapThenSumSet(LAMBDA h : Cardinality(files[h]), made)>>
    IN [week \in {weekStart(commits[h].when) : h \in entries} |-> rate(week)]
===============================================================================
