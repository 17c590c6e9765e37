---------------------------- MODULE AnalyticsView ----------------------------
(***************************************************************************)
(* The analytics view of the browser (web/analyticsView.js) and how the    *)
(* page loads, feeds and shows it (web/gitvista/app.js).  It draws the     *)
(* server's answer for the selected period, and statistics of its own when *)
(* the server fails.  update() runs anew with every message and every      *)
(* click; nothing numbers its runs.                                        *)
(*                                                                         *)
(* A function that awaits ends in a request, which says for whom it was    *)
(* made; what follows the await is in the action that takes the answer.    *)
(* Left out: drawing, tooltips, sections that fold, and the words shown.   *)
(***************************************************************************)
EXTENDS CommitStatistics, Bags

CONSTANTS Histories,      \* repositories the server may have, one after another
          Lightweight,    \* commits a bootstrap sends without their author
          TooLarge,       \* commits whose diff the server may skip
          Unknown,        \* the author of such a commit
          Cutoffs,        \* the presets of PERIODS, each with its cutoff
          Ranges,         \* custom ranges the user may ask for
          HydrateChunk,   \* ANALYTICS_HYDRATE_CHUNK
          MayFail,        \* the kinds of requests that may fail
          MaxSteps        \* bound of the model: what the user and the network
                          \* may do in all

(* What the module that instantiates this one assumes of the constants.     *)
ViewAssumption ==
    /\ HydrateChunk \in Nat \ {0} /\ MaxSteps \in Nat
    /\ "All" \in DOMAIN Cutoffs /\ DOMAIN Cutoffs \cap Ranges = {}
    /\ \A history \in Histories :
          Len(history) \in Nat \ {0} /\ \A v \in 1..Len(history) : IsFiniteSet(DOMAIN history[v])

VARIABLES server,  \* its history, where it is in it, and what the page was told of it
          panel,   \* the view, the commits of the graph, and requests in flight
          used

vars == <<server, panel, used>>

Nothing == [from |-> "nothing"]

NewPanel ==
    [importing |-> FALSE, loaded |-> FALSE, preloaded |-> FALSE, open |-> FALSE, frame |-> FALSE,
     commits |-> <<>>, inflight |-> EmptyBag,
     selected |-> "All", range |-> "none", note |-> "none",
     rendered |-> FALSE, loading |-> FALSE, sections |-> TRUE, empty |-> TRUE,
     cache |-> <<>>, hydrating |-> FALSE, attempted |-> {},
     stats |-> Nothing, statsIs |-> "idle", statsNote |-> "idle",
     main |-> Nothing, sizes |-> Nothing, signals |-> Nothing]

Init == /\ \E history \in Histories : server = [history |-> history, version |-> 1, told |-> 0]
        /\ panel = NewPanel /\ used = 0

Repository == server.history[server.version]
Identity(c) == [when |-> c.when, author |-> c.author, merge |-> c.merge]
Skeleton(c) == [Identity(c) EXCEPT !.author = Unknown]

Spend == used < MaxSteps /\ used' = used + 1
Free == UNCHANGED used

----------------------------------------------------------------------------
(* Operators from one panel to the next.                                   *)

AskEach(p, requests) == [p EXCEPT !.inflight = @ (+) SetToBag(requests)]
Ask(p, request) == AskEach(p, {request})
Answered(p, request) == [p EXCEPT !.inflight = @ (-) SetToBag({request})]

ForPreload == [fn |-> "preload", period |-> "All"]
ForUpdate(period) == [fn |-> "update", period |-> period]

\* A custom range has no preset; what is computed for it here is "All".
PresetOf(selected) == IF selected \in DOMAIN Cutoffs THEN selected ELSE "All"
KeyOf(p, period) == IF period = "Custom" THEN p.range ELSE period

showSections(p) == [p EXCEPT !.sections = TRUE, !.empty = FALSE]
ShowLoading(p) == [p EXCEPT !.loading = TRUE, !.sections = FALSE, !.empty = FALSE]
ShowEmpty(p) == [p EXCEPT !.empty = TRUE, !.sections = FALSE]
DoneLoading(p) == [p EXCEPT !.loading = FALSE, !.rendered = TRUE]

updateDiffStatsUI(p) == [p EXCEPT !.statsNote = p.statsIs]

(* The two charts that need the files of commits.                          *)
SizesOf(commits, files, cutoff) ==
    [from |-> "browser", commits |-> commits, files |-> files, cutoff |-> cutoff,
     changeSize |-> computeChangeSizeDistribution(commits, files, cutoff),
     rework |-> computeReworkRate(commits, files, cutoff)]

redrawDiffStatsCharts(p) ==
    IF p.stats = Nothing \/ p.commits = <<>> THEN p
    ELSE [p EXCEPT !.sizes = SizesOf(p.commits, p.stats.files, Cutoffs[PresetOf(p.selected)])]

loadDiffStats(p) ==
    CASE p.stats # Nothing \/ p.statsIs = "loading" -> p
      [] p.stats = Nothing /\ p.statsIs # "loading" /\ p.commits = <<>> -> updateDiffStatsUI([p EXCEPT !.statsIs = "idle"])
      [] OTHER -> Ask(updateDiffStatsUI([p EXCEPT !.statsIs = "loading"]), [what |-> "stats", asked |-> server.version])

MainOf(commits, cutoff) ==
    [from |-> "browser", commits |-> commits, cutoff |-> cutoff,
     velocity |-> computeVelocity(commits, cutoff), authors |-> computeAuthorCounts(commits, cutoff),
     heatmap |-> computeHeatmapData(commits, cutoff), merges |-> computeMergeStats(commits, cutoff)]

(* update() without the server: after the authors were asked for.          *)
DrawLocally(p, period) ==
    LET drawn == [showSections(p) EXCEPT !.main = MainOf(p.commits, Cutoffs[period]), !.signals = Nothing]
    IN DoneLoading(IF p.stats = Nothing THEN loadDiffStats(drawn) ELSE redrawDiffStatsCharts(drawn))

Hydrated(p, caller) == IF caller.fn = "update" THEN DrawLocally(p, caller.period) ELSE p

SendBatch(p, batches, caller) ==
    Ask([p EXCEPT !.attempted = @ \cup ToSet(Head(batches))],
        [what |-> "identities", batch |-> Head(batches), rest |-> Tail(batches), for |-> caller, asked |-> server.version])

Batches(hashes) ==
    LET all == SetToSeq(hashes)
        number == (Len(all) + HydrateChunk - 1) \div HydrateChunk
    IN [i \in 1..number |-> SubSeq(all, (i - 1) * HydrateChunk + 1, Min({i * HydrateChunk, Len(all)}))]

Missing(p, period) == {h \in InPeriod(p.commits, Cutoffs[period]) : p.commits[h].author = Unknown} \ p.attempted

\* Mutant: the flag that says another one is asking is not looked at.
hydrateAtOnce(p, caller) ==
    LET missing == Missing(p, caller.period)
    IN IF missing = {} THEN Hydrated(p, caller)
       ELSE SendBatch([p EXCEPT !.hydrating = TRUE], Batches(missing), caller)

(* Only one at a time asks for authors; a second one goes on without.      *)
hydrateAuthorsForPeriod(p, caller) ==
    LET missing == Missing(p, caller.period)
    IN IF p.hydrating \/ missing = {} THEN Hydrated(p, caller)
       ELSE SendBatch([p EXCEPT !.hydrating = TRUE], Batches(missing), caller)

(* What update() draws of a payload, and where it goes without one.        *)
RenderPayload(p, payload, period) ==
    LET drawn == [from |-> "server", of |-> payload]
    IN DoneLoading([showSections(p) EXCEPT !.main = drawn, !.sizes = drawn, !.signals = drawn, !.statsNote = "idle",
                                           !.note = IF period = "Custom" THEN payload.key ELSE "none"])

WithoutPayload(p, period) ==
    CASE period = "Custom" -> [showSections(p) EXCEPT !.note = "failed", !.loading = FALSE, !.signals = Nothing]
      [] period # "Custom" /\ p.commits = <<>> -> DoneLoading(ShowEmpty(p))
      [] OTHER -> hydrateAuthorsForPeriod(p, ForUpdate(period))

ForAnalytics(key, caller) == [what |-> "analytics", key |-> key, for |-> caller, asked |-> server.version]

update(p) ==
    LET begun == IF p.rendered THEN showSections(p) ELSE ShowLoading(p)
        key == KeyOf(p, p.selected)
    IN CASE ~p.loaded \/ ~p.open -> p
         [] p.loaded /\ p.open /\ key \in DOMAIN p.cache -> RenderPayload(begun, p.cache[key], p.selected)
         [] OTHER -> Ask(begun, ForAnalytics(key, ForUpdate(p.selected)))

preload(p) ==
    LET presets == DOMAIN Cutoffs \ DOMAIN p.cache
        fetching == AskEach(p, {ForAnalytics(key, ForPreload) : key \in presets})
        asking == loadDiffStats(fetching)
    IN IF p.commits = <<>> THEN asking ELSE hydrateAuthorsForPeriod(asking, ForPreload)

preloadAnalyticsOnce(p) == IF p.preloaded \/ ~p.loaded THEN p ELSE preload([p EXCEPT !.preloaded = TRUE])

----------------------------------------------------------------------------
(* Messages of the server.                                                 *)

Told(p) == preloadAnalyticsOnce(update(p))

ServerChanges == /\ Spend /\ server.version < Len(server.history) /\ server' = [server EXCEPT !.version = @ + 1]
                 /\ UNCHANGED panel

(* A connection, the first or another: the graph is emptied and sent anew. *)
OnBootstrapChunk ==
    LET sent == [h \in DOMAIN Repository |-> IF h \in Lightweight THEN Skeleton(Repository[h]) ELSE Identity(Repository[h])]
    IN /\ Spend /\ server' = [server EXCEPT !.told = server.version]
       /\ panel' = Told([panel EXCEPT !.commits = sent])

OnBootstrapComplete == /\ Spend /\ server.told > 0 /\ panel' = Told(panel) /\ UNCHANGED server

OnDelta ==
    LET old == server.history[server.told]
        new == server.history[server.told + 1]
        kept == DOMAIN panel.commits \ (DOMAIN old \ DOMAIN new)
        added == DOMAIN new \ DOMAIN old
    IN /\ 0 < server.told /\ server.told < server.version /\ Free
       /\ server' = [server EXCEPT !.told = @ + 1]
       /\ panel' = Told([panel EXCEPT !.commits =
                           [h \in kept \cup added |-> IF h \in added THEN Identity(new[h]) ELSE @[h]]])

----------------------------------------------------------------------------
(* The user.  The module is loaded when the panel is first shown.          *)

FromUser == Spend /\ UNCHANGED server
OnShow == /\ FromUser /\ ~panel.open /\ ~panel.frame
          /\ LET p == [panel EXCEPT !.open = TRUE]
             IN panel' = IF p.loaded THEN [preloadAnalyticsOnce(p) EXCEPT !.frame = TRUE] ELSE [p EXCEPT !.importing = TRUE]
Hide == FromUser /\ panel.open /\ panel' = [panel EXCEPT !.open = FALSE]

ViewLoaded == /\ panel.importing /\ Free /\ UNCHANGED server
              /\ panel' = [preloadAnalyticsOnce([panel EXCEPT !.importing = FALSE, !.loaded = TRUE]) EXCEPT !.frame = TRUE]
ViewFails == FromUser /\ panel.importing /\ "view" \in MayFail /\ panel' = [panel EXCEPT !.importing = FALSE]

FrameFires == panel.frame /\ Free /\ UNCHANGED server /\ panel' = update([panel EXCEPT !.frame = FALSE])

SelectorShown == panel.loaded /\ panel.open /\ panel.sections
SelectPeriod == /\ FromUser /\ SelectorShown
                /\ \E period \in DOMAIN Cutoffs : panel' = update([panel EXCEPT !.selected = period, !.note = "none"])
ApplyCustom == /\ FromUser /\ SelectorShown
               /\ \/ panel' = [panel EXCEPT !.note = "invalid"]
                  \/ \E r \in Ranges : panel' = update([panel EXCEPT !.range = r, !.selected = "Custom", !.note = r])

----------------------------------------------------------------------------
(* Answers, each of a repository the server has had since the request.     *)

Requests(what) == {r \in BagToSet(panel.inflight) : r.what = what}
Since(r) == r.asked..server.version
Arrives == Free /\ UNCHANGED server
Fails(what) == Spend /\ UNCHANGED server /\ what \in MayFail

TakeAnalytics(p, r, v) ==
    LET payload == [key |-> r.key, version |-> v]
        kept == [p EXCEPT !.cache = [k \in DOMAIN @ \cup {r.key} |-> IF k = r.key THEN payload ELSE @[k]]]
    IN IF r.for.fn = "update" THEN RenderPayload(kept, payload, r.for.period) ELSE kept
LoseAnalytics(p, r) == IF r.for.fn = "update" THEN WithoutPayload(p, r.for.period) ELSE p

(* The server stops at a limit and skips diffs that are too large.         *)
TakeStats(p, repo, skipped) ==
    LET files == [h \in DOMAIN repo \ skipped |-> repo[h].files]
        taken == [p EXCEPT !.stats = [from |-> "server", files |-> files],
                           !.statsIs = IF DOMAIN files = DOMAIN repo THEN "idle" ELSE "partial"]
    IN redrawDiffStatsCharts(updateDiffStatsUI(taken))
LoseStats(p) == updateDiffStatsUI([p EXCEPT !.statsIs = "error"])

(* What came is put among the commits of the graph, then the next batch.   *)
TakeIdentities(p, r, v) ==
    LET repo == server.history[v]
        came == ToSet(r.batch) \cap DOMAIN repo
        put == [p EXCEPT !.commits = [h \in DOMAIN @ \cup came |-> IF h \in came THEN Identity(repo[h]) ELSE @[h]]]
    IN IF r.rest # <<>> THEN SendBatch(put, r.rest, r.for) ELSE Hydrated([put EXCEPT !.hydrating = FALSE], r.for)
LoseIdentities(p, r) == Hydrated([p EXCEPT !.hydrating = FALSE], r.for)

AnalyticsArrive ==
    Arrives /\ \E r \in Requests("analytics") : \E v \in Since(r) : panel' = TakeAnalytics(Answered(panel, r), r, v)
AnalyticsFail == Fails("analytics") /\ \E r \in Requests("analytics") : panel' = LoseAnalytics(Answered(panel, r), r)

StatsArrive ==
    Arrives /\ \E r \in Requests("stats") : \E v \in Since(r), skipped \in {{}, TooLarge} :
                 panel' = TakeStats(Answered(panel, r), server.history[v], skipped)
StatsFail == Fails("stats") /\ \E r \in Requests("stats") : panel' = LoseStats(Answered(panel, r))

IdentitiesArrive ==
    Arrives /\ \E r \in Requests("identities") : \E v \in Since(r) : panel' = TakeIdentities(Answered(panel, r), r, v)
IdentitiesFail == Fails("identities") /\ \E r \in Requests("identities") : panel' = LoseIdentities(Answered(panel, r), r)

Messages == ServerChanges \/ OnBootstrapChunk \/ OnBootstrapComplete \/ OnDelta
User == OnShow \/ Hide \/ ViewLoaded \/ ViewFails \/ FrameFires \/ SelectPeriod \/ ApplyCustom
Answers == AnalyticsArrive \/ AnalyticsFail \/ StatsArrive \/ StatsFail \/ IdentitiesArrive \/ IdentitiesFail

Next == Messages \/ User \/ Answers

Spec == Init /\ [][Next]_vars

----------------------------------------------------------------------------
(* Properties.                                                             *)

Updating == {r \in Requests("analytics") \cup Requests("identities") : r.for.fn = "update"}
JustOne(what) == \E r \in Requests(what) : Requests(what) = {r} /\ panel.inflight[r] = 1

(* Requests (analyticsView.js:1651, 484, 434): a panel that shows nothing  *)
(* yet says that it is loading, and then an update will end it; what the   *)
(* two flags say is under way is, once; and no commit waits in a batch     *)
(* while it has been asked for in another.                                 *)
RequestsAccounted ==
    /\ panel.sections \/ panel.empty \/ panel.loading
    /\ panel.loading => Updating # {}
    /\ IF panel.statsIs = "loading" THEN JustOne("stats") ELSE Requests("stats") = {}
    /\ panel.statsNote = "loading" => panel.statsIs = "loading"
    /\ IF panel.hydrating THEN JustOne("identities") ELSE Requests("identities") = {}
    /\ \A r \in Requests("identities") : (UNION {ToSet(b) : b \in ToSet(r.rest)}) \cap panel.attempted = {}

(* Rework as the server computes it (computeRework in                      *)
(* internal/analytics/analytics.go:980): for each file of each commit some *)
(* earlier commit, not long before, that touches it.                       *)
ReworkOf(commits, entries, files) ==
    LET Time(h) == commits[h].when
        Reworked(h, f) == \E g \in entries : Time(g) < Time(h) /\ Time(h) - Time(g) <= ChurnWindow /\ f \in files[g]
        Touches(week) == {t \in entries \X UNION {files[h] : h \in entries} :
                            weekStart(Time(t[1])) = week /\ t[2] \in files[t[1]]}
    IN [week \in {weekStart(Time(h)) : h \in entries} |->
          <<Cardinality({t \in Touches(week) : Reworked(t[1], t[2])}), Cardinality(Touches(week))>>]

(* Statistics (analyticsView.js:86, 162, 204, 239, 280, 326): the charts   *)
(* drawn from the commits of the browser count the same commits, up to     *)
(* those of weeks to come, which have no place on the time line; and the   *)
(* rework is that of the server.                                           *)
ChartsMeanTheCommits ==
    /\ panel.main.from = "browser" =>
         LET m == panel.main
             counted == InPeriod(m.commits, m.cutoff)
             later == {h \in counted : weekStart(m.commits[h].when) > Now}
         IN /\ m.authors.totalInPeriod = Cardinality(counted) /\ m.merges.totalCount = Cardinality(counted)
            /\ m.velocity.totalCommits + Cardinality(later) = Cardinality(counted)
            /\ MapThenSumSet(LAMBDA hour : m.heatmap.grid[hour], DOMAIN m.heatmap.grid) = Cardinality(counted)
    /\ panel.sizes.from = "browser" =>
         LET s == panel.sizes
             known == InPeriod(s.commits, s.cutoff) \cap DOMAIN s.files
         IN /\ s.rework = ReworkOf(s.commits, {h \in known : s.files[h] # {}}, s.files)
            /\ TotalOf(s.changeSize.buckets) = Cardinality(known)

(* "Main update - re-reads commits and redraws everything"                 *)
(* (analyticsView.js:1650): with the page told of everything and no update *)
(* under way, the charts on the screen are those of the server's last      *)
(* repository.                                                             *)
RedrawsEverything ==
    panel.open /\ panel.main.from = "server" /\ server.told = server.version /\ ~panel.frame /\ panel.inflight = EmptyBag
        => panel.main.of.version = server.version

(* "failed hydration batches can retry on a later update"                  *)
(* (analyticsView.js:470): once hydration has ended, a commit still        *)
(* without an author may be asked for again.                               *)
FailedBatchesRetry ==
    ~panel.hydrating => \A h \in DOMAIN panel.commits : panel.commits[h].author = Unknown => h \notin panel.attempted
===============================================================================
