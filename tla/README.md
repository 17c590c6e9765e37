# GitVista: TLA+ models, checks and proofs

GitVista serves a live picture of a Git repository to browsers: a Go server reads the repository,
watches it, and sends every change over WebSockets to the pages that show it. This directory models
the parts of it where order and timing decide what a user sees: on the server the session's
reload-diff-broadcast pipeline, the connections it feeds and the cache of derived answers; in the
browser the connection, the graph with its lazy hydration and recycled nodes, the lane layout, the
file explorer with its diff views, the analytics view, and the search.

## 1. The system

| Part | Source | State | Operations |
|---|---|---|---|
| Repository reader | `gitcore/` | a loaded, immutable `Repository` | `NewRepository`, refs, commits, diff, status |
| Delta | `internal/repositoryview/delta.go` | none | `DiffRepositories`, `IsEmpty` |
| Session | `internal/server/session.go` | `cached.repo`, `updateMu`, `clients`, `broadcast`, `diffCache`, `analyticsGen`, two WaitGroups | `updateRepository`, `Repo`, `Start`, `Close` |
| Broadcast and handshake | `session_websocket.go`, `websocket.go` | the clients map, one write mutex per connection | `handleBroadcast`, `sendToAllClients`, `broadcastUpdate`, `sendInitialBootstrap`, `registerClient`, `removeClient`, both pumps |
| Bootstrap batches | `session_bootstrap.go` | none | `planInitialCommitBatches`, `buildBootstrapMessages` |
| Watcher and poll | `watcher.go`, `status.go` | debounce timer, last status | `watchLoop`, `statusPollLoop` |
| Cache and its users | `cache.go`, `handlers_diff.go`, `handlers_history.go`, `session_bootstrap.go` | LRU map and list | `Get`, `Put`, `Clear`; handlers and prewarm goroutines |
| Server life cycle | `server.go` | `ctx`, `wg` | `Start`, `Shutdown` |
| Browser connection | `web/backend.js`, `errorState.js`, `connectionBanner.js`, `repoUnavailableOverlay.js`, `apiFetch.js` | socket, attempt, back-off, timers; what is said of them | `connect`, `scheduleReconnect`, `destroy`, `trackFailure` |
| Graph controller | `web/graph/graphController.js`, `web/graph/state/`, `filterPredicate.js` | commits, refs, HEAD; hydration queue; index, window and node pool; search, filters, isolation, drag, tooltip | `applyDelta`, `resetData`, hydration, `rebuildVisibleGraph`, `switchLayout`, navigation, pointer |
| Lane layout | `web/graph/layout/laneStrategy.js` | segments, kept positions, rows, coordinates | `updateGraph`, `moveSegment`, `rebalance`, `findLaneBodyAt` |
| File explorer | `web/fileExplorer.js`, `diffView.js`, `diffContentViewer.js`, `fileContentViewer.js`, `stagingView.js` | commit, tree cache, expanded paths, generations, viewers | `openCommit`, `revealPath`, `open`/`close`, `showFromUrl` |
| Search | `web/search.js`, `web/searchQuery.js` | input, debounce timer, dropdown, files of commits | `executeSearch`, `parseSearchQuery`, `createSearchMatcher` |
| Analytics view | `web/analyticsView.js` | selected period, answers kept by period, diff stats, commits asked for, what each chart shows | `update`, `preload`, `hydrateAuthorsForPeriod`, `loadDiffStats`, `compute…` |
| Page | `web/gitvista/app.js` | none of its own | routes messages and events between the parts above |
| Self update, refs, object readers, the server's statistics, rendering, command lines, HTTP plumbing | `internal/selfupdate`, `gitcore/`, `internal/analytics`, `web/graph/rendering`, `cmd/` | | not modelled (section 7) |

How they interact. `fsnotify` events arm a timer; its callback runs `updateRepository` in a goroutine
of its own, and so does every `/api/graph` request. The update reloads the repository, replaces the
cached one, clears the cache, starts a prewarm goroutine and puts up to three messages into a bounded
channel that drops what does not fit. One goroutine takes them out and writes them to a copy of the
clients map. A new connection is sent a summary, the whole graph, a status and HEAD by its own
handler, and is registered for the broadcast only afterwards. Handlers read the cached repository,
compute for a long time without a lock, and store the answer in the shared cache.

In the browser a message resets or extends the graph; commits of a bootstrap may come as stubs whose
texts are fetched when they are drawn, searched or pointed at. The layout gives every commit a lane and
a row; an index sorted by row and a window around the view decide which commits get a node, and nodes
are recycled through a pool. Search, filters, isolation and scope dim nodes through one predicate. A
click opens the explorer on a commit; its trees, diffs and contents come from requests that are
numbered, so that late answers can be told. Every counted request that fails brings the page closer to
calling the repository unavailable; a socket that closes is reopened by a timer with doubling delay.

What is hard. The reload, the handshake, the poll, the broadcast, the pings, the prewarm goroutines and
the shutdown run at once and meet at four mutexes and one lossy channel. What a browser shows is the
result of a bootstrap and a sequence of deltas that were computed at other times. The browser has one
thread, but many callbacks: timers, answers, messages and user events come in any order, and much of
its state is a copy of other state (nodes of commits, dimming of filters, rows of trees, positions of
segments) that each handler must remember to renew. The hazards are
listed one by one, at their line, in `PROJECT.json`.

What makes each part correct:

- session: deltas are computed against the cached repository and queued in order; a client that missed
  none shows the repository on disk in the end;
- connections: one writer at a time; the map holds exactly the open connections; a dead client goes;
  shutdown ends;
- cache: never above its size, evicts the least recently used, answers with what was stored;
- cache users: an answer is filed under the key of the repository it was computed from;
- delta: applied to the old graph it gives the new one, and a replay of old deltas does no lasting harm;
- graph controller: the graph ends up as the server's; what is drawn is what is known, is asked for
  exactly once and until it is there; a recycled node is one commit's at a time;
- lanes: a commit above its parents, no overlap, a merged branch in one lane, dragged lanes stay;
- explorer: what is on the screen belongs to what was opened last;
- connection: one socket or one timer, reported as it is, reopened in the end;
- search: what is shown is what the words of the input mean;
- analytics view: it says it is loading while it is, asks once, and its charts count the same commits.

## 2. Modules

| Module | What it is | Corresponds to |
|---|---|---|
| `RepositoryDelta` | operators: `DiffRepositories`, `IsEmpty`, `applyDelta` | `delta.go`, `graphController.js` |
| `LRUCache` | the cache as map and list; one action per method | `cache.go` |
| `BoundedCache` | what the users of the cache rely on (abstract) | refined by `LRUCache` |
| `SessionCache` | `cached`, `diffCache`, prewarm goroutines, handlers; one action per step between two locks | `session_bootstrap.go`, `handlers_*.go` |
| `RepoSession` | the pipeline; extends `SessionCache` | `session.go`, `session_websocket.go`, `websocket.go`, `watcher.go` |
| `LiveFeed` | what a session promises a browser that joins (abstract) | counterpart of `RepoSession` for one client |
| `ClientConnections` | goroutines around a connection, and `Shutdown` | `websocket.go`, `session_websocket.go`, `server.go` |
| `GraphFilter` | operators: the predicate of search, filters, isolation and scope | `filterPredicate.js` |
| `CommitWindow` | operators: commit index, viewport window, node pool | `commitIndex.js`, `viewportWindow.js`, `nodeMaterializer.js` |
| `GraphController` | the controller, its requests, the feed of the server with bootstrap batches | `graphController.js`, `session_bootstrap.go`, `app.js`, `handlers_history.go` |
| `LaneAssignment` | operators: priority of branches, lanes, rows, segments and their labels | `laneStrategy.js` |
| `LaneStrategy` | positions of segments over updates, drags, rebalancing, scrolling | `laneStrategy.js` |
| `DiffViewer` | operators: a viewer of one diff with its request number | `diffContentViewer.js` |
| `Explorer` | explorer, diff view, content viewer, staging view and their requests | `fileExplorer.js`, `diffView.js`, `fileContentViewer.js`, `stagingView.js`, `app.js` |
| `CommitStatistics` | operators: velocity, authors, heat map, merges, change sizes, rework | `analyticsView.js` |
| `AnalyticsView` | the view, its requests and flags, the messages that make it draw again | `analyticsView.js`, `app.js` |
| `Views` | `LaneStrategy` and `AnalyticsView`, a behaviour of either | `app.js` |
| `SearchQuery` | operators: parser of words, matcher | `searchQuery.js` |
| `Connection` | operators: socket, timer, back-off, error state, banner, failures | `backend.js`, `errorState.js`, `connectionBanner.js`, `apiFetch.js` |
| `Page` | connection and search box in one page | `search.js`, `app.js`, `repoUnavailableOverlay.js` |
| `MC*` | small instances | |
| `LRUCache_proof` | theorems about the cache | |
| `LiveFeed_proof` | theorems about `RepositoryDelta` and the feed | |
| `RepoSession_proof` | types, exclusion, prewarming and keys of `RepoSession`; order of the deltas on their way, and what they do to a client; extends `LiveFeed_proof` for the lemmas on deltas | |
| `ClientConnections_proof`, `GraphController_proof`, `Explorer_proof`, `Page_proof` | theorems about those modules | |
| `Views_proof` | theorems about the lanes (`LaneAssignment`, `LaneStrategy`) and about `AnalyticsView`, of the behaviours of `Views` | |

`RepositoryDelta` is extended by `LiveFeed` and `SessionCache`; `SessionCache` instantiates `LRUCache`
for its operators and is extended by `RepoSession`, so that a reload and the users of the cache
interleave in one state space. `ClientConnections` is separate: it looks at the same goroutines with
the content of the messages left out and the locks, deadlines and WaitGroups kept. `GraphController`
extends `GraphFilter` and `CommitWindow`, and `CommitWindow` and `RepositoryDelta` share the commits. The
place of each commit's lane is state of the controller: `Arrange` and `Layouts`, what the layout makes of a set of commits and what
it may make of a drag, are constants there, as `LaneStrategy` computes them, and dragging a header, rebalancing and
isolating are actions. `Page` extends `Connection` and
`SearchQuery`: the search's request goes through the counted fetch, and a page that is closed closes both.
`AnalyticsView` extends `CommitStatistics`. `Views` checks it beside the lanes: the two views call nothing of
each other and their steps commute, so that a behaviour of one at a time shows all they do.

How state and actions correspond to the code. A goroutine is a record with a `pc`; it moves from one
`pc` to the next where the code takes or leaves a lock, reads shared state, or does I/O. `Lock` to
`Unlock` of `RepoSession` is `updateRepository` line by line: `Reload` or `ReloadFails`, `Install`
(`rs.cached.repo = newRepo`), `ClearCache`, `Schedule`, `ReadStatus`, and one `Send` per message. The
handshake is `Accept` (first `Repo()`), `SendSummary`, `ReadBootstrap` (second `Repo()`),
`SendChunks`, `SendStatus`, `SendHead`, `registerClient`. Two variables, `version` and `behind`, and the
fields `from`, `to` and `seen` are history: no guard reads them. A connection is `behind` when a graph
delta it needed went to the clients without it, or was dropped.

In the browser modules one handler is one action, as one callback runs to its end before the next.
Its effect is an operator of the handler's name on a record (`ctl` of `GraphController`, `page` of
`Explorer`, `conn` and `box` of `Page`, `panel` of `AnalyticsView`), and handlers that call each other are operators that apply
each other, in the order of the calls. An `await` ends an action: the request joins a set of requests,
and another action, some time later, takes its answer and runs the rest of the function, with the
locals the request carries. Timers are flags. Requests in flight, numbers of a generation, the pool of
nodes and the index are kept as the code keeps them; a node's object has an identity, so that two
owners of one object can be told.

Data. A commit is a hash; equal hashes are equal commits. The branch label the server decorates a
commit with is left out. `headRef` stands for HEAD's name, whether it is detached, and its upstream. Tags
and stashes travel as a whole and are one value each. A status is the pair of the commit it was
compared with and the contents of the working tree. Bootstrap chunks are one delta against the empty
repository: they reach a client that is not yet registered, in one goroutine. An empty `headHash`
is not applied by the browser, and `NoHash` models it.

In the browser modules texts are abstracted to what matches them: a filter or a search value is given the set of
commits it fits, a word of a search is its dash, qualifier and value. A commit has a level, a stub or
hydrated. Geometry is kept where it decides: rows and the borders of the view are numbers in steps,
positions of lanes are integers, and a segment is a range of rows. Chunks of a bootstrap are cut by a
number of commits, which stands for the limits on both count and bytes. Of the force layout only what
it does to the controller's state is modelled: all nodes, no window.

## 3. Runs

All runs are exhaustive. "States" are distinct states.

| Run | Configuration | Shows |
|---|---|---|
| `lru_cache` | 4 keys, size 3, 2 values, 6 uses; 14 thousand states | order of use, what is evicted, refinement of `BoundedCache`, which bounds the size |
| `live_feed` | 12 repositories over 2 commits and 1 branch, 4 loads; 422 thousand | an old delta never leaves a client wrong for good |
| `session_updates` | 2 callbacks that may fail, poll, 1 client, 2 repositories (amend, branch deleted) changed twice, channel of 2; 2.7 million | exclusion, order of the deltas, clients catch up, what is installed was compared with what it replaces |
| `session_cache` | 2 requests, 2 prewarm slots, 1 handler, cache of 2; 1.5 million | prewarm works on the cached repository, keys match |
| `session_converges` | 1 callback, poll, 1 client, 2 changes of 2 repositories and trees, channel of 1, fairness; 127 thousand | convergence once the disk is quiet |
| `connections` | 1 connection, 2 messages and 2 prewarms at a time, fairness; 121 thousand | one writer, map = open connections, the WaitGroups count the goroutines they stand for, Close outlives the pumps, dead clients go, shutdown returns |
| `views` | lanes: all histories of 4 commits in order or with equal times, with two branches, one or none, and 6 shapes of 3 to 5 (merge with a slow clock, fork, stash, two roots); 2 steps after the first layout. Analytics: 3 histories of 3 commits, one of them rewritten, 2 periods and a range, batches of one, 4 events of user, server and failures together; 271 thousand | ancestry, no overlap, merged chains together, clicks find a lane where its commits are drawn, positions survive; requests and flags agree, charts count alike, rework is that of the server |
| `graph_feed` | 3 repositories of 2 to 4 commits, 1 change on the server, 1 lost connection, 1 failed answer, 1 user event, fairness; 262 thousand | hydration forgets nothing, asks once and rests; the graph is the server's |
| `graph_view` | 5 commits, 2 window heights, a stash's lane dragged to either side, every user event, 3 in a row, 1 server change, the canvas small at first; 401 thousand | node pool, window, dimming |
| `explorer` | 2 commits with a directory, its file and a file, 2 statuses, every user event, 4 in a row, launched for HEAD or a permalink, every request may fail or come late; 660 thousand | rows, lists and viewers belong to what was opened last |
| `page` | 13 inputs over every qualifier, 3 commits, 4 events of user, network and errors together, back-off up to its limit; 1.3 million | one connection, truthful, reopened; the search means its words |

Why these bounds. The hazards of the session are between two updates, or an update and a handshake: two
updaters and two changes give every overlap and let the second change undo part of the first, and
a channel of one or two overflows within one update, which queues up to three messages. One
client suffices because nothing relates two clients but the copy of the map, and the invariants of the
connections are proved for any number of them. The cache needs one key more than it has room for, and
one more to return. In the browser a hazard is an event between a request and its answer, or between
two derived copies of one state: a request, an event that overtakes it, its answer and one event on
the result are four steps. Five commits exceed the
window and its pool; small limits on batch, scan and attempts make each of them bite. Graphs for the lanes are chosen for their
shapes; a label no two segments share is the condition under which positions survive (section 4). The analytics view needs a click or
a message while an answer is on its way, and one of them to fail. Symmetry is used in safety runs only. `CHECK_DEADLOCK FALSE` stands where the modelled
history ends: all changes and events made, shutdown done, the page closed.

The search's reference, `Meant`, is written over the words of the input and does not use the parsed
query, so that `SearchShowsInput` compares two definitions as well as two moments. The type invariants of
`LRUCache`, `LiveFeed` (`FeedTypeOK`), `RepoSession`, `ClientConnections` and `LaneStrategy` are proved; that of
`GraphController` was model-checked with the same instances and is not part of a run.

## 4. Where code and text disagree

`session_gap` is a run; the others are configurations beside it that TLC finds violated in seconds
(`tlc -config <cfg> <module>`), with the property that quotes the text. `LanesRefuted` has three of them, and
`tlc -continue` reports each.

| Configuration | What the code does | What is said |
|---|---|---|
| `RepoSessionGap` (run `session_gap`), `AllClientsConverge` | a delta broadcast between `sendInitialBootstrap` and `registerClient` reaches everyone but the new client | README.md:73 "WebSocket broadcast to all connected clients" |
| `RepoSessionTags`, `TagsFollow` | `IsEmpty` ignores tags and stashes; creating a tag is not shown | watcher.go:44 "so that branch and tag creation/deletion events … are picked up" |
| `RepoSessionStatus`, `StatusConverges` | the poll compares with its own last status only, so that a stale status from an update or a handshake stays | watcher.go:90 "broadcasts if it has changed" |
| `RepoSessionStale`, `ServesCached` | an answer computed from the old repository is stored after `Clear` | session_test.go:138 "expected stale diff cache entry to be cleared" |
| `GraphSearch`, `SearchResultsConverge` | the list the user steps through is built when the search is set and not when its commits are hydrated | graphController.js:508 "so global search/counts converge" |
| `GraphDrawn`, `SelectedIsDrawn` | a selected commit gets no node when the view does not move | graphController.js:641 "The zoom handler will fire → ViewportWindow re-queries → rematerializes" |
| `GraphIsolated` (module `MCGraphController`), `DimmingFollowsLanes` | while a lane is isolated, dragging a header or rebalancing moves lanes and leaves the nodes dimmed for where they were | graphController.js:1362 "sets node.dimmed according to the active compound predicate" |
| `LanesRefuted` (module `MCLaneStrategy`), `PositionsSurvive` | segments of one label (`main` and a diverged `origin/main`) take the kept places in their order, which is not that of before | laneStrategy.js:205 "Persisted segment ID → position (survives graph updates)" |
| `LanesRefuted`, `ChainsNeverSplit` | a merge parent that is also somebody's first parent may already be expected in a lane when the merge is reached; its chain is then not walked, and with equal times it falls into two lanes | laneStrategy.js:589 "This prevents timestamp tie-breaking from fragmenting a chain" |
| `LanesRefuted`, `CommitsHitTheirLane` | `moveSegment` and `rebalance` leave the commit index as it was, so that the next scroll draws the commits of a moved lane at their old place, where a click finds no lane or another | laneStrategy.js:804 "Hit-tests a graph-space point against lane body regions" |
| `ExplorerStaleDiff`, `FileDiffOfCommit` | `close` leaves the generation, so that a file diff of the old commit is shown in the next one's | diffView.js:42 "Stale response protection counter" |
| `AnalyticsCached` (module `MCViews`), `RedrawsEverything` | the answer for a period is kept for good: no message clears it, and the charts stay those of the repository it was asked in | analyticsView.js:1650 "re-reads commits and redraws everything" |
| `AnalyticsRetry` (module `MCViews`), `FailedBatchesRetry` | a batch is noted as attempted before it is fetched, and never asked for again | analyticsView.js:470 "failed hydration batches can retry on a later update" |
| `ExplorerLoading`, `LoadingMeansFetching` | `openCommit` sets `loading` and returns early on a stale or failed answer | fileExplorer.js:95 "True while root tree is loading" |

`ClientsCatchUp` and `ClientsConverge` are stated for clients that are not `behind`; `session_gap`
is what remains without that condition.

Further consequences are in the models and are not stated as properties.

- Session. The handshake reads `Repo()` twice, so that the summary may be older than the graph. A
  handshake in progress when `Close` closes the connections it finds registers afterwards, and stays
  open (the history variable `late` records it; `ClosedAfterPumps` and `ShutdownReturns` exclude it).
  The goroutine of `time.AfterFunc` is counted by no WaitGroup and may start a prewarm goroutine after
  `Close` has waited for `rs.wg`.
- Graph. A hydration answer that comes after its commit was deleted brings the commit back into the
  map, and one that comes after `destroy` lays the graph out again and sets a timer. A tooltip keeps
  the node it was shown for, which the pool may have given to another commit. `setHeadHash` does not
  renew the dimming of a depth limit that counts from HEAD. `DimmingCurrent` claims nothing of nodes dimmed for another HEAD
under such a limit, nor, while a lane is isolated, of nodes dimmed for other places of the lanes (`dimmedFor` and `dimmedIn` are history).
A click whose node was recycled while the button was down shows no tooltip and selects nothing. Results of a forced search scan keep the
  index of the layout they were made in.
- Lanes. A merge that has the time of its own chain can be placed before it, and the chain falls
  into two lanes. A commit shared by two stashes keeps off the lane of the last one only. `DrawnHitTheirLane` claims nothing of a commit
  that a scroll draws from an index built before its lane moved. `_findFreeLane` returns a lane it
  appends without looking at the lanes to avoid.
- Explorer. Failed answers are not held against the generation, unlike what the header of
  fileExplorer.js says of all. A discarded answer leaves its directory open without rows. `openFilePath`
  in diff mode blanks the panel. The focus on the screen can differ from `focusedIndex` after a late
  answer. The content viewer stays open under `openCommit`. The staging overlay has no way back
  while it loads or after it failed. A takeover of a staged file whose graph has no HEAD commit leaves the explorer on the commit it
  was on; a permalink whose commit cannot be fetched ends in nothing when the request fails and in HEAD's when the server does not know it.
- Page. A failed request for the files of commits is sent again at once, for ever (`finally` searches
  again), and three such failures call the whole repository unavailable; all this goes on after
  `destroy`. The banner "Reconnected" is hidden, and its timer cleared, by the first message of the new socket
  (`onRepoMetadata`, whether or not the repository had been called unavailable), and
  dismissing it suppresses the next warning. The count of a search appears with the next frame even
  when the search was cleared before it.

- Analytics. A late answer for an earlier period is drawn over the selected one. Diff stats that come late
  draw the browser's sizes and rework over the server's, of all commits when a range is selected, and
  they are never fetched again. An answer of commits brings those the graph has deleted back. The server leaves
  merges out of its velocity and the browser does not; commits of a week to come are missing from
  the browser's velocity only (`ChartsMeanTheCommits` allows for them).

## 5. Fairness

`RepoSession!Fairness`: a goroutine that can step does; the wait for `updateMu` is strongly fair,
as Go's mutex hands itself to a waiter of more than a millisecond. Nothing is assumed of the disk,
of requests, of peers, or of whether writes succeed. `ClientConnections!Fairness`: a `select` that
finds a case ready infinitely often takes it in the end (Go chooses at random), the write mutex of a
connection is fair, and writes end by their deadline. Nothing makes a peer leave or anyone call
`Shutdown`; the read deadline of 60 s is what lets the read pump of a dead peer end.

`GraphController!FairSpec`: messages are delivered, timers fire, and requests are answered or refused, as
the browser's event loop and its network stack see to; refusals are bounded, and nothing is assumed of
the user, the server's changes or the connection. `Page!FairSpec`: timers fire, and a socket that
is connecting opens or fails to; how often the network fails is bounded.

## 6. Proofs

`tlapm` checks, for every value of the constants:

- `LRUCache_proof`: `CacheInv` (types, one element per key, bound, order of use) is inductive:
  the bound needs that list and map name the same keys, and the order of use needs that the list has no
  repetition, so that the four are proved together. From it: `CacheBounded`, `CacheOrderedByUse`,
  `CacheEvictsLeastRecentlyUsed` and `CacheImplements`, step simulation of `BoundedCache`.
- `LiveFeed_proof`: what one delta does to one commit and to one branch
  (`DeltaOnCommit`, `DeltaOnBranch`), and that agreeing on each is agreeing (`AgreeEverywhere`).
  Then `FeedInv`. `CaughtUp` is not inductive: while a client replays deltas older than
  its bootstrap its graph is that of no repository. `BetweenTwo` says what it is then: on each commit
  and branch it agrees with the repository the deltas have reached or with the bootstrap.
  The two delta lemmas carry the step: a delta settles a commit to the new repository, or
  leaves it where old and new agree. At the bootstrap's position both sides are the same repository.
- `RepoSession_proof`: `SessionTypes` (the channel bound included), `Exclusion`
  (the holder of `updateMu` is the only updater past `Lock`, and until it installs its `old` is the
  cached repository) and `DeltasAgainstCached` from it. `PrewarmFollows`: `PrewarmsCached` needs that the
  holder of the mutex has installed what it schedules for (`Installed`). `EntriesFiled`:
  `EntriesMatchKeys` needs that each goroutine carries the repository it computed from together with
  the key it made of it (`ReaderTypes`, `PrewarmTypes`), and says nothing of when the cache is cleared.
- `RepoSession_proof`, of delivery: `DeltasQueuedInOrder`. What is queued, what the sender holds and what the updater
  has still to send are one sequence whose deltas lead from one version to the next (`OrderInv`); the
  updater that has installed and not sent yet knows the versions its delta will lead between.
  And `ClientsAlwaysCatchUp`. Neither the property nor "the client's graph with all messages on
  their way applied is the cached one" is inductive, as a client may replay deltas older than its
  bootstrap. `CatchUpInv` says of every commit and branch by itself: if one of the messages on their way
  speaks of it, the last that does says what the cached repository says; if none does, the client's graph agrees
  already. During the handshake the same holds of the repository the handshake read, for deltas of later versions.
- `ClientConnections_proof`: `ConnInv`, for any finite set of connections. `OneWriter` needs that
  the holder of the write mutex is exactly who writes (`Mutex`) and that neither the broadcast nor a
  pump knows a connection before its handler registered it (`Registration`). `ClosedAfterPumps` needs
  that `clientWg` is the number of pumps alive (`WaitGroupsCount`: when `Close` reads zero there are
  none) and that a handler that runs after `Close` is one it saw running (`LateHandlers`), as
  the listener has stopped. From it: `ConnectionTypes` (neither WaitGroup counter goes below zero),
  `OneWriterAlways`, `RegisteredIffOpen`, `CountsAlways` and `CloseAfterPumps`.
- `GraphController_proof`, for any commits, repositories, pools, windows and number of events:
  - `HydrationAccounted`: `inflight` is what the open requests ask for (`HydrationInv`);
  - `GraphCaughtUp`: while there is a connection, what the controller shows followed by the messages on the way is the
    server's repository (`FeedInv`), and with none on the way they are equal;
  - `ObjectsOwned`: of active, forced and pooled node objects no two share one. `Sound` adds that
    the nodes drawn are active ones, that none of them is in the pool, and that neither the index
    nor the window names a commit twice, without which one scan would give one commit two nodes;
  - `DrawnCurrent`, `DimmedRight`, `StubsAskedFor`: nodes and decorators show what the maps say, are dimmed as the
    predicate says, and a stub that is drawn is in a batch or waits for one (`LookInv`). The commits of
    a bootstrap go into the maps before anything is drawn, so the invariant is that either a bootstrap
    is going on or the drawing is current (`Current`), and it needs that in the feed no batch comes after the
    end of its bootstrap (`Ordered`). `Judge` is what the predicate closed over when it was applied last, HEAD and the lanes among it;
  - `RowsHaveObjects`: `VisibleHasObject` from `Seen`, which is `Sound` and three facts about what is on the screen. `Framed`: the
    window reaches beyond the screen and holds every row in its reach; it needs that the binary search of the index finds the first
    row at or below a border (the rows are equally far apart) and that hysteresis keeps the window only while the screen
    stays inside it. `Furnishes`: the rows of the window are exactly the commits that have objects. `Roomy`: enough facts to count objects.
    A new object is needed only when the pool is empty; what is in use is then at most one node per commit, the nodes that another
    layout drew, the tooltip's and the pointer's, which is why `ObjectsAssumption` is what it is.
- `Explorer_proof`, for any commits, trees, statuses, URLs and number of events: `ExplorerInvariant`, that every page is `Good`, and from it
  - `DiffIsOfCommit` and `ViewersShowLatest`. That the views are right is not inductive: an answer on its way may be for
    something else. `Flies` says of each request that, if it still has the number of its view, it asks for what the view is on now, and
    that no request has a number to come, so that one taken by a new claim is no older request's. The generation of the
    explorer itself plays no part in them: a tree that arrives late goes into the cache under its own hash;
  - `RowsAreOfCommit`. A tree's hash says what is in it, so that it does not matter which answers filled the cache. `LevelHolds` shows
    that if the rows below each tree are that tree's, so are those of the level above; `WalkHolds` is the induction over levels, and
    `FlattenHolds` and `FlatRows` put the rows of the entries together. The rows drawn are those of the last drawing, so
    `Screen` ties what is drawn to the mode and the commit: whatever changes the commit draws again or draws a skeleton.
- `Page_proof`, for any delays, threshold, inputs, suggestions, answers and number of events:
  - `OneConnectionAlways` and `PageSaysTheConnection` from `ConnInv`: that a socket and a timer exclude each
    other is what makes the state told last, by the one or the other, the right one;
  - `SearchMeansInput`. The parser goes from word to word and the property speaks of all words at once.
    `Reads` joins them: after n words the query holds exactly the values that the first n words gathered, and of dates,
    merge filters and branches the last that set one (`ParseReads`, by induction over n); `MatchesMeant` makes of it that
    the matcher keeps what the words mean. `BoxInv` carries this over the steps of the box: the marked option
    is always one of those listed, which is what a click or Enter needs to find one, and a page that was
    disposed of, whose timer is cut off before it has searched, stays so.

- `Views_proof`, for any histories, changes from one to another, places a lane is dragged to, and number of steps:
  - `ParentsAlwaysBelow`: an effective time is later than that of any parent, as `EffectiveTime` is a fixed point on a history
    without cycles, and rows are in the order of effective times;
  - `NeverOverlap`, from `LaneInv`. Restored places may collide anywhere, so the proof is of `resolveAllCollisions`: pushing a segment
    outward clears the place it goes to first (`pushSegment` by the number of segments further out, which
    bounds the recursion), a push makes no two collide that did not (`Better`), and one pass from the top down leaves no collision, so
    that the limit of 50 passes is never reached. A drag pushes towards where the segment came from. It needs that
    the commits owned by the first branch are one segment, as a first-parent chain is connected, so that there is one main segment at most, which is
    never pushed;
  - `CommitsAlwaysHit`: where a step moves lanes, the nodes are drawn at the new places (`DrawnWhere`), or, after a scroll, at those of
    the index; and the body of a lane holds its commits (`BodyHolds`), as
    clipping a background to its neighbours, one after the other, moves its ends and leaves the ends of the lane proper (`LaneInfoIs`).
    It is a property of steps: of states it is false, as `LanesRefuted` shows;
  - `LaneTypes`: the segments hold all commits, each in one;
  - `RequestsAlwaysAccounted`, from `AnalyticsInv`: each of the two flags stands for one request under way, the batches of a hydration are
    disjoint and none of their commits has been attempted (`Batches` cuts one list), and whatever shows "loading" is ended by an answer
    that is under way.

The proof of `DrawnCurrent` found the model wrong in one place: when the connection is lost in the middle of a
bootstrap, the commits that have arrived stay in the maps and are not drawn until the next bootstrap ends.
`sync = "cut"` says so, and the properties of what is drawn are not claimed in that time. One
lost connection, as in `graph_feed`, did not show it; with two (`MaxLosses = 2`, properties of safety only) TLC passes.
The lanes' proofs found that merged chains stay together only from a merge parent with no other child; the property had been stated
of all, and a graph of six commits refutes it (`ChainsNeverSplit`, section 4).

Recursive definitions. The library's induction theorems take an operator and cannot be used here. Two ways round
are taken: an induction over naturals is done on a set of counterexamples, by its least element
(`WellFoundedInduction`, `FiniteSetTheorems` instantiated with sets); and a recursive function
(`Chain`, `EffectiveTime` of `LaneAssignment`, `pushSegment` and the passes of `LaneStrategy`, `Among`, `FirstAtLeast` of `CommitWindow`, `Doubled` of `Page`, the parser of `SearchQuery`, `Walk` and `expandSiblings` of `Explorer`, `FlattenSeq`)
is first shown to exist. `Explorer` filters with `Those` in place of `SelectSeq`, whose recursion is of another form.

Assumptions: the named `ASSUME`s of the modules, evaluated by every run. They say that sizes are
positive, that the connections are finitely many, that `Repos` are repositories and that the "nobody" values are none of the somebodies.
`TipsAssumption`: a repository's branches point at its commits, as `loadObjects` walks from every ref and
fails when one cannot be read. `NewestAssumption`: the order of commits by time names each once (ties are broken). `CacheAssumption`: the
periods to prewarm are a sequence of strings. `InputsAssumption`: inputs and suggestions are sequences, a word has
a dash or none. `TreesAssumption`: what Git guarantees of a tree object, that names in it are distinct and a directory's hash names a tree.
`ObjectsAssumption`: there are two node objects per commit and two more, as the code makes one whenever it
needs one. `GraphsAssumption`: what is laid out is a history (`IsHistory`): finite, no commit its own ancestor. `ViewAssumption`: the
analytics view's histories are finite and not empty.
`ControllerAssumption` also says that lanes are dragged to integers and that "no lane" is none; `FilterAssumption` that the names of the main
branch are branches; `ExplorerAssumption` that a permalink is a commit or none.
`NoUrlAssumption`: "no URL" is the URL of no file of the staging view. `NoValueAssumption`: nothing after a colon is neither "only" nor "exclude".

Model-checked only:

- everything under fairness (`ClientsConverge`, `BrokenClientsGo`, `ShutdownReturns`, `HydrationRests`,
  `Reconnects`, and the violations of `AllClientsConverge`, `TagsFollow`, `StatusConverges`), which is out of
  the prover's reach;
- `MergedChainsTogether` and `ChartsMeanTheCommits`: they say what a function that goes through all commits computes for every
  graph, an induction over data with an invariant of the whole state of the walk (the lanes waiting, the sums so far);
- `PositionsSurvive`, which holds only where no two segments have one label, as section 4 says.

`Bounded` and `OneElementPerKey` are proved only, as parts of `CacheInv`.

## 7. Not modelled

Binary formats, diffs, ignore rules, refs and commit walks of `gitcore` (sequential functions of files),
the statistics of `internal/analytics` (its answer is one value to the browser), HTTP routing and middleware, command lines, self update.
A session without a repository (`broadcastInitialBootstrap`) does not occur in the local server,
which starts with one. `StartFetchTicker` has no caller there; it would be one more `Request`. Which
file events are ignored is left out: any change of the Git directory is an event.

In the browser: drawing, animation, the force simulation, the minimap and touch gestures; syntax
highlighting and the text of rows; the sidebar, shortcuts, settings panels and the loader of views on
demand (`app.js` 206-290), but for the analytics view's; telemetry; the tokenizer of the search box. The graph's data stand still in
`Page`; a search whose matcher was made before a delta is in `GraphController`.

## 8. Plan

1. Done: server core (delta, cache, session, connections, feed) with first proofs; bootstrap batches, graph
   controller, lanes, explorer, analytics view, connection and search.
2. Done: proofs of what the session delivers (`DeltasInOrder`, `ClientsCatchUp`), its prewarming and its keys, the graph controller,
   the explorer, the page, the lanes and the analytics view's requests.
3. Proofs: `MergedChainsTogether`, with an invariant of `assignLanes` over the commits placed so far.
4. Ref loading against a concurrent `git` (`RefLoad`).
