------------------------------- MODULE Explorer -------------------------------
(***************************************************************************)
(* The file explorer of the browser (web/fileExplorer.js) with its commit  *)
(* diff view (web/diffView.js), its file viewer (fileContentViewer.js) and *)
(* the staging view (web/stagingView.js), whose diffs the explorer can     *)
(* take over (web/gitvista/app.js).                                        *)
(*                                                                         *)
(* JavaScript runs a callback to its end, up to an await: a user's event   *)
(* or the answer to a request is one action, the functions it calls are    *)
(* operators from one page to the next, and what runs after an await is    *)
(* the handler of the answer.  Answers come in any order.  Left out: the   *)
(* words drawn, animation, the cards of HEAD and of the upstream branch.   *)
(***************************************************************************)
EXTENDS DiffViewer, SequencesExt, FiniteSetsExt

CONSTANTS Commit, NoCommit,
          TreeOf,       \* the root tree of a commit
          FilesOf,      \* the paths a commit changes
          Entries,      \* the entries of a tree, sorted by name
          NoTree, NoPath,
          Statuses,     \* what git status may say
          Filters, NoFilter,  \* what the user types in the filter box
          HeadCommit,   \* the commit HEAD names
          Launch,       \* the file the page was launched for, or NoPath
          Permalinks,   \* the commits it may have been launched for, or NoCommit
          UserEvents,   \* the kinds of events the user makes
          Failing,      \* the kinds of requests that may fail
          MaxEvents,    \* bounds of the model: events of the user, and
          MaxInflight   \* requests in flight when the user makes the next

ASSUME ExplorerAssumption == /\ {MaxEvents, MaxInflight} \subseteq Nat /\ HeadCommit \in Commit
                             /\ Permalinks \subseteq Commit \cup {NoCommit}

(* Trees as git writes them: a name occurs once, and a directory's hash    *)
(* names a tree.                                                           *)
ASSUME TreesAssumption ==
    /\ \A c \in Commit : TreeOf[c] \in DOMAIN Entries
    /\ \A tree \in DOMAIN Entries :
         /\ Entries[tree] \in Seq(Range(Entries[tree]))
         /\ \A e, x \in Range(Entries[tree]) : e.name = x.name => e = x
         /\ \A e \in Range(Entries[tree]) : e.dir => e.hash \in DOMAIN Entries

(* NoUrl is the URL of no path the staging view lists.                     *)
ASSUME NoUrlAssumption ==
    \A s \in Statuses : \A path \in s.staged \cup s.modified \cup s.untracked :
        NoUrl \notin {<<"index", path>>, <<"working", path>>}

VARIABLES page, events
vars == <<page, events>>

Tree == DOMAIN Entries
Path == Seq(UNION {{e.name : e \in Range(Entries[tree])} : tree \in Tree})
Root == <<>>
Parent(path) == IF path = Root THEN Root ELSE Front(path)
Name(path) == Last(path)

NoThen == [do |-> "nothing"]

CleanStatus == [staged |-> {}, modified |-> {}, untracked |-> {}]

Init == /\ events = 0
        /\ page = [commit |-> NoCommit, root |-> NoTree, expanded |-> {}, cached |-> {},
                   selected |-> NoPath, generation |-> 0, focused |-> 1,
                   filter |-> NoFilter, typed |-> NoFilter, typing |-> FALSE,
                   loading |-> FALSE, breadcrumb |-> Root, status |-> <<>>,
                   mode |-> "tree", external |-> NoUrl, shownUrl |-> NoUrl,
                   diff |-> [open |-> FALSE, commit |-> NoCommit, files |-> "none", loading |-> FALSE,
                             selected |-> NoPath, file |-> FALSE, generation |-> 0],
                   viewer |-> [v \in {"commit", "external", "staging"} |-> NewViewer],
                   file |-> [claim |-> 0, visible |-> FALSE, content |-> Blank, opened |-> NoPath],
                   files |-> CleanStatus, committed |-> {}, overlay |-> NoUrl,
                   inflight |-> <<>>, launched |-> Launch = NoPath,
                   drawn |-> [what |-> "empty", rows |-> <<>>, covered |-> FALSE]]

Ask(p, request) == [p EXCEPT !.inflight = Append(@, request)]
Request(kind, gen, then) == [kind |-> kind, gen |-> gen, then |-> then]

----------------------------------------------------------------------------
(* The rows of the tree: what is expanded and fetched, directories first.  *)

StatusOf(p, path, dir) ==
    CASE path \in DOMAIN p.status /\ ~dir -> p.status[path]
      [] dir /\ (\E q \in DOMAIN p.status : IsStrictPrefix(path, q)) -> "dot"
      [] OTHER -> "clean"

(* What of a sequence passes, in order (SelectSeq in terms that can be     *)
(* reasoned about).                                                        *)
Those(seq, Test(_)) == FlattenSeq([i \in DOMAIN seq |-> IF Test(seq[i]) THEN <<seq[i]>> ELSE <<>>])

Ordered(entries) == Those(entries, LAMBDA e : e.dir) \o Those(entries, LAMBDA e : ~e.dir)

Row(p, e, path) == [path |-> Append(path, e.name), dir |-> e.dir, hash |-> e.hash,
                    status |-> StatusOf(p, Append(path, e.name), e.dir)]

(* The rows of each tree at each path, with those of what is open in it.   *)
Level(p, below) ==
    [tree \in Tree |-> [path \in Path |->
        LET entries == IF tree \in p.cached THEN Ordered(Entries[tree]) ELSE <<>>
            Inside(e, at) == IF e.dir /\ at \in p.expanded THEN below[e.hash][at] ELSE <<>>
        IN FlattenSeq([i \in DOMAIN entries |->
               <<Row(p, entries[i], path)>> \o Inside(entries[i], Append(path, entries[i].name))])]]

(* The rows from the root down: no more levels than trees fetched.         *)
Walk(p) ==
    LET walk[n \in 0..Cardinality(p.cached)] ==
            IF n = 0 THEN [tree \in Tree |-> [path \in Path |-> <<>>]] ELSE Level(p, walk[n - 1])
    IN walk[Cardinality(p.cached)][p.root][Root]

(* With a filter, the rows whose name matches and the directories above.   *)
Matching(rows, filter) ==
    LET Kept(row) == \E i \in DOMAIN rows : Name(rows[i].path) = filter /\ IsPrefix(row.path, rows[i].path)
    IN IF filter = NoFilter THEN rows ELSE Those(rows, Kept)

buildVisibleEntries(p) == Matching(IF p.root = NoTree THEN <<>> ELSE Walk(p), p.filter)

(* The focus moves to a path that is visible, else it stays.               *)
FocusOn(p, path) ==
    LET rows == buildVisibleEntries(p)
        at == {i \in DOMAIN rows : rows[i].path = path}
    IN IF at = {} THEN p ELSE [p EXCEPT !.focused = Min(at)]

----------------------------------------------------------------------------
(* The commit diff view.                                                   *)

openDiff(p, c) ==
    Ask([p EXCEPT !.diff = [open |-> TRUE, commit |-> c, files |-> "none", loading |-> TRUE,
                            selected |-> NoPath, file |-> FALSE, generation |-> @.generation + 1]],
        [Request("list", p.diff.generation + 1, NoThen) EXCEPT !.then = [do |-> "list", commit |-> c]])

closeDiff(p) ==
    [p EXCEPT !.diff = [@ EXCEPT !.open = FALSE, !.commit = NoCommit, !.files = "none",
                                 !.selected = NoPath, !.file = FALSE],
              !.viewer["commit"] = close(@)]

(* What the view draws: the file, or the list under its loading and error  *)
(* states.                                                                 *)
DiffDraws(p) == CASE p.diff.file -> "file"
                  [] ~p.diff.file /\ p.diff.loading -> "loading"
                  [] ~p.diff.file /\ ~p.diff.loading -> IF p.diff.files \in Commit THEN "list" ELSE p.diff.files

handleDiffFileClick(p, path) ==
    Ask([p EXCEPT !.diff = [@ EXCEPT !.selected = path, !.file = TRUE], !.viewer["commit"] = showLoading(@)],
        [Request("filediff", p.diff.generation, NoThen) EXCEPT
            !.then = [do |-> "show", of |-> <<p.diff.commit, path>>]])

DiffBack(p) == [p EXCEPT !.diff = [@ EXCEPT !.selected = NoPath, !.file = FALSE],
                         !.viewer["commit"] = close(@)]

----------------------------------------------------------------------------
(* Drawing the explorer, in the mode it is in.                             *)

FetchDiff(p, v) ==
    Ask(p, [Request("diff", p.viewer[v].claim, NoThen) EXCEPT
              !.then = [do |-> v, of |-> p.viewer[v].url, context |-> p.viewer[v].context]])

Drawn(p, what, rows) == [p EXCEPT !.drawn = [what |-> what, rows |-> rows, covered |-> FALSE]]

(* The diff view is opened again only for another commit.                  *)
renderDiffMode(p) ==
    Drawn(IF p.diff.open /\ p.diff.commit = p.commit THEN p ELSE openDiff(p, p.commit), "diff", <<>>)

renderExternalDiffMode(p) ==
    LET fresh == p.external # NoUrl /\ p.shownUrl # p.external
        q == [p EXCEPT !.shownUrl = p.external, !.viewer["external"] = showFromUrl(@, p.external)]
    IN Drawn(IF fresh THEN FetchDiff(q, "external") ELSE p, "external", <<>>)

renderTree(p) ==
    LET rows == buildVisibleEntries(p)
    IN Drawn([p EXCEPT !.focused = IF @ > Len(rows) THEN Max({1, Len(rows)}) ELSE @], "tree", rows)

render(p) == CASE p.mode = "diff" -> renderDiffMode(p)
               [] p.mode = "external" -> renderExternalDiffMode(p)
               [] p.mode = "tree" /\ p.commit = NoCommit -> Drawn(p, "empty", <<>>)
               [] p.mode = "tree" /\ p.commit # NoCommit /\ p.loading -> Drawn(p, "skeleton", <<>>)
               [] OTHER -> renderTree(p)

----------------------------------------------------------------------------
(* The file viewer.  Opening a file covers whatever the explorer draws.    *)

openFile(p, row) ==
    Ask([p EXCEPT !.file = [claim |-> @.claim + 1, visible |-> TRUE, content |-> Spinner, opened |-> row.hash]],
        [Request("blob", p.file.claim + 1, NoThen) EXCEPT !.then = [do |-> "file", of |-> row.hash]])

closeFile(p) == [p EXCEPT !.file.claim = @ + 1, !.file.visible = FALSE, !.file.content = Blank]

(* The children hidden are those drawn: the diff view's element too, which *)
(* then counts as closed.                                                  *)
handleFileClick(p, row) ==
    openFile([p EXCEPT !.selected = row.path, !.breadcrumb = Parent(row.path), !.drawn.covered = TRUE,
                       !.diff.open = @ /\ p.drawn.what # "diff",
                       !.viewer["external"].visible = @ /\ p.drawn.what # "external"], row)

----------------------------------------------------------------------------
(* Directories.                                                            *)

CollapseDir(p, row) ==
    FocusOn(render([p EXCEPT !.expanded = @ \ {row.path},
                             !.breadcrumb = IF IsPrefix(row.path, @) THEN Parent(row.path) ELSE @]), row.path)

ExpandDir(p, row) ==
    LET q == [p EXCEPT !.expanded = @ \cup {row.path}, !.breadcrumb = row.path]
    IN IF row.hash \in p.cached THEN FocusOn(render(q), row.path)
       ELSE Ask(q, [Request("dir", p.generation, NoThen) EXCEPT !.then = [do |-> "expand", row |-> row]])

handleDirClick(p, row) == IF row.path \in p.expanded THEN CollapseDir(p, row) ELSE ExpandDir(p, row)

(* The answer for a directory; an error is not held against the generation.*)
DirArrives(p, r, ok) ==
    CASE ~ok -> [p EXCEPT !.expanded = @ \ {r.then.row.path}]
      [] ok /\ r.gen # p.generation -> p
      [] OTHER -> FocusOn(render([p EXCEPT !.cached = @ \cup {r.then.row.hash}]), r.then.row.path)

expandSiblings(p, row, rows) ==
    LET siblings == Those(rows, LAMBDA e : e.dir /\ e.path \notin p.expanded /\ Parent(e.path) = Parent(row.path))
        after[n \in 0..Len(siblings)] == IF n = 0 THEN p ELSE handleDirClick(after[n - 1], siblings[n])
    IN after[Len(siblings)]

collapseAll(p) == render([p EXCEPT !.expanded = {Root}, !.breadcrumb = Root, !.focused = 1])

DirsBelow(p) ==
    LET below[n \in 0..Cardinality(p.cached)] ==
            [tree \in Tree, path \in Path |->
                IF n = 0 \/ tree \notin p.cached THEN {}
                ELSE UNION {{Append(path, e.name)} \cup below[n - 1][e.hash, Append(path, e.name)] :
                              e \in {x \in Range(Entries[tree]) : x.dir}}]
    IN below[Cardinality(p.cached)][p.root, Root]

expandAll(p) == render(IF p.root = NoTree THEN p ELSE [p EXCEPT !.expanded = @ \cup DirsBelow(p)])

----------------------------------------------------------------------------
(* Revealing a path: its directories are opened one by one, a fetch each   *)
(* where the tree is not cached; then the file is selected.  What waited   *)
(* for the path opens the file, or the staging view's diff of it.          *)

FileThen(path) == [do |-> "file", path |-> path]
ExternalThen(path, url) == [do |-> "external", path |-> path, url |-> url]

(* openFilePath and openExternalDiff after `await revealPath`.             *)
AfterReveal(p, row, then) ==
    CASE then.do = "file" -> IF row # <<>> /\ ~row[1].dir THEN handleFileClick(p, row[1]) ELSE p
      [] then.do = "external" -> render([p EXCEPT !.external = then.url, !.mode = "external"])

Revealed(p, then) ==
    LET q == FocusOn(render([p EXCEPT !.selected = then.path, !.breadcrumb = Parent(then.path)]), then.path)
    IN AfterReveal(q, SelectSeq(buildVisibleEntries(q), LAMBDA e : e.path = then.path), then)

(* The directories on the way, from one that is `depth` down: as far as    *)
(* what is fetched leads, and one further.                                 *)
DirOf(p, tree, name) ==
    LET found == IF tree \in p.cached THEN SelectSeq(Entries[tree], LAMBDA e : e.dir /\ e.name = name) ELSE <<>>
    IN IF found = <<>> THEN NoTree ELSE found[1].hash

RevealFrom(p, depth, tree, then) ==
    LET way[n \in depth..Len(then.path)] == IF n = depth THEN tree ELSE DirOf(p, way[n - 1], then.path[n])
        last == Max({depth} \cup {n \in depth..Len(then.path) - 1 : way[n] # NoTree})
        q == [p EXCEPT !.expanded = @ \cup {SubSeq(then.path, 1, n) : n \in depth + 1..last}]
    IN IF last = depth \/ way[last] \in p.cached THEN Revealed(q, then)
       ELSE Ask(q, [Request("reveal", p.generation, then) EXCEPT
                      !.then = [do |-> "reveal", depth |-> last, hash |-> way[last], next |-> then]])

revealPath(p, then) == IF p.root = NoTree THEN AfterReveal(p, <<>>, then) ELSE RevealFrom(p, 0, p.root, then)

RevealArrives(p, r, ok) ==
    CASE ~ok -> Revealed(p, r.then.next)
      [] ok /\ r.gen # p.generation -> AfterReveal(p, <<>>, r.then.next)
      [] OTHER -> RevealFrom([p EXCEPT !.cached = @ \cup {r.then.hash}], r.then.depth, r.then.hash, r.then.next)

----------------------------------------------------------------------------
(* Opening a commit.  A commit the page knows only by hash is fetched      *)
(* first, and the old one stays open meanwhile.                            *)

Continue(p, then) == IF then.do = "nothing" THEN p ELSE revealPath(p, then)

\* Mutant: nothing is drawn before the root tree is there.
LoadUndrawn(p, c, then) ==
    Ask([p EXCEPT !.commit = c, !.root = TreeOf[c], !.expanded = {Root}, !.cached = {}, !.focused = 1,
                  !.loading = TRUE, !.mode = "tree", !.external = NoUrl],
        [Request("root", p.generation, then) EXCEPT !.then = [do |-> "root", tree |-> TreeOf[c], next |-> then]])

LoadTree(p, c, then) ==
    LET closed == [IF p.diff.open THEN closeDiff(p) ELSE p EXCEPT !.viewer["external"] = close(@)]
    IN Ask(render([closed EXCEPT !.commit = c, !.root = TreeOf[c], !.expanded = {Root}, !.cached = {},
                                 !.selected = NoPath, !.focused = 1, !.filter = NoFilter, !.breadcrumb = Root,
                                 !.loading = TRUE, !.mode = "tree", !.external = NoUrl, !.shownUrl = NoUrl]),
           [Request("root", p.generation, then) EXCEPT !.then = [do |-> "root", tree |-> TreeOf[c], next |-> then]])

openCommit(p, c, known, then) ==
    LET q == [p EXCEPT !.generation = @ + 1]
    IN IF known THEN LoadTree(q, c, then)
       ELSE Ask(q, [Request("hydrate", q.generation, then) EXCEPT
                      !.then = [do |-> "hydrate", commit |-> c, next |-> then]])

CommitArrives(p, r, ok) == IF ok /\ r.gen = p.generation THEN LoadTree(p, r.then.commit, r.then.next)
                           ELSE Continue(p, r.then.next)

(* HEAD's commit is opened if the graph has it; what waits for it goes on. *)
openHead(p, inGraph, known, then) ==
    IF inGraph THEN openCommit(p, HeadCommit, known, then) ELSE revealPath(p, then)

(* The root tree's answer; an error is not held against the generation.    *)
RootArrives(p, r, ok) ==
    CASE ok /\ r.gen # p.generation -> Continue(p, r.then.next)
      [] ok /\ r.gen = p.generation -> Continue(render([p EXCEPT !.cached = @ \cup {r.then.tree}, !.loading = FALSE]), r.then.next)
      [] OTHER -> Continue(render([p EXCEPT !.loading = FALSE]), r.then.next)

----------------------------------------------------------------------------
(* The other answers.                                                      *)

\* Mutant: the list of an earlier opening is taken.
takeAnyList(p, r, ok) ==
    [p EXCEPT !.diff.files = IF ok THEN r.then.commit ELSE "failed", !.diff.loading = FALSE]

ListArrives(p, r, ok) ==
    IF r.gen # p.diff.generation THEN p
    ELSE [p EXCEPT !.diff.files = IF ok THEN r.then.commit ELSE "failed", !.diff.loading = FALSE]

(* show() claims its number when it is called and paints once the          *)
(* highlighter is there: the rest of it is a step of its own.              *)
FileDiffArrives(p, r, ok) ==
    CASE r.gen # p.diff.generation -> p
      [] r.gen = p.diff.generation /\ ok ->
            Ask([p EXCEPT !.viewer["commit"] = claimRenderRequest(@)],
                [Request("paint", p.viewer["commit"].claim + 1, NoThen) EXCEPT
                   !.then = [do |-> "commit", of |-> r.then.of, context |-> DefaultContext]])
      [] OTHER -> [p EXCEPT !.viewer["commit"] = showRetryError(@, r.then.of[2])]

DiffArrives(p, r, ok) ==
    [p EXCEPT !.viewer[r.then.do] =
        PaintAnswer(@, r.gen, CASE ok -> Diff(r.then.of, r.then.context)
                                [] ~ok /\ r.then.context = DefaultContext -> Failed(r.then.of)
                                [] OTHER -> Broken)]

BlobArrives(p, r, ok) ==
    IF r.gen # p.file.claim THEN p
    ELSE [p EXCEPT !.file.content = IF ok THEN [what |-> "blob", of |-> r.then.of] ELSE Failed(r.then.of)]

Arrives(p, r, ok) ==
    CASE r.kind = "hydrate" -> CommitArrives(p, r, ok)
      [] r.kind = "root" -> RootArrives(p, r, ok)
      [] r.kind = "dir" -> DirArrives(p, r, ok)
      [] r.kind = "reveal" -> RevealArrives(p, r, ok)
      [] r.kind = "list" -> ListArrives(p, r, ok)
      [] r.kind = "filediff" -> FileDiffArrives(p, r, ok)
      [] r.kind \in {"diff", "paint"} -> DiffArrives(p, r, ok)
      [] r.kind = "blob" -> BlobArrives(p, r, ok)

(* An answer of the server, or an error, to any request in flight.         *)
Answered(i) == [page EXCEPT !.inflight = RemoveAt(@, i)]
Answer == \E i \in DOMAIN page.inflight :
            LET r == page.inflight[i]
            IN /\ r.kind # "launch"
               /\ \E ok \in {TRUE} \cup (IF r.kind \in Failing THEN {FALSE} ELSE {}) :
                    page' = Arrives(Answered(i), r, ok)
               /\ UNCHANGED events

(* The commit of the permalink arrives; the server does not know it; or    *)
(* the request fails, which ends it.                                       *)
PermalinkArrives ==
    \E i \in DOMAIN page.inflight :
        LET r == page.inflight[i]
        IN /\ r.kind = "launch"
           /\ \/ page' = openCommit(Answered(i), r.then.commit, TRUE, r.then.next)
              \/ \E inGraph, known \in BOOLEAN : page' = openHead(Answered(i), inGraph, known, r.then.next)
              \/ r.kind \in Failing /\ page' = Answered(i)
           /\ UNCHANGED events

----------------------------------------------------------------------------
(* The staging view.                                                       *)

Paths(status) == status.staged \cup status.modified \cup status.untracked
Zone(status, path) == IF path \in status.staged THEN "staging" ELSE "working"

(* A path that was staged and is in no zone any more counts as committed.  *)
updateStatus(p, status) ==
    [p EXCEPT !.files = status,
              !.committed = @ \cup {q \in Paths(p.files) : Zone(p.files, q) = "staging" /\ q \notin Paths(status)}]

(* The explorer's index: of the categories of a path the last one counts.  *)
updateWorkingTreeStatus(p, status) ==
    LET Category(path) == CASE path \in status.untracked -> "untracked"
                            [] path \in status.modified \ status.untracked -> "modified"
                            [] OTHER -> "staged"
        q == [p EXCEPT !.status = [path \in Paths(status) |-> Category(path)]]
    IN IF p.commit # NoCommit /\ ~p.loading /\ p.mode = "tree" THEN render(q) ELSE q

showDiffForFile(p, source, path) ==
    FetchDiff([p EXCEPT !.overlay = <<source, path>>, !.viewer["staging"] = showFromUrl(@, <<source, path>>)], "staging")

StagingBack(p) == [p EXCEPT !.viewer["staging"] = close(@), !.overlay = NoUrl]

(* The explorer opens HEAD and takes the overlay's diff over.              *)
onOpenInExplorer(p, inGraph, known) ==
    openHead(p, inGraph, known, ExternalThen(p.overlay[2], p.overlay))

----------------------------------------------------------------------------
(* The user.                                                               *)

User(kind) == /\ kind \in UserEvents /\ events < MaxEvents /\ Len(page.inflight) <= MaxInflight
              /\ events' = events + 1

Drew(what) == page.drawn.what \in what /\ ~page.drawn.covered

OpenCommit == User("commit") /\ \E c \in Commit, known \in BOOLEAN : page' = openCommit(page, c, known, NoThen)

(* openInitialPath, once, for the file the page was launched for: in the   *)
(* commit of the launch or of the permalink, which is fetched when the     *)
(* graph does not have it, else in HEAD's.                                 *)
OpenInitialPath ==
    /\ ~page.launched
    /\ LET p == [page EXCEPT !.launched = TRUE]
           then == FileThen(Launch)
       IN \E c \in Permalinks, inGraph, known \in BOOLEAN :
            \/ c = NoCommit /\ page' = openHead(p, inGraph, known, then)
            \/ c # NoCommit /\ inGraph /\ page' = openCommit(p, c, known, then)
            \/ c # NoCommit /\ ~inGraph
               /\ page' = Ask(p, [Request("launch", p.generation, then) EXCEPT
                                    !.then = [do |-> "launch", commit |-> c, next |-> then]])
    /\ UNCHANGED events

ToggleDiff == User("mode") /\ Drew({"tree", "skeleton"}) /\ page' = render([page EXCEPT !.mode = "diff"])

LeaveExternal(p) ==
    render([p EXCEPT !.mode = "tree", !.external = NoUrl, !.shownUrl = NoUrl, !.viewer["external"] = close(@)])

(* The button of the header; the back button of the diff does the same.    *)
ToggleTree ==
    /\ User("mode")
    /\ \/ Drew({"diff"}) /\ page' = render(closeDiff([page EXCEPT !.mode = "tree"]))
       \/ Drew({"external"}) /\ page' = LeaveExternal(page)

ClickRow ==
    /\ User("click") /\ Drew({"tree"})
    /\ \E i \in DOMAIN page.drawn.rows :
         LET row == page.drawn.rows[i]
             p == [page EXCEPT !.focused = i]
         IN page' = IF row.dir THEN handleDirClick(p, row) ELSE handleFileClick(p, row)

(* The tree as the keyboard sees it: the rows are those last drawn.        *)
handleKeyDown(key) ==
    LET rows == page.drawn.rows
        row == rows[page.focused]
        open == row.path \in page.expanded
        Focus(i) == [page EXCEPT !.focused = i]
        parents == {i \in DOMAIN rows : rows[i].path = Parent(row.path)}
    IN CASE key = "down" -> Focus(Min({page.focused + 1, Len(rows)}))
         [] key = "up" -> Focus(Max({page.focused - 1, 1}))
         [] key = "home" -> Focus(1)
         [] key = "end" -> Focus(Len(rows))
         [] key = "right" -> IF row.dir THEN IF open THEN Focus(Min({page.focused + 1, Len(rows)}))
                                             ELSE handleDirClick(page, row)
                             ELSE page
         [] key = "left" -> IF row.dir /\ open THEN handleDirClick(page, row)
                            ELSE IF parents = {} THEN page ELSE Focus(Min(parents))
         [] key = "enter" -> IF row.dir THEN handleDirClick(page, row) ELSE handleFileClick(page, row)
         [] key = "star" -> expandSiblings(page, row, rows)

PressKey ==
    /\ User("key") /\ Drew({"tree"}) /\ page.focused \in DOMAIN page.drawn.rows
    /\ \E key \in {"down", "up", "home", "end", "right", "left", "enter", "star"} :
         page' = handleKeyDown(key)

CollapseAll == User("toolbar") /\ Drew({"tree", "skeleton"}) /\ page' = collapseAll(page)
ExpandAll == User("toolbar") /\ Drew({"tree", "skeleton"}) /\ page' = expandAll(page)

(* The filter follows what is typed after a while; Escape and the button   *)
(* clear it at once and leave the timer running.                           *)
TypeFilter == /\ User("filter") /\ Drew({"tree", "skeleton"})
              /\ \E text \in Filters : page' = [page EXCEPT !.typed = text, !.typing = TRUE]
FilterTimer == /\ page.typing
               /\ page' = render([page EXCEPT !.typing = FALSE, !.filter = page.typed, !.focused = 1])
               /\ UNCHANGED events
ClearFilter == /\ User("filter") /\ Drew({"tree", "skeleton"})
               /\ page' = render([page EXCEPT !.filter = NoFilter, !.focused = 1])

(* A crumb above the current one: only the bar and the focus change.       *)
ClickBreadcrumb ==
    /\ User("breadcrumb") /\ Drew({"tree", "skeleton"})
    /\ \E n \in 0..Len(page.breadcrumb) - 1 :
         LET q == render([page EXCEPT !.breadcrumb = SubSeq(@, 1, n)])
         IN page' = IF n = 0 THEN q ELSE FocusOn(q, SubSeq(page.breadcrumb, 1, n))

(* Back from the file, or another try at it.                               *)
FileViewerShown == page.file.visible /\ page.drawn.what \in {"tree", "skeleton"}
BackFromFile == /\ User("back") /\ FileViewerShown /\ page.file.content.what = "blob"
                /\ page' = render(closeFile([page EXCEPT !.selected = NoPath, !.breadcrumb = Root]))
RetryFile == /\ User("retry") /\ FileViewerShown /\ page.file.content.what = "failed"
             /\ page' = openFile(page, [hash |-> page.file.opened])

(* The commit diff view.                                                   *)
ClickDiffFile ==
    /\ User("difffile") /\ Drew({"diff"}) /\ DiffDraws(page) = "list"
    /\ \E c \in Commit : c = page.diff.files /\ \E path \in FilesOf[c] : page' = handleDiffFileClick(page, path)

CommitViewerShown(what) == Drew({"diff"}) /\ page.viewer["commit"].visible /\ page.viewer["commit"].content.what = what
BackFromFileDiff == User("back") /\ CommitViewerShown("diff") /\ page' = DiffBack(page)
RetryDiff ==
    /\ User("retry")
    /\ \/ Drew({"diff"}) /\ DiffDraws(page) = "failed" /\ page' = openDiff(page, page.diff.commit)
       \/ CommitViewerShown("failed") /\ page' = handleDiffFileClick(page, page.viewer["commit"].content.of)

(* A viewer that fetches by URL: more context, or another try.             *)
UrlViewers == {v \in {"external", "staging"} : page.viewer[v].visible}
ExpandContext ==
    /\ User("expand")
    /\ \E v \in UrlViewers : CanExpand(page.viewer[v])
         /\ page' = FetchDiff([page EXCEPT !.viewer[v] = expandContext(@)], v)
RetryUrl ==
    /\ User("retry")
    /\ \E v \in UrlViewers : /\ page.viewer[v].content.what = "failed"
                             /\ page' = FetchDiff([page EXCEPT !.viewer[v] = showFromUrl(@, @.url)], v)

(* The staging view.                                                       *)
ShowStagedDiff == /\ User("staging") /\ page.overlay = NoUrl
                  /\ \E path \in page.files.staged : page' = showDiffForFile(page, "index", path)
ShowWorkingDiff == /\ User("staging") /\ page.overlay = NoUrl
                   /\ \E path \in page.files.modified \cup page.files.untracked :
                         page' = showDiffForFile(page, "working", path)
OverlayShows == page.viewer["staging"].visible /\ page.viewer["staging"].content.what = "diff"
BackFromStaging == User("back") /\ OverlayShows /\ page' = StagingBack(page)
OpenInExplorer == User("takeover") /\ OverlayShows
                  /\ \E inGraph, known \in BOOLEAN : page' = onOpenInExplorer(page, inGraph, known)

(* A status message reaches both views; committed files fade out in time.  *)
OnStatus == /\ User("status") /\ \E s \in Statuses \ {page.files} :
                                   page' = updateStatus(updateWorkingTreeStatus(page, s), s)
Prune == /\ \E old \in (SUBSET page.committed) \ {{}} : page' = [page EXCEPT !.committed = @ \ old]
         /\ UNCHANGED events

TreeSteps == \/ ClickRow \/ PressKey \/ CollapseAll \/ ExpandAll \/ TypeFilter \/ FilterTimer \/ ClearFilter
             \/ ClickBreadcrumb \/ BackFromFile \/ RetryFile
Diffs == \/ ToggleDiff \/ ToggleTree \/ ClickDiffFile \/ BackFromFileDiff \/ RetryDiff
         \/ ExpandContext \/ RetryUrl
Staging == ShowStagedDiff \/ ShowWorkingDiff \/ BackFromStaging \/ OpenInExplorer \/ OnStatus \/ Prune

Next == OpenCommit \/ OpenInitialPath \/ Answer \/ PermalinkArrives \/ TreeSteps \/ Diffs \/ Staging

Spec == Init /\ [][Next]_vars

----------------------------------------------------------------------------
(* Properties.                                                             *)

EntryOf(tree, name) ==
    IF tree \in Tree /\ (\E e \in Range(Entries[tree]) : e.name = name)
    THEN (CHOOSE e \in Range(Entries[tree]) : e.name = name).hash
    ELSE NoTree

ObjectAt(tree, path) ==
    LET object[n \in 0..Len(path)] == IF n = 0 THEN tree ELSE EntryOf(object[n - 1], path[n])
    IN object[Len(path)]

(* Commit diff (fileExplorer.js:429): in diff mode the diff view is on the *)
(* explorer's commit, and a list it shows is that commit's, whatever       *)
(* answers of earlier openings still arrive.                               *)
DiffOfCommit == page.mode = "diff" /\ page.diff.open =>
                  page.diff.commit = page.commit /\ page.diff.files \in {page.commit, "none", "failed"}

(* Claims (diffContentViewer.js:47, fileContentViewer.js:39): what a       *)
(* viewer shows is what it was asked for last, in the context asked for    *)
(* last, and a viewer that was closed shows nothing; the explorer's is     *)
(* closed outside its mode and the staging view's without its overlay.     *)
ViewersShowTheLatest ==
    /\ \A v \in {"external", "staging"} :
         LET w == page.viewer[v]
         IN /\ w.content.what = "diff" => w.content = Diff(w.url, w.context)
            /\ w.url = (IF v = "staging" THEN page.overlay ELSE page.shownUrl)
            /\ w.url = NoUrl => ~w.visible /\ w.content = Blank
    /\ page.mode # "external" => page.shownUrl = NoUrl
    /\ page.file.content.what = "blob" => page.file.content.of = page.file.opened

(* Trees (buildVisibleEntries, fileExplorer.js:126): a row on the screen   *)
(* names what the commit in the header has at its path, though answers for *)
(* another commit's trees still arrive and the tree cache keeps some.      *)
RowsOfCommit == page.drawn.what = "tree" =>
    \A i \in DOMAIN page.drawn.rows : ObjectAt(TreeOf[page.commit], page.drawn.rows[i].path) = page.drawn.rows[i].hash

(* `loading`, "True while root tree is loading" (fileExplorer.js:95):     *)
(* when it is set, the root tree of the commit, or the commit that will    *)
(* replace it, is on its way.                                              *)
LoadingMeansFetching ==
    page.loading => \E i \in DOMAIN page.inflight :
        /\ page.inflight[i].kind \in {"root", "hydrate"} /\ page.inflight[i].gen = page.generation

(* The generation counter, "Stale response protection counter"             *)
(* (diffView.js:42): the file diff under an open commit diff is one of its *)
(* commit.                                                                 *)
FileDiffOfCommit ==
    page.diff.open /\ page.viewer["commit"].visible /\ page.viewer["commit"].content.what = "diff"
        => page.viewer["commit"].content.of[1] = page.diff.commit
===============================================================================
