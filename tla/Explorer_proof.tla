---------------------------- MODULE Explorer_proof ----------------------------
(***************************************************************************)
(* What the explorer's views show belongs to what was opened last, for any *)
(* commits, trees, statuses and number of events, in whatever order the    *)
(* answers come.                                                           *)
(***************************************************************************)
EXTENDS Explorer, TLAPS, SequenceTheorems, FiniteSetTheorems, WellFoundedInduction

(* The page as a record of records.                                        *)
Parts == {"commit", "root", "expanded", "cached", "selected", "generation", "focused", "filter", "typed",
          "typing", "loading", "breadcrumb", "status", "mode", "external", "shownUrl", "diff", "viewer", "file",
          "files", "committed", "overlay", "inflight", "launched", "drawn"}
DiffParts == {"open", "commit", "files", "loading", "selected", "file", "generation"}
FileParts == {"claim", "visible", "content", "opened"}
Viewers == {"commit", "external", "staging"}
ByUrl == {"external", "staging"}

ViewerMade(w) == /\ w = [f \in {"claim", "visible", "content", "url", "context"} |-> w[f]]
                 /\ w.claim \in Nat /\ w.visible \in BOOLEAN
DiffMade(d) == d = [f \in DiffParts |-> d[f]] /\ d.generation \in Nat /\ d.open \in BOOLEAN
FileMade(e) == e = [f \in FileParts |-> e[f]] /\ e.claim \in Nat
DrawnMade(s) == s = [f \in {"what", "rows", "covered"} |-> s[f]] /\ s.covered \in BOOLEAN

Made(p) ==
    /\ p = [f \in Parts |-> p[f]]
    /\ DiffMade(p.diff) /\ FileMade(p.file) /\ DrawnMade(p.drawn)
    /\ p.viewer = [v \in Viewers |-> p.viewer[v]] /\ \A v \in Viewers : ViewerMade(p.viewer[v])

(* An open commit diff is of the commit, and lists its files.              *)
DiffGood(p) == p.diff.open => p.diff.commit = p.commit /\ p.diff.files \in {p.commit, "none", "failed"}

(* A viewer shows the diff of its URL in its context, or nothing.          *)
ViewerGood(w) == /\ w.content.what = "diff" => w.content = Diff(w.url, w.context)
                 /\ w.url = NoUrl => ~w.visible /\ w.content = Blank

ViewersGood(p) ==
    /\ \A v \in ByUrl : ViewerGood(p.viewer[v])
    /\ p.viewer["external"].url = p.shownUrl /\ p.viewer["staging"].url = p.overlay
    /\ p.mode \in {"tree", "diff", "external"} /\ (p.mode # "external" => p.shownUrl = NoUrl)

(* The tree is the commit's, and finitely many of its trees are fetched.   *)
Trees(p) == /\ p.commit # NoCommit => p.commit \in Commit /\ p.root = TreeOf[p.commit]
            /\ IsFiniteSet(p.cached)

FileGood(p) == p.file.content.what = "blob" => p.file.content.of = p.file.opened

(* A request that carries the current number asks for the current thing.   *)
Flies(p, r) ==
    /\ r.kind \in {"hydrate", "root", "dir", "reveal", "list", "filediff", "diff", "paint", "blob",
                  "launch"}
    /\ r.kind = "list" => /\ r.gen \in Nat /\ r.gen <= p.diff.generation
                          /\ r.gen = p.diff.generation /\ p.diff.open => r.then.commit = p.diff.commit
    /\ r.kind = "blob" => /\ r.gen \in Nat /\ r.gen <= p.file.claim
                          /\ r.gen = p.file.claim => r.then.of = p.file.opened
    /\ r.kind \in {"diff", "paint"} =>
         LET w == p.viewer[r.then.do]
         IN /\ r.then.do \in Viewers /\ r.gen \in Nat /\ r.gen <= w.claim
            /\ r.then.do \in ByUrl /\ r.gen = w.claim =>
                 w.url # NoUrl /\ r.then.of = w.url /\ r.then.context = w.context
    /\ r.kind \in {"hydrate", "launch"} => r.then.commit \in Commit
    /\ r.kind \in {"hydrate", "root"} => r.then.next.do \in {"nothing", "file", "external"}
    /\ r.kind \in {"reveal", "launch"} => r.then.next.do \in {"file", "external"}

Flight(p) == p.inflight \in Seq(ToSet(p.inflight)) /\ \A r \in ToSet(p.inflight) : Flies(p, r)

Core(p) == /\ Made(p) /\ DiffGood(p) /\ ViewersGood(p) /\ FileGood(p) /\ Trees(p) /\ Flight(p)
           /\ p.files \in Statuses \cup {CleanStatus}

(* Rows name what a tree has at their paths.                               *)
IsRows(rows, root) == /\ rows \in Seq(ToSet(rows))
                      /\ \A row \in ToSet(rows) : row.path \in Path /\ ObjectAt(root, row.path) = row.hash

(* What is drawn is the mode's: the rows are the commit's, and the commit  *)
(* diff is open under it.                                                  *)
Screen(p) == /\ p.drawn.what = "diff" <=> p.mode = "diff"
             /\ p.drawn.what = "external" <=> p.mode = "external"
             /\ p.drawn.what = "diff" /\ ~p.drawn.covered => p.diff.open
             /\ p.drawn.what = "tree" => p.commit \in Commit /\ IsRows(p.drawn.rows, TreeOf[p.commit])

Good(p) == Core(p) /\ Screen(p)

-----------------------------------------------------------------------------
(* Parts that nothing above speaks of.                                     *)

Rest == {"expanded", "cached", "selected", "generation", "focused", "filter", "typed", "typing",
         "loading", "breadcrumb", "status", "external", "committed", "launched"}

Frame(p, q) == /\ q = [f \in Parts |-> q[f]]
               /\ \A f \in Parts \ Rest : q[f] = p[f]
               /\ IsFiniteSet(p.cached) => IsFiniteSet(q.cached)

LEMMA FrameCore == ASSUME NEW p, NEW q, Core(p), Frame(p, q) PROVE Core(q)
<1>1. /\ q.commit = p.commit /\ q.mode = p.mode /\ q.shownUrl = p.shownUrl /\ q.diff = p.diff /\ q.viewer = p.viewer
      /\ q.file = p.file /\ q.files = p.files /\ q.overlay = p.overlay /\ q.inflight = p.inflight /\ q.drawn = p.drawn
      /\ q.root = p.root
  BY DEF Frame, Parts, Rest
<1>2. Made(q)
  BY <1>1 DEF Core, Made, Frame
<1>3. DiffGood(q) /\ ViewersGood(q) /\ FileGood(q) /\ Trees(q)
  BY <1>1 DEF Core, DiffGood, ViewersGood, FileGood, Trees, Frame
<1>4. \A r : Flies(p, r) => Flies(q, r)
  BY <1>1 DEF Flies
<1> QED BY <1>1, <1>2, <1>3, <1>4 DEF Core, Flight

LEMMA FrameScreen == ASSUME NEW p, NEW q, Screen(p), Frame(p, q) PROVE Screen(q)
<1>1. q.mode = p.mode /\ q.diff = p.diff /\ q.drawn = p.drawn /\ q.commit = p.commit
  BY DEF Frame, Parts, Rest
<1> QED BY <1>1 DEF Screen

(* A later page: what changed has a new number.                            *)
Later(p, q) ==
    /\ \A v \in ByUrl : \/ q.viewer[v].claim > p.viewer[v].claim
                        \/ /\ q.viewer[v].claim = p.viewer[v].claim /\ q.viewer[v].url = p.viewer[v].url
                           /\ q.viewer[v].context = p.viewer[v].context
    /\ q.viewer["commit"].claim >= p.viewer["commit"].claim
    /\ \/ q.diff.generation > p.diff.generation
       \/ /\ q.diff.generation = p.diff.generation
          /\ q.diff.open => p.diff.open /\ q.diff.commit = p.diff.commit
    /\ \/ q.file.claim > p.file.claim
       \/ q.file.claim = p.file.claim /\ q.file.opened = p.file.opened

LEMMA LaterFlies ==
    ASSUME NEW p, NEW q, Made(p), Made(q), Later(p, q), NEW r, Flies(p, r)
    PROVE  Flies(q, r)
<1>1. p.diff.generation \in Nat /\ q.diff.generation \in Nat /\ p.file.claim \in Nat /\ q.file.claim \in Nat
  BY DEF Made, DiffMade, FileMade
<1>2. \A v \in Viewers : p.viewer[v].claim \in Nat /\ q.viewer[v].claim \in Nat
  BY DEF Made, ViewerMade
<1>3. CASE r.kind = "list"
  BY <1>1, <1>3 DEF Flies, Later
<1>4. CASE r.kind = "blob"
  BY <1>1, <1>4 DEF Flies, Later
<1>5. CASE r.kind \in {"diff", "paint"}
  <2> DEFINE v == r.then.do
  <2>1. v \in Viewers /\ r.gen \in Nat /\ r.gen <= p.viewer[v].claim
    BY <1>5 DEF Flies
  <2>2. CASE v \in ByUrl
    <3>1. r.gen = p.viewer[v].claim => p.viewer[v].url # NoUrl /\ r.then.of = p.viewer[v].url /\ r.then.context = p.viewer[v].context
      BY <1>5, <2>2 DEF Flies
    <3>2. \/ q.viewer[v].claim > p.viewer[v].claim
          \/ /\ q.viewer[v].claim = p.viewer[v].claim /\ q.viewer[v].url = p.viewer[v].url
             /\ q.viewer[v].context = p.viewer[v].context
      BY <2>2 DEF Later
    <3>3. p.viewer[v].claim \in Nat /\ q.viewer[v].claim \in Nat
      BY <1>2, <2>1
    <3>4. r.gen <= q.viewer[v].claim
      BY <2>1, <3>2, <3>3
    <3>5. r.gen = q.viewer[v].claim => q.viewer[v].url # NoUrl /\ r.then.of = q.viewer[v].url /\ r.then.context = q.viewer[v].context
      BY <2>1, <3>1, <3>2, <3>3
    <3> QED BY <1>5, <2>1, <3>4, <3>5 DEF Flies
  <2>3. CASE v \notin ByUrl
    <3>1. v = "commit"
      BY <2>1, <2>3 DEF Viewers, ByUrl
    <3>2. r.gen <= q.viewer[v].claim
      BY <1>2, <2>1, <3>1 DEF Later
    <3> QED BY <1>5, <2>1, <2>3, <3>2 DEF Flies
  <2> QED BY <2>2, <2>3
<1>6. CASE r.kind \notin {"list", "blob", "diff", "paint"}
  BY <1>6 DEF Flies
<1> QED BY <1>3, <1>4, <1>5, <1>6

LEMMA LaterCore ==
    ASSUME NEW p, NEW q, Core(p), Made(q), Later(p, q), q.inflight = p.inflight,
           q.files \in Statuses \cup {CleanStatus}, DiffGood(q), ViewersGood(q), FileGood(q), Trees(q)
    PROVE  Core(q)
<1>1. \A r \in ToSet(p.inflight) : Flies(q, r)
  BY LaterFlies DEF Core, Flight
<1> QED BY <1>1 DEF Core, Flight

(* A request joins those in flight.                                        *)
LEMMA AskHolds ==
    ASSUME NEW p, Core(p), NEW r, Flies(p, r)
    PROVE  /\ Core(Ask(p, r)) /\ (Screen(p) => Screen(Ask(p, r)))
           /\ Ask(p, r) = [f \in Parts |-> Ask(p, r)[f]]
           /\ \A f \in Parts \ {"inflight"} : Ask(p, r)[f] = p[f]
<1> DEFINE q == Ask(p, r)
<1>1. q = [f \in Parts |-> q[f]] /\ (\A f \in Parts \ {"inflight"} : q[f] = p[f]) /\ q.inflight = Append(p.inflight, r)
  BY DEF Ask, Core, Made, Parts
<1> HIDE DEF q
<1>2. /\ q.commit = p.commit /\ q.mode = p.mode /\ q.shownUrl = p.shownUrl /\ q.diff = p.diff /\ q.viewer = p.viewer
      /\ q.file = p.file /\ q.files = p.files /\ q.overlay = p.overlay /\ q.drawn = p.drawn
      /\ q.root = p.root /\ q.cached = p.cached
  BY <1>1 DEF Parts
<1>3. Made(q) /\ DiffGood(q) /\ ViewersGood(q) /\ FileGood(q) /\ Trees(q)
  BY <1>1, <1>2 DEF Core, Made, DiffGood, ViewersGood, FileGood, Trees
<1>4. \A s : Flies(p, s) => Flies(q, s)
  BY <1>2 DEF Flies
<1>5. ToSet(q.inflight) = ToSet(p.inflight) \cup {r} /\ q.inflight \in Seq(ToSet(q.inflight))
  <2>1. p.inflight \in Seq(ToSet(p.inflight))
    BY DEF Core, Flight
  <2>2. /\ Len(p.inflight) \in Nat /\ DOMAIN q.inflight = 1..Len(p.inflight) + 1
        /\ \A i \in 1..Len(p.inflight) : q.inflight[i] = p.inflight[i]
        /\ q.inflight[Len(p.inflight) + 1] = r
    BY <1>1, <2>1
  <2> DEFINE S == ToSet(p.inflight) \cup {r}
  <2>3. \A i \in DOMAIN q.inflight : q.inflight[i] \in S
    BY <2>1, <2>2 DEF ToSet
  <2>4. \A x \in S : \E i \in DOMAIN q.inflight : q.inflight[i] = x
    <3>1. \A x \in ToSet(p.inflight) : \E i \in 1..Len(p.inflight) : p.inflight[i] = x
      BY <2>1 DEF ToSet
    <3> QED BY <2>2, <3>1
  <2>5. ToSet(q.inflight) = S
    BY <2>3, <2>4 DEF ToSet
  <2>6. p.inflight \in Seq(S) /\ r \in S
    BY <2>1
  <2> HIDE DEF S
  <2>7. Append(p.inflight, r) \in Seq(S)
    BY <2>6, AppendProperties
  <2>8. q.inflight \in Seq(S)
    BY <1>1, <2>7
  <2> QED BY <2>5, <2>8 DEF S
<1>6. Core(q)
  BY <1>2, <1>3, <1>4, <1>5 DEF Core, Flight
<1>7. Screen(p) => Screen(q)
  BY <1>2 DEF Screen
<1> QED BY <1>1, <1>6, <1>7 DEF q

-----------------------------------------------------------------------------
(* The viewers.                                                            *)

LEMMA ViewerOps ==
    ASSUME NEW w, ViewerMade(w), NEW url, NEW of
    PROVE  /\ ViewerMade(claimRenderRequest(w)) /\ claimRenderRequest(w).claim = w.claim + 1
           /\ ViewerMade(showRetryError(w, of)) /\ showRetryError(w, of).claim = w.claim + 1
           /\ ViewerMade(showLoading(w)) /\ showLoading(w).claim = w.claim + 1
           /\ ViewerMade(showFromUrl(w, url)) /\ showFromUrl(w, url).claim = w.claim + 1
           /\ showFromUrl(w, url).url = url /\ showFromUrl(w, url).content = Spinner
           /\ ViewerMade(close(w)) /\ close(w).claim = w.claim + 1
           /\ close(w).url = NoUrl /\ ~close(w).visible /\ close(w).content = Blank
           /\ ViewerMade(expandContext(w)) /\ expandContext(w).claim = w.claim + 1
           /\ expandContext(w).url = w.url /\ expandContext(w).content = Spinner
<1>1. /\ ViewerMade(claimRenderRequest(w)) /\ claimRenderRequest(w).claim = w.claim + 1
      /\ claimRenderRequest(w).url = w.url
  BY DEF ViewerMade, claimRenderRequest
<1>2. ASSUME NEW x, ViewerMade(x), NEW content
      PROVE  /\ ViewerMade(Paint(x, content)) /\ Paint(x, content).claim = x.claim
             /\ Paint(x, content).url = x.url /\ Paint(x, content).content = content
  BY <1>2 DEF ViewerMade, Paint
<1>3. /\ ViewerMade(showRetryError(w, of)) /\ showRetryError(w, of).claim = w.claim + 1
      /\ ViewerMade(showLoading(w)) /\ showLoading(w).claim = w.claim + 1
      /\ showLoading(w).url = w.url /\ showLoading(w).content = Spinner
  BY <1>1, <1>2 DEF showRetryError, showLoading
<1> DEFINE x == showLoading(w)
           y == claimRenderRequest(w)
<1>4. /\ ViewerMade(x) /\ x.claim = w.claim + 1 /\ x.url = w.url /\ x.content = Spinner
      /\ ViewerMade(y) /\ y.claim = w.claim + 1
  BY <1>1, <1>3
<1>5. /\ showFromUrl(w, url) = [x EXCEPT !.url = url, !.context = DefaultContext]
      /\ expandContext(w) = [x EXCEPT !.context = @ + ContextStep]
      /\ close(w) = [y EXCEPT !.visible = FALSE, !.content = Blank, !.url = NoUrl, !.context = DefaultContext]
  BY DEF showFromUrl, expandContext, close
<1> HIDE DEF x, y
<1>6. /\ ViewerMade(showFromUrl(w, url)) /\ showFromUrl(w, url).claim = w.claim + 1
      /\ showFromUrl(w, url).url = url /\ showFromUrl(w, url).content = Spinner
  BY <1>4, <1>5 DEF ViewerMade
<1>7. /\ ViewerMade(expandContext(w)) /\ expandContext(w).claim = w.claim + 1
      /\ expandContext(w).url = w.url /\ expandContext(w).content = Spinner
  BY <1>4, <1>5 DEF ViewerMade
<1>8. /\ ViewerMade(close(w)) /\ close(w).claim = w.claim + 1
      /\ close(w).url = NoUrl /\ ~close(w).visible /\ close(w).content = Blank
  BY <1>4, <1>5 DEF ViewerMade
<1> QED BY <1>1, <1>3, <1>6, <1>7, <1>8

LEMMA PaintHolds ==
    ASSUME NEW w, ViewerMade(w), NEW id, NEW content
    PROVE  /\ ViewerMade(PaintAnswer(w, id, content))
           /\ PaintAnswer(w, id, content).claim = w.claim /\ PaintAnswer(w, id, content).url = w.url
           /\ PaintAnswer(w, id, content).context = w.context
           /\ w.claim = id => PaintAnswer(w, id, content).content = content
           /\ w.claim # id => PaintAnswer(w, id, content) = w
BY DEF ViewerMade, PaintAnswer, Paint

LEMMA Contents ==
    /\ Spinner.what # "diff" /\ Blank.what # "diff" /\ Broken.what # "diff"
    /\ \A of : Failed(of).what # "diff" /\ Failed(of).what = "failed"
    /\ \A of, context : Diff(of, context).what = "diff"
    /\ Blank.what = "blank"
BY DEF Spinner, Blank, Broken, Failed, Diff

(* A viewer of the page is replaced.                                       *)
LEMMA ViewerSet ==
    ASSUME NEW p, Made(p), NEW v \in Viewers, NEW w, ViewerMade(w)
    PROVE  /\ [p.viewer EXCEPT ![v] = w] = [u \in Viewers |-> [p.viewer EXCEPT ![v] = w][u]]
           /\ [p.viewer EXCEPT ![v] = w][v] = w
           /\ \A u \in Viewers \ {v} : [p.viewer EXCEPT ![v] = w][u] = p.viewer[u]
           /\ \A u \in Viewers : ViewerMade([p.viewer EXCEPT ![v] = w][u])
<1> DEFINE z == p.viewer
<1>1. z = [u \in Viewers |-> z[u]] /\ \A u \in Viewers : ViewerMade(z[u])
  BY DEF Made
<1> HIDE DEF z
<1>2. /\ [z EXCEPT ![v] = w] = [u \in Viewers |-> [z EXCEPT ![v] = w][u]]
      /\ [z EXCEPT ![v] = w][v] = w
      /\ \A u \in Viewers \ {v} : [z EXCEPT ![v] = w][u] = z[u]
  BY <1>1
<1>3. \A u \in Viewers : ViewerMade([z EXCEPT ![v] = w][u])
  BY <1>1, <1>2
<1> QED BY <1>2, <1>3 DEF z

(* One viewer of the page is replaced, and what belongs to it.             *)
OnViewer(p, q, v, w) ==
    /\ q = [f \in Parts |-> q[f]]
    /\ q.viewer = [p.viewer EXCEPT ![v] = w]
    /\ \A f \in {"diff", "file", "drawn", "inflight", "files"} : q[f] = p[f]

LEMMA OnViewerMade ==
    ASSUME NEW p, NEW q, NEW v \in Viewers, NEW w, Made(p), ViewerMade(w), OnViewer(p, q, v, w)
    PROVE  /\ Made(q) /\ q.viewer[v] = w /\ \A u \in Viewers \ {v} : q.viewer[u] = p.viewer[u]
           /\ q.diff = p.diff /\ q.file = p.file /\ q.drawn = p.drawn
           /\ q.inflight = p.inflight /\ q.files = p.files
<1>1. q.diff = p.diff /\ q.file = p.file /\ q.drawn = p.drawn /\ q.inflight = p.inflight /\ q.files = p.files
  BY DEF OnViewer
<1> DEFINE z == [p.viewer EXCEPT ![v] = w]
<1>2. /\ z = [u \in Viewers |-> z[u]] /\ z[v] = w /\ \A u \in Viewers \ {v} : z[u] = p.viewer[u]
      /\ \A u \in Viewers : ViewerMade(z[u])
  BY ViewerSet
<1>3. q.viewer = z
  BY DEF OnViewer
<1> HIDE DEF z
<1> QED BY <1>1, <1>2, <1>3 DEF Made, OnViewer

(* A viewer that fetches by URL is given a new number.                     *)
LEMMA UrlViewer ==
    ASSUME NEW p, NEW q, NEW v \in ByUrl, NEW w, Core(p), ViewerMade(w), OnViewer(p, q, v, w),
           w.claim > p.viewer[v].claim, ViewersGood(q), DiffGood(q), Trees(q)
    PROVE  Core(q)
<1>1. v \in Viewers /\ \A u \in ByUrl : u \in Viewers
  BY DEF ByUrl, Viewers
<1>2. /\ Made(q) /\ q.viewer[v] = w /\ \A u \in Viewers \ {v} : q.viewer[u] = p.viewer[u]
      /\ q.diff = p.diff /\ q.file = p.file /\ q.drawn = p.drawn
      /\ q.inflight = p.inflight /\ q.files = p.files
  BY <1>1, OnViewerMade DEF Core
<1>3. "commit" \in Viewers \ {v} /\ p.viewer["commit"].claim \in Nat /\ p.diff.generation \in Nat /\ p.file.claim \in Nat
  BY DEF ByUrl, Viewers, Core, Made, ViewerMade, DiffMade, FileMade
<1>4. Later(p, q)
  <2>1. \A u \in ByUrl : \/ q.viewer[u].claim > p.viewer[u].claim
                         \/ /\ q.viewer[u].claim = p.viewer[u].claim /\ q.viewer[u].url = p.viewer[u].url
                            /\ q.viewer[u].context = p.viewer[u].context
    BY <1>1, <1>2
  <2>2. q.viewer["commit"] = p.viewer["commit"]
    BY <1>2, <1>3
  <2> QED BY <1>2, <1>3, <2>1, <2>2 DEF Later
<1>5. FileGood(q)
  BY <1>2 DEF Core, FileGood
<1> QED BY <1>2, <1>4, <1>5, LaterCore DEF Core

LEMMA FetchHolds ==
    ASSUME NEW p, Core(p), NEW v \in ByUrl, p.viewer[v].url # NoUrl
    PROVE  Core(FetchDiff(p, v)) /\ (Screen(p) => Screen(FetchDiff(p, v)))
<1> DEFINE r == [Request("diff", p.viewer[v].claim, NoThen) EXCEPT
                   !.then = [do |-> v, of |-> p.viewer[v].url, context |-> p.viewer[v].context]]
<1>1. r = [kind |-> "diff", gen |-> p.viewer[v].claim,
           then |-> [do |-> v, of |-> p.viewer[v].url, context |-> p.viewer[v].context]]
  BY DEF Request
<1>2. v \in Viewers /\ p.viewer[v].claim \in Nat
  BY DEF ByUrl, Viewers, Core, Made, ViewerMade
<1>3. FetchDiff(p, v) = Ask(p, r)
  BY DEF FetchDiff
<1> HIDE DEF r
<1>4. Flies(p, r)
  BY <1>1, <1>2 DEF Flies
<1> QED BY <1>3, <1>4, AskHolds

-----------------------------------------------------------------------------
(* The commit diff view.                                                   *)

(* The diff, and its viewer perhaps, are replaced.                         *)
LEMMA DiffSet ==
    ASSUME NEW p, NEW q, Core(p), q = [f \in Parts |-> q[f]],
           \A f \in Parts \ (Rest \cup {"diff", "viewer"}) : q[f] = p[f],
           DiffMade(q.diff), DiffGood(q), IsFiniteSet(q.cached),
           \/ q.diff.generation > p.diff.generation
           \/ /\ q.diff.generation = p.diff.generation
              /\ q.diff.open => p.diff.open /\ q.diff.commit = p.diff.commit,
           \/ q.viewer = p.viewer
           \/ \E w : ViewerMade(w) /\ w.claim >= p.viewer["commit"].claim /\ q.viewer = [p.viewer EXCEPT !["commit"] = w]
    PROVE  Core(q)
<1>1. /\ q.commit = p.commit /\ q.mode = p.mode /\ q.shownUrl = p.shownUrl
      /\ q.file = p.file /\ q.files = p.files /\ q.overlay = p.overlay /\ q.inflight = p.inflight /\ q.drawn = p.drawn
      /\ q.root = p.root
  BY DEF Parts, Rest
<1>2. /\ q.viewer = [u \in Viewers |-> q.viewer[u]] /\ (\A u \in Viewers : ViewerMade(q.viewer[u]))
      /\ (\A u \in ByUrl : q.viewer[u] = p.viewer[u])
      /\ q.viewer["commit"].claim >= p.viewer["commit"].claim
  <2>1. CASE q.viewer = p.viewer
    BY <2>1 DEF Core, Made, ViewerMade, Viewers
  <2>2. ASSUME NEW w, ViewerMade(w), w.claim >= p.viewer["commit"].claim, q.viewer = [p.viewer EXCEPT !["commit"] = w]
        PROVE  /\ q.viewer = [u \in Viewers |-> q.viewer[u]] /\ (\A u \in Viewers : ViewerMade(q.viewer[u]))
               /\ (\A u \in ByUrl : q.viewer[u] = p.viewer[u])
               /\ q.viewer["commit"].claim >= p.viewer["commit"].claim
    <3> DEFINE z == [p.viewer EXCEPT !["commit"] = w]
    <3>1. Made(p) /\ "commit" \in Viewers /\ \A u \in ByUrl : u \in Viewers \ {"commit"}
      BY DEF Core, Viewers, ByUrl
    <3>2. /\ z = [u \in Viewers |-> z[u]] /\ z["commit"] = w /\ \A u \in Viewers \ {"commit"} : z[u] = p.viewer[u]
          /\ \A u \in Viewers : ViewerMade(z[u])
      BY <2>2, <3>1, ViewerSet
    <3>3. q.viewer = z
      BY <2>2
    <3> HIDE DEF z
    <3> QED BY <2>2, <3>1, <3>2, <3>3
  <2> QED BY <2>1, <2>2
<1>3. Made(q)
  BY <1>1, <1>2 DEF Core, Made
<1>4. ViewersGood(q) /\ FileGood(q)
  <2>1. q.viewer["external"] = p.viewer["external"] /\ q.viewer["staging"] = p.viewer["staging"]
    BY <1>2 DEF ByUrl
  <2>2. \A v \in ByUrl : ViewerGood(q.viewer[v])
    BY <1>2 DEF Core, ViewersGood
  <2>3. ViewersGood(q)
    BY <1>1, <2>1, <2>2 DEF Core, ViewersGood
  <2> QED BY <1>1, <2>3 DEF Core, FileGood
<1>5. Later(p, q)
  BY <1>1, <1>2 DEF Later
<1>6. Trees(q)
  BY <1>1 DEF Core, Trees
<1> QED BY <1>1, <1>3, <1>4, <1>5, <1>6, LaterCore DEF Core

LEMMA OpenDiffHolds ==
    ASSUME NEW p, Core(p)
    PROVE  /\ Core(openDiff(p, p.commit)) /\ openDiff(p, p.commit).diff.open
           /\ openDiff(p, p.commit) = [f \in Parts |-> openDiff(p, p.commit)[f]]
           /\ openDiff(p, p.commit).mode = p.mode /\ openDiff(p, p.commit).drawn = p.drawn
<1> DEFINE d == [open |-> TRUE, commit |-> p.commit, files |-> "none", loading |-> TRUE,
                 selected |-> NoPath, file |-> FALSE, generation |-> p.diff.generation + 1]
           q == [p EXCEPT !.diff = d]
           r == [kind |-> "list", gen |-> p.diff.generation + 1, then |-> [do |-> "list", commit |-> p.commit]]
<1>1. p.diff.generation \in Nat
  BY DEF Core, Made, DiffMade
<1>2. DiffMade(d) /\ d.open /\ d.commit = p.commit /\ d.files = "none" /\ d.generation = p.diff.generation + 1
  BY <1>1 DEF DiffMade, DiffParts
<1>3. openDiff(p, p.commit) = Ask(q, r)
  BY DEF openDiff, Request
<1> HIDE DEF d
<1>4. /\ q = [f \in Parts |-> q[f]] /\ q.diff = d /\ q.commit = p.commit /\ q.mode = p.mode /\ q.drawn = p.drawn
      /\ \A f \in Parts \ (Rest \cup {"diff", "viewer"}) : q[f] = p[f]
      /\ q.viewer = p.viewer /\ IsFiniteSet(q.cached)
  BY DEF Core, Made, Parts, Rest, Trees
<1> HIDE DEF q
<1>5. Core(q)
  BY <1>1, <1>2, <1>4, DiffSet DEF DiffGood
<1>6. Flies(q, r)
  BY <1>1, <1>2, <1>4 DEF Flies
<1> HIDE DEF r
<1>7. "diff" \in Parts \ {"inflight"} /\ "mode" \in Parts \ {"inflight"} /\ "drawn" \in Parts \ {"inflight"}
  BY DEF Parts
<1> QED BY <1>2, <1>3, <1>4, <1>5, <1>6, <1>7, AskHolds

LEMMA CloseDiffHolds ==
    ASSUME NEW p, Core(p)
    PROVE  /\ Core(closeDiff(p)) /\ ~closeDiff(p).diff.open
           /\ closeDiff(p) = [f \in Parts |-> closeDiff(p)[f]]
           /\ \A f \in Parts \ {"diff", "viewer"} : closeDiff(p)[f] = p[f]
<1> DEFINE d == [p.diff EXCEPT !.open = FALSE, !.commit = NoCommit, !.files = "none", !.selected = NoPath, !.file = FALSE]
           w == close(p.viewer["commit"])
           q == [p EXCEPT !.diff = d, !.viewer["commit"] = w]
<1>1. p.diff.generation \in Nat /\ "commit" \in Viewers /\ ViewerMade(p.viewer["commit"])
  BY DEF Core, Made, DiffMade, Viewers
<1>2. DiffMade(d) /\ ~d.open /\ d.generation = p.diff.generation
  BY <1>1 DEF Core, Made, DiffMade, DiffParts
<1>3. ViewerMade(w) /\ w.claim >= p.viewer["commit"].claim
  BY <1>1, ViewerOps DEF ViewerMade
<1>4. closeDiff(p) = q
  BY DEF closeDiff, Core, Made, Parts
<1> HIDE DEF d, w
<1>5. /\ q = [f \in Parts |-> q[f]] /\ q.diff = d /\ q.viewer = [p.viewer EXCEPT !["commit"] = w]
      /\ \A f \in Parts \ {"diff", "viewer"} : q[f] = p[f]
  BY DEF Core, Made, Parts
<1> HIDE DEF q
<1>6. Core(q)
  <2>1. IsFiniteSet(q.cached)
    BY <1>5 DEF Core, Trees, Parts
  <2> QED BY <1>1, <1>2, <1>3, <1>5, <2>1, DiffSet DEF DiffGood
<1> QED BY <1>2, <1>4, <1>5, <1>6

LEMMA DiffFileHolds ==
    ASSUME NEW p, Good(p), NEW path
    PROVE  Good(handleDiffFileClick(p, path)) /\ Good(DiffBack(p))
<1>1. p.diff.generation \in Nat /\ "commit" \in Viewers /\ ViewerMade(p.viewer["commit"])
  BY DEF Good, Core, Made, DiffMade, Viewers
<1>2. ASSUME NEW w, ViewerMade(w), w.claim = p.viewer["commit"].claim + 1, NEW x, NEW y,
             NEW q, q = [p EXCEPT !.diff = [p.diff EXCEPT !.selected = x, !.file = y], !.viewer["commit"] = w]
      PROVE  Good(q)
  <2> DEFINE d == [p.diff EXCEPT !.selected = x, !.file = y]
  <2>1. /\ DiffMade(d) /\ d.open = p.diff.open /\ d.generation = p.diff.generation /\ d.commit = p.diff.commit
        /\ d.files = p.diff.files
    BY DEF Good, Core, Made, DiffMade, DiffParts
  <2>2. q = [p EXCEPT !.diff = d, !.viewer["commit"] = w]
    BY <1>2
  <2> HIDE DEF d
  <2>3. /\ q = [f \in Parts |-> q[f]] /\ q.diff = d /\ q.viewer = [p.viewer EXCEPT !["commit"] = w]
        /\ \A f \in Parts \ {"diff", "viewer"} : q[f] = p[f]
    BY <2>2 DEF Good, Core, Made, Parts
  <2>4. q.commit = p.commit /\ q.mode = p.mode /\ q.drawn = p.drawn
    BY <2>3 DEF Parts
  <2>5. DiffGood(q)
    BY <2>1, <2>3, <2>4 DEF Good, Core, DiffGood
  <2>6. w.claim >= p.viewer["commit"].claim
    BY <1>1, <1>2 DEF ViewerMade
  <2>7. Core(q)
    <3>1. (\A f \in Parts \ (Rest \cup {"diff", "viewer"}) : q[f] = p[f]) /\ IsFiniteSet(q.cached)
      BY <2>3 DEF Good, Core, Trees, Parts
    <3>2. DiffMade(q.diff) /\ q.diff.generation = p.diff.generation /\ q.diff.commit = p.diff.commit
          /\ (q.diff.open => p.diff.open)
      BY <2>1, <2>3
    <3>3. \E u : ViewerMade(u) /\ u.claim >= p.viewer["commit"].claim /\ q.viewer = [p.viewer EXCEPT !["commit"] = u]
      BY <1>2, <2>3, <2>6
    <3> QED BY <2>3, <2>5, <3>1, <3>2, <3>3, DiffSet DEF Good
  <2> QED BY <2>1, <2>3, <2>4, <2>7 DEF Good, Screen
<1>3. Good(handleDiffFileClick(p, path))
  <2> DEFINE q == [p EXCEPT !.diff = [p.diff EXCEPT !.selected = path, !.file = TRUE],
                            !.viewer["commit"] = showLoading(p.viewer["commit"])]
             r == [Request("filediff", p.diff.generation, NoThen) EXCEPT
                     !.then = [do |-> "show", of |-> <<p.diff.commit, path>>]]
  <2>1. Good(q)
    BY <1>1, <1>2, ViewerOps
  <2>2. handleDiffFileClick(p, path) = Ask(q, r)
    BY DEF handleDiffFileClick, Good, Core, Made, Parts
  <2>3. r.kind = "filediff"
    BY DEF Request
  <2> HIDE DEF q, r
  <2>4. Flies(q, r)
    BY <2>3 DEF Flies
  <2> QED BY <2>1, <2>2, <2>4, AskHolds DEF Good
<1>4. Good(DiffBack(p))
  <2> DEFINE q == [p EXCEPT !.diff = [p.diff EXCEPT !.selected = NoPath, !.file = FALSE],
                            !.viewer["commit"] = close(p.viewer["commit"])]
  <2>1. Good(q)
    BY <1>1, <1>2, ViewerOps
  <2>2. DiffBack(p) = q
    BY DEF DiffBack, Good, Core, Made, Parts
  <2> HIDE DEF q
  <2> QED BY <2>1, <2>2
<1> QED BY <1>3, <1>4

-----------------------------------------------------------------------------
(* The rows.                                                               *)

(* As FromZero in the naturals' induction, for a set.                      *)
LEMMA FromZeroOn ==
    ASSUME NEW T \in SUBSET Nat, 0 \in T, \A n \in T : n + 1 \in T
    PROVE  \A n \in Nat : n \in T
<1> SUFFICES ASSUME Nat \ T # {} PROVE FALSE
  OBVIOUS
<1>1. PICK n \in Nat \ T : \A m \in Nat \ T : ~(<<m, n>> \in OpToRel(<, Nat))
  BY NatLessThanWellFounded, WFMin, Zenon
<1>2. \A m \in Nat \ T : ~(m < n)
  BY <1>1 DEF OpToRel
<1>3. n # 0 /\ n - 1 \in Nat /\ n - 1 < n
  OBVIOUS
<1>4. n - 1 \in T
  BY <1>2, <1>3
<1>5. (n - 1) + 1 \in T
  BY <1>4
<1> QED BY <1>5

(* The first n of some sequences, put together.                            *)
IsFlat(f, seqs, n) == f = [i \in 1..n |-> IF i = 1 THEN seqs[i] ELSE f[i - 1] \o seqs[i]]

LEMMA FlatExists ==
    ASSUME NEW seqs
    PROVE  \A n \in Nat : \E f : IsFlat(f, seqs, n)
<1> DEFINE T == {n \in Nat : \E f : IsFlat(f, seqs, n)}
<1>1. 0 \in T
  <2> DEFINE f == [k \in 1..0 |-> 0]
  <2>1. f = [k \in 1..0 |-> IF k = 1 THEN seqs[k] ELSE f[k - 1] \o seqs[k]]
    OBVIOUS
  <2>2. IsFlat(f, seqs, 0)
    <3> HIDE DEF f
    <3> QED BY <2>1 DEF IsFlat
  <2> QED BY <2>2
<1>2. ASSUME NEW n \in T PROVE n + 1 \in T
  <2>1. PICK f : IsFlat(f, seqs, n)
    BY <1>2
  <2>2. \A k \in 1..n : f[k] = IF k = 1 THEN seqs[k] ELSE f[k - 1] \o seqs[k]
    BY <2>1 DEF IsFlat
  <2> DEFINE last == IF n = 0 THEN seqs[n + 1] ELSE f[n] \o seqs[n + 1]
             h == [k \in 1 .. n + 1 |-> IF k = n + 1 THEN last ELSE f[k]]
             r == [k \in 1 .. n + 1 |-> IF k = 1 THEN seqs[k] ELSE h[k - 1] \o seqs[k]]
  <2>3. ASSUME NEW k \in 1 .. n + 1 PROVE h[k] = r[k]
    <3>1. CASE k = n + 1 /\ n = 0
      BY <3>1
    <3>2. CASE k = n + 1 /\ n # 0
      <4>1. h[n] = f[n] /\ (n + 1) - 1 = n /\ n + 1 # 1 /\ n + 1 \in 1 .. n + 1
        BY <3>2
      <4> QED BY <3>2, <4>1
    <3>3. CASE k # n + 1
      <4>1. k \in 1..n /\ h[k] = f[k] /\ (k # 1 => h[k - 1] = f[k - 1])
        BY <3>3
      <4>2. f[k] = IF k = 1 THEN seqs[k] ELSE f[k - 1] \o seqs[k]
        BY <2>2, <4>1
      <4> HIDE DEF h
      <4> QED BY <4>1, <4>2
    <3> QED BY <3>1, <3>2, <3>3
  <2>4. h = r
    BY <2>3
  <2>5. IsFlat(h, seqs, n + 1)
    <3> HIDE DEF h
    <3> QED BY <2>4 DEF IsFlat
  <2> QED BY <2>5
<1>3. \A n \in T : n + 1 \in T
  BY <1>2
<1> HIDE DEF T
<1>4. \A n \in Nat : n \in T
  BY <1>1, <1>3, FromZeroOn DEF T
<1> QED BY <1>4 DEF T

(* Sequences put together are one.                                         *)
LEMMA FlattenHolds == ASSUME NEW S, NEW seqs \in Seq(Seq(S)) PROVE FlattenSeq(seqs) \in Seq(S)
<1>1. CASE Len(seqs) = 0
  <2>1. seqs = <<>>
    BY <1>1
  <2> QED BY <1>1, <2>1 DEF FlattenSeq
<1>2. CASE Len(seqs) # 0
  <2> DEFINE n == Len(seqs)
             f == CHOOSE g : IsFlat(g, seqs, n)
             T == {k \in Nat : 1 <= k /\ k <= n => f[k] \in Seq(S)}
  <2>1. n \in Nat /\ n # 0 /\ \A k \in 1..n : seqs[k] \in Seq(S)
    BY <1>2
  <2>2. FlattenSeq(seqs) = f[n]
    BY <1>2 DEF FlattenSeq, IsFlat
  <2> HIDE DEF n
  <2>3. IsFlat(f, seqs, n)
    BY <2>1, FlatExists
  <2> HIDE DEF f
  <2>4. \A k \in 1..n : f[k] = IF k = 1 THEN seqs[k] ELSE f[k - 1] \o seqs[k]
    BY <2>3 DEF IsFlat
  <2>5. 0 \in T
    OBVIOUS
  <2>6. ASSUME NEW k \in T PROVE k + 1 \in T
    <3>1. SUFFICES ASSUME k + 1 <= n PROVE f[k + 1] \in Seq(S)
      OBVIOUS
    <3>2. CASE k = 0
      BY <2>1, <2>4, <3>1, <3>2
    <3>3. CASE k # 0
      <4>1. f[k] \in Seq(S) /\ k + 1 \in 1..n /\ k + 1 # 1 /\ (k + 1) - 1 = k
        BY <2>1, <3>1, <3>3
      <4>2. f[k + 1] = f[k] \o seqs[k + 1] /\ seqs[k + 1] \in Seq(S)
        BY <2>1, <2>4, <4>1
      <4> QED BY <4>1, <4>2
    <3> QED BY <3>2, <3>3
  <2> HIDE DEF T
  <2>7. n \in T
    BY <2>1, <2>5, <2>6, FromZeroOn DEF T
  <2>8. f[n] \in Seq(S)
    BY <2>1, <2>7 DEF T
  <2> QED BY <2>2, <2>8
<1> QED BY <1>1, <1>2

(* The elements chosen from a sequence.                                    *)
LEMMA ChosenHold ==
    ASSUME NEW S, NEW s \in Seq(S), NEW seqs, seqs = [i \in DOMAIN s |-> seqs[i]],
           \A i \in DOMAIN s : seqs[i] \in {<<s[i]>>, <<>>}
    PROVE  FlattenSeq(seqs) \in Seq(S)
<1>1. DOMAIN s = 1..Len(s) /\ Len(s) \in Nat /\ \A i \in 1..Len(s) : s[i] \in S
  OBVIOUS
<1>2. ASSUME NEW i \in 1..Len(s) PROVE seqs[i] \in Seq(S)
  <2>1. s[i] \in S /\ seqs[i] \in {<<s[i]>>, <<>>}
    BY <1>1
  <2>2. <<s[i]>> \in Seq(S) /\ <<>> \in Seq(S)
    BY <2>1
  <2> QED BY <2>1, <2>2
<1>3. seqs \in Seq(Seq(S))
  BY <1>1, <1>2
<1> QED BY <1>3, FlattenHolds

(* The object a tree has at the first n names of a path.                   *)
IsObject(f, tree, path, n) == f = [k \in 0..n |-> IF k = 0 THEN tree ELSE EntryOf(f[k - 1], path[k])]

LEMMA ObjectExists ==
    ASSUME NEW tree, NEW path
    PROVE  \A n \in Nat : \E f : IsObject(f, tree, path, n)
<1> DEFINE T == {n \in Nat : \E f : IsObject(f, tree, path, n)}
<1>1. 0 \in T
  <2> DEFINE f == [k \in 0..0 |-> tree]
  <2>1. f = [k \in 0..0 |-> IF k = 0 THEN tree ELSE EntryOf(f[k - 1], path[k])]
    OBVIOUS
  <2>2. IsObject(f, tree, path, 0)
    BY <2>1 DEF IsObject
  <2> QED BY <2>2
<1>2. ASSUME NEW n \in T PROVE n + 1 \in T
  <2>1. PICK f : IsObject(f, tree, path, n)
    BY <1>2
  <2>2. \A k \in 0..n : f[k] = IF k = 0 THEN tree ELSE EntryOf(f[k - 1], path[k])
    BY <2>1 DEF IsObject
  <2> DEFINE h == [k \in 0 .. n + 1 |-> IF k = n + 1 THEN EntryOf(f[n], path[n + 1]) ELSE f[k]]
             r == [k \in 0 .. n + 1 |-> IF k = 0 THEN tree ELSE EntryOf(h[k - 1], path[k])]
  <2>3. ASSUME NEW k \in 0 .. n + 1 PROVE h[k] = r[k]
    <3>1. CASE k = n + 1
      <4>1. h[n] = f[n] /\ (n + 1) - 1 = n /\ n + 1 # 0 /\ n + 1 \in 0 .. n + 1
        OBVIOUS
      <4> QED BY <3>1, <4>1
    <3>2. CASE k = 0
      <4>1. f[0] = tree /\ 0 # n + 1
        BY <2>2
      <4> QED BY <3>2, <4>1
    <3>3. CASE k # n + 1 /\ k # 0
      <4>1. k \in 0..n /\ k - 1 \in 0 .. n + 1 /\ k - 1 # n + 1
        BY <3>3
      <4>2. h[k - 1] = f[k - 1] /\ h[k] = f[k]
        BY <3>3, <4>1
      <4>3. f[k] = EntryOf(f[k - 1], path[k])
        BY <2>2, <3>3, <4>1
      <4> QED BY <3>3, <4>2, <4>3
    <3> QED BY <3>1, <3>2, <3>3
  <2>4. h = r
    BY <2>3
  <2>5. IsObject(h, tree, path, n + 1)
    <3> HIDE DEF h
    <3> QED BY <2>4 DEF IsObject
  <2> QED BY <2>5
<1>3. \A n \in T : n + 1 \in T
  BY <1>2
<1> HIDE DEF T
<1>4. \A n \in Nat : n \in T
  BY <1>1, <1>3, FromZeroOn DEF T
<1> QED BY <1>4 DEF T

LEMMA ObjectAtRoot == ASSUME NEW tree PROVE ObjectAt(tree, Root) = tree
<1> DEFINE f == CHOOSE g : IsObject(g, tree, Root, 0)
<1>1. Len(Root) = 0
  BY DEF Root
<1>2. ObjectAt(tree, Root) = f[0]
  BY <1>1 DEF ObjectAt, IsObject
<1>3. IsObject(f, tree, Root, 0)
  BY ObjectExists
<1> HIDE DEF f
<1> QED BY <1>2, <1>3 DEF IsObject

LEMMA ObjectAtEntry ==
    ASSUME NEW tree, NEW path \in Path, NEW name, Append(path, name) \in Path
    PROVE  ObjectAt(tree, Append(path, name)) = EntryOf(ObjectAt(tree, path), name)
<1> DEFINE n == Len(path)
           on == Append(path, name)
           f == CHOOSE g : IsObject(g, tree, path, n)
           h == CHOOSE g : IsObject(g, tree, on, n + 1)
           T == {k \in Nat : k <= n => f[k] = h[k]}
<1>1. n \in Nat /\ Len(on) = n + 1 /\ on[n + 1] = name /\ \A k \in 1..n : on[k] = path[k]
  BY DEF Path
<1>2. ObjectAt(tree, path) = f[n]
  BY DEF ObjectAt, IsObject
<1>3. ObjectAt(tree, on) = h[n + 1]
  BY <1>1 DEF ObjectAt, IsObject
<1> HIDE DEF n, on
<1>4. IsObject(f, tree, path, n) /\ IsObject(h, tree, on, n + 1)
  <2>1. IsObject(f, tree, path, n)
    BY <1>1, ObjectExists
  <2>2. n + 1 \in Nat
    BY <1>1
  <2>3. \E g : IsObject(g, tree, on, n + 1)
    BY <2>2, ObjectExists
  <2> QED BY <2>1, <2>3
<1> HIDE DEF f, h
<1>5. /\ \A k \in 0..n : f[k] = IF k = 0 THEN tree ELSE EntryOf(f[k - 1], path[k])
      /\ \A k \in 0 .. n + 1 : h[k] = IF k = 0 THEN tree ELSE EntryOf(h[k - 1], on[k])
  BY <1>4 DEF IsObject
<1>6. 0 \in T
  BY <1>1, <1>5
<1>7. ASSUME NEW k \in T PROVE k + 1 \in T
  <2>1. SUFFICES ASSUME k + 1 <= n PROVE f[k + 1] = h[k + 1]
    OBVIOUS
  <2>2. f[k] = h[k] /\ k + 1 \in 0..n /\ k + 1 \in 0 .. n + 1 /\ k + 1 # 0 /\ (k + 1) - 1 = k /\ on[k + 1] = path[k + 1]
    BY <1>1, <2>1
  <2> QED BY <1>5, <2>2
<1> HIDE DEF T
<1>8. n \in T
  BY <1>1, <1>6, <1>7, FromZeroOn DEF T
<1>9. f[n] = h[n]
  BY <1>1, <1>8 DEF T
<1>10. n + 1 \in 0 .. n + 1 /\ n + 1 # 0 /\ (n + 1) - 1 = n
  BY <1>1
<1>11. h[n + 1] = EntryOf(h[n], name)
  BY <1>1, <1>5, <1>10
<1> QED BY <1>2, <1>3, <1>9, <1>11 DEF on

(* What a tree has under the name of one of its entries.                   *)
LEMMA EntryHolds ==
    ASSUME NEW tree \in Tree, NEW e \in Range(Entries[tree])
    PROVE  EntryOf(tree, e.name) = e.hash
<1> DEFINE x == CHOOSE x \in Range(Entries[tree]) : x.name = e.name
<1>1. x \in Range(Entries[tree]) /\ x.name = e.name
  OBVIOUS
<1>2. x = e
  BY <1>1, TreesAssumption DEF Tree
<1>3. EntryOf(tree, e.name) = x.hash
  BY DEF EntryOf
<1> QED BY <1>2, <1>3

LEMMA OrderedHolds == ASSUME NEW tree \in Tree PROVE Ordered(Entries[tree]) \in Seq(Range(Entries[tree]))
<1> DEFINE s == Entries[tree]
           S == Range(s)
           first == [i \in DOMAIN s |-> IF s[i].dir THEN <<s[i]>> ELSE <<>>]
           then == [i \in DOMAIN s |-> IF ~s[i].dir THEN <<s[i]>> ELSE <<>>]
<1>1. s \in Seq(S)
  BY TreesAssumption DEF Tree
<1>2. Ordered(s) = FlattenSeq(first) \o FlattenSeq(then)
  BY DEF Ordered, Those
<1>3. /\ first = [i \in DOMAIN s |-> first[i]] /\ (\A i \in DOMAIN s : first[i] \in {<<s[i]>>, <<>>})
      /\ then = [i \in DOMAIN s |-> then[i]] /\ (\A i \in DOMAIN s : then[i] \in {<<s[i]>>, <<>>})
  OBVIOUS
<1> HIDE DEF first, then, S
<1>4. FlattenSeq(first) \in Seq(S) /\ FlattenSeq(then) \in Seq(S)
  BY <1>1, <1>3, ChosenHold
<1>5. FlattenSeq(first) \o FlattenSeq(then) \in Seq(S)
  BY <1>4
<1> QED BY <1>2, <1>5 DEF S

(* Rows that each name what is at their path.                              *)
LEMMA RowsOfSet ==
    ASSUME NEW S, NEW rows \in Seq(S), NEW root,
           \A row \in S : row.path \in Path /\ ObjectAt(root, row.path) = row.hash
    PROVE  IsRows(rows, root)
<1>1. DOMAIN rows = 1..Len(rows) /\ Len(rows) \in Nat /\ \A i \in 1..Len(rows) : rows[i] \in S
  OBVIOUS
<1>2. rows = [i \in 1..Len(rows) |-> rows[i]] /\ \A i \in 1..Len(rows) : rows[i] \in ToSet(rows)
  BY <1>1 DEF ToSet
<1>3. rows \in Seq(ToSet(rows))
  BY <1>1, <1>2
<1>4. \A row \in ToSet(rows) : row \in S
  BY <1>1 DEF ToSet
<1> QED BY <1>3, <1>4 DEF IsRows

LEMMA NoRows == ASSUME NEW root PROVE IsRows(<<>>, root)
<1>1. <<>> \in Seq(ToSet(<<>>)) /\ ToSet(<<>>) = {}
  BY DEF ToSet
<1> QED BY <1>1 DEF IsRows

LEMMA FlatRows ==
    ASSUME NEW n \in Nat, NEW seqs, seqs = [i \in 1..n |-> seqs[i]], NEW root, \A i \in 1..n : IsRows(seqs[i], root)
    PROVE  IsRows(FlattenSeq(seqs), root)
<1> DEFINE S == UNION {ToSet(seqs[i]) : i \in 1..n}
<1>1. ASSUME NEW i \in 1..n PROVE seqs[i] \in Seq(S)
  <2>1. seqs[i] \in Seq(ToSet(seqs[i])) /\ ToSet(seqs[i]) \subseteq S
    BY DEF IsRows
  <2> HIDE DEF S
  <2> QED BY <2>1
<1>2. \A row \in S : row.path \in Path /\ ObjectAt(root, row.path) = row.hash
  BY DEF IsRows
<1> HIDE DEF S
<1>3. seqs \in Seq(Seq(S))
  BY <1>1
<1> QED BY <1>2, <1>3, FlattenHolds, RowsOfSet

LEMMA LevelHolds ==
    ASSUME NEW p, NEW root, NEW below, NEW tree \in Tree, NEW path \in Path, ObjectAt(root, path) = tree,
           \A t \in Tree, at \in Path : ObjectAt(root, at) = t => IsRows(below[t][at], root)
    PROVE  IsRows(Level(p, below)[tree][path], root)
<1> DEFINE entries == IF tree \in p.cached THEN Ordered(Entries[tree]) ELSE <<>>
           Inside(e, at) == IF e.dir /\ at \in p.expanded THEN below[e.hash][at] ELSE <<>>
           seqs == [i \in DOMAIN entries |->
                      <<Row(p, entries[i], path)>> \o Inside(entries[i], Append(path, entries[i].name))]
<1>1. Level(p, below)[tree][path] = FlattenSeq(seqs)
  BY DEF Level
<1>2. entries \in Seq(Range(Entries[tree]))
  <2>1. Ordered(Entries[tree]) \in Seq(Range(Entries[tree]))
    BY OrderedHolds
  <2>2. <<>> \in Seq(Range(Entries[tree]))
    OBVIOUS
  <2> QED BY <2>1, <2>2
<1> HIDE DEF entries
<1>3. DOMAIN entries = 1..Len(entries) /\ Len(entries) \in Nat /\ \A i \in 1..Len(entries) : entries[i] \in Range(Entries[tree])
  BY <1>2
<1>4. ASSUME NEW i \in 1..Len(entries) PROVE IsRows(seqs[i], root)
  <2> DEFINE e == entries[i]
             at == Append(path, e.name)
             row == Row(p, e, path)
             inside == Inside(e, at)
  <2>1. e \in Range(Entries[tree])
    BY <1>3
  <2>2. seqs[i] = <<row>> \o inside
    BY <1>3
  <2>3. row.path = at /\ row.hash = e.hash
    BY DEF Row
  <2>4. at \in Path
    BY <2>1 DEF Path
  <2>5. EntryOf(tree, e.name) = e.hash
    BY <2>1, EntryHolds
  <2>6. ObjectAt(root, at) = e.hash
    BY <2>4, <2>5, ObjectAtEntry
  <2>7. IsRows(inside, root)
    <3>1. CASE e.dir /\ at \in p.expanded
      <4>1. e.hash \in Tree
        BY <2>1, <3>1, TreesAssumption DEF Tree
      <4> HIDE DEF at, e
      <4> QED BY <2>4, <2>6, <3>1, <4>1
    <3>2. CASE ~(e.dir /\ at \in p.expanded)
      <4>1. inside = <<>>
        BY <3>2
      <4> QED BY <4>1, NoRows
    <3> QED BY <3>1, <3>2
  <2> HIDE DEF row, inside, at, e, seqs
  <2> DEFINE S == {row} \cup ToSet(inside)
  <2>8. \A x \in S : x.path \in Path /\ ObjectAt(root, x.path) = x.hash
    BY <2>3, <2>4, <2>6, <2>7 DEF IsRows
  <2>9. inside \in Seq(ToSet(inside)) /\ ToSet(inside) \subseteq S /\ row \in S
    BY <2>7 DEF IsRows
  <2> HIDE DEF S
  <2>10. <<row>> \in Seq(S) /\ inside \in Seq(S)
    BY <2>9
  <2>11. <<row>> \o inside \in Seq(S)
    BY <2>10
  <2> QED BY <2>2, <2>8, <2>11, RowsOfSet
<1>5. seqs = [i \in 1..Len(entries) |-> seqs[i]]
  BY <1>3
<1> HIDE DEF seqs
<1> QED BY <1>1, <1>3, <1>4, <1>5, FlatRows

(* The rows n levels deep.                                                 *)
Nothing == [tree \in Tree |-> [path \in Path |-> <<>>]]
IsWalk(f, p, n) == f = [k \in 0..n |-> IF k = 0 THEN Nothing ELSE Level(p, f[k - 1])]

LEMMA WalkExists ==
    ASSUME NEW p
    PROVE  \A n \in Nat : \E f : IsWalk(f, p, n)
<1> DEFINE T == {n \in Nat : \E f : IsWalk(f, p, n)}
<1>1. 0 \in T
  <2> DEFINE f == [k \in 0..0 |-> Nothing]
  <2>1. f = [k \in 0..0 |-> IF k = 0 THEN Nothing ELSE Level(p, f[k - 1])]
    OBVIOUS
  <2>2. IsWalk(f, p, 0)
    BY <2>1 DEF IsWalk
  <2> QED BY <2>2
<1>2. ASSUME NEW n \in T PROVE n + 1 \in T
  <2>1. PICK f : IsWalk(f, p, n)
    BY <1>2
  <2>2. \A k \in 0..n : f[k] = IF k = 0 THEN Nothing ELSE Level(p, f[k - 1])
    BY <2>1 DEF IsWalk
  <2> DEFINE h == [k \in 0 .. n + 1 |-> IF k = n + 1 THEN Level(p, f[n]) ELSE f[k]]
             r == [k \in 0 .. n + 1 |-> IF k = 0 THEN Nothing ELSE Level(p, h[k - 1])]
  <2>3. ASSUME NEW k \in 0 .. n + 1 PROVE h[k] = r[k]
    <3>1. CASE k = n + 1
      <4>1. h[n] = f[n] /\ (n + 1) - 1 = n /\ n + 1 # 0 /\ n + 1 \in 0 .. n + 1
        OBVIOUS
      <4> QED BY <3>1, <4>1
    <3>2. CASE k = 0
      <4>1. f[0] = Nothing /\ 0 # n + 1
        BY <2>2
      <4> QED BY <3>2, <4>1
    <3>3. CASE k # n + 1 /\ k # 0
      <4>1. k \in 0..n /\ k - 1 \in 0 .. n + 1 /\ k - 1 # n + 1
        BY <3>3
      <4>2. h[k - 1] = f[k - 1] /\ h[k] = f[k]
        BY <3>3, <4>1
      <4>3. f[k] = Level(p, f[k - 1])
        BY <2>2, <3>3, <4>1
      <4> QED BY <3>3, <4>2, <4>3
    <3> QED BY <3>1, <3>2, <3>3
  <2>4. h = r
    BY <2>3
  <2>5. IsWalk(h, p, n + 1)
    <3> HIDE DEF h
    <3> QED BY <2>4 DEF IsWalk
  <2> QED BY <2>5
<1>3. \A n \in T : n + 1 \in T
  BY <1>2
<1> HIDE DEF T
<1>4. \A n \in Nat : n \in T
  BY <1>1, <1>3, FromZeroOn DEF T
<1> QED BY <1>4 DEF T

LEMMA WalkHolds ==
    ASSUME NEW p, p.root \in Tree, NEW n \in Nat, NEW f, IsWalk(f, p, n)
    PROVE  IsRows(f[n][p.root][Root], p.root)
<1> DEFINE Sound(k) == \A tree \in Tree, path \in Path : ObjectAt(p.root, path) = tree => IsRows(f[k][tree][path], p.root)
           T == {k \in Nat : k <= n => Sound(k)}
<1>1. \A k \in 0..n : f[k] = IF k = 0 THEN Nothing ELSE Level(p, f[k - 1])
  BY DEF IsWalk
<1>2. 0 \in T
  <2>1. f[0] = Nothing
    BY <1>1
  <2>2. \A tree \in Tree, path \in Path : Nothing[tree][path] = <<>>
    BY DEF Nothing
  <2>3. IsRows(<<>>, p.root)
    BY NoRows
  <2> QED BY <2>1, <2>2, <2>3
<1>3. ASSUME NEW k \in T PROVE k + 1 \in T
  <2>1. SUFFICES ASSUME k + 1 <= n, NEW tree \in Tree, NEW path \in Path, ObjectAt(p.root, path) = tree
                 PROVE  IsRows(f[k + 1][tree][path], p.root)
    OBVIOUS
  <2>2. Sound(k) /\ k + 1 \in 0..n /\ k + 1 # 0 /\ (k + 1) - 1 = k
    BY <2>1
  <2>3. f[k + 1] = Level(p, f[k])
    BY <1>1, <2>2
  <2>4. IsRows(Level(p, f[k])[tree][path], p.root)
    BY <2>1, <2>2, LevelHolds
  <2> QED BY <2>3, <2>4
<1> HIDE DEF T
<1>4. n \in T
  BY <1>2, <1>3, FromZeroOn DEF T
<1>5. Sound(n)
  BY <1>4 DEF T
<1>6. Root \in Path /\ ObjectAt(p.root, Root) = p.root
  BY ObjectAtRoot DEF Root, Path
<1> QED BY <1>5, <1>6

(* What the explorer shows are rows of its root.                           *)
LEMMA VisibleRows ==
    ASSUME NEW p, IsFiniteSet(p.cached), p.root \in Tree
    PROVE  IsRows(buildVisibleEntries(p), p.root)
<1> DEFINE n == Cardinality(p.cached)
           f == CHOOSE g : IsWalk(g, p, n)
           all == IF p.root = NoTree THEN <<>> ELSE Walk(p)
<1>1. n \in Nat
  BY FS_CardinalityType
<1>2. Walk(p) = f[n][p.root][Root]
  BY DEF Walk, IsWalk, Nothing
<1> HIDE DEF n
<1>3. IsWalk(f, p, n)
  BY <1>1, WalkExists
<1> HIDE DEF f
<1>4. IsRows(all, p.root)
  <2>1. IsRows(Walk(p), p.root)
    BY <1>1, <1>2, <1>3, WalkHolds
  <2> QED BY <2>1, NoRows
<1> DEFINE Kept(row) == \E i \in DOMAIN all : Name(all[i].path) = p.filter /\ IsPrefix(row.path, all[i].path)
           seqs == [i \in DOMAIN all |-> IF Kept(all[i]) THEN <<all[i]>> ELSE <<>>]
<1>5. buildVisibleEntries(p) = IF p.filter = NoFilter THEN all ELSE FlattenSeq(seqs)
  BY DEF buildVisibleEntries, Matching, Those
<1>6. seqs = [i \in DOMAIN all |-> seqs[i]] /\ \A i \in DOMAIN all : seqs[i] \in {<<all[i]>>, <<>>}
  OBVIOUS
<1> HIDE DEF seqs, all
<1>7. FlattenSeq(seqs) \in Seq(ToSet(all))
  BY <1>4, <1>6, ChosenHold DEF IsRows
<1>8. IsRows(FlattenSeq(seqs), p.root)
  BY <1>4, <1>7, RowsOfSet DEF IsRows
<1> QED BY <1>4, <1>5, <1>8

-----------------------------------------------------------------------------
(* Drawing.                                                                *)

LEMMA DrawnHolds ==
    ASSUME NEW p, Core(p), NEW what, NEW rows
    PROVE  /\ Core(Drawn(p, what, rows))
           /\ p.mode = "tree" /\ what \in {"empty", "skeleton"} => Good(Drawn(p, what, rows))
           /\ /\ p.mode = "tree" /\ what = "tree" /\ p.commit \in Commit /\ IsRows(rows, TreeOf[p.commit])
              => Good(Drawn(p, what, rows))
           /\ p.mode = "diff" /\ what = "diff" /\ p.diff.open => Good(Drawn(p, what, rows))
           /\ p.mode = "external" /\ what = "external" => Good(Drawn(p, what, rows))
<1> DEFINE s == [what |-> what, rows |-> rows, covered |-> FALSE]
           q == [p EXCEPT !.drawn = s]
<1>1. DrawnMade(s) /\ s.what = what /\ s.rows = rows
  BY DEF DrawnMade
<1>2. q = Drawn(p, what, rows)
  BY DEF Drawn
<1> HIDE DEF s
<1>3. /\ q = [f \in Parts |-> q[f]] /\ q.drawn = s /\ q.commit = p.commit /\ q.mode = p.mode /\ q.diff = p.diff
      /\ q.viewer = p.viewer /\ q.shownUrl = p.shownUrl /\ q.overlay = p.overlay /\ q.file = p.file
      /\ q.files = p.files /\ q.inflight = p.inflight /\ q.root = p.root /\ q.cached = p.cached
  BY DEF Core, Made, Parts
<1> HIDE DEF q
<1>4. Made(q) /\ DiffGood(q) /\ ViewersGood(q) /\ FileGood(q) /\ Trees(q)
  BY <1>1, <1>3 DEF Core, Made, DiffGood, ViewersGood, FileGood, Trees
<1>5. \A r : Flies(p, r) => Flies(q, r)
  BY <1>3 DEF Flies
<1>6. Core(q)
  BY <1>3, <1>4, <1>5 DEF Core, Flight
<1> QED BY <1>1, <1>2, <1>3, <1>6 DEF Good, Screen

LEMMA DiffDrawn == ASSUME NEW p, Core(p), p.mode = "diff" PROVE Good(renderDiffMode(p))
<1>1. CASE p.diff.open /\ p.diff.commit = p.commit
  BY <1>1, DrawnHolds DEF renderDiffMode
<1>2. CASE ~(p.diff.open /\ p.diff.commit = p.commit)
  <2>1. renderDiffMode(p) = Drawn(openDiff(p, p.commit), "diff", <<>>)
    BY <1>2 DEF renderDiffMode
  <2> DEFINE q == openDiff(p, p.commit)
  <2>2. Core(q) /\ q.diff.open /\ q.mode = "diff"
    BY OpenDiffHolds
  <2> HIDE DEF q
  <2>3. Good(Drawn(q, "diff", <<>>))
    BY <2>2, DrawnHolds
  <2> QED BY <2>1, <2>3 DEF q
<1> QED BY <1>1, <1>2

LEMMA ExternalDrawn == ASSUME NEW p, Core(p), p.mode = "external" PROVE Good(renderExternalDiffMode(p))
<1> DEFINE w == showFromUrl(p.viewer["external"], p.external)
           q == [p EXCEPT !.shownUrl = p.external, !.viewer["external"] = w]
           fresh == p.external # NoUrl /\ p.shownUrl # p.external
<1>1. renderExternalDiffMode(p) = Drawn(IF fresh THEN FetchDiff(q, "external") ELSE p, "external", <<>>)
  BY DEF renderExternalDiffMode, Core, Made, Parts
<1>2. CASE fresh
  <2>1. "external" \in ByUrl /\ "external" \in Viewers /\ ViewerMade(p.viewer["external"])
    BY DEF ByUrl, Viewers, Core, Made
  <2>2. ViewerMade(w) /\ w.claim > p.viewer["external"].claim /\ w.url = p.external /\ w.content = Spinner
    BY <2>1, ViewerOps DEF ViewerMade
  <2> HIDE DEF w
  <2>3. /\ OnViewer(p, q, "external", w) /\ q.commit = p.commit /\ q.mode = p.mode /\ q.shownUrl = p.external
        /\ q.overlay = p.overlay /\ q.root = p.root /\ q.cached = p.cached
    BY DEF OnViewer, Core, Made, Parts
  <2> HIDE DEF q
  <2>4. /\ q.viewer["external"] = w /\ q.viewer["staging"] = p.viewer["staging"] /\ q.diff = p.diff
    BY <2>1, <2>2, <2>3, OnViewerMade DEF Core, Viewers
  <2>5. ViewerGood(w)
    BY <1>2, <2>2, Contents DEF ViewerGood
  <2>6. \A u \in ByUrl : ViewerGood(q.viewer[u])
    BY <2>4, <2>5 DEF Core, ViewersGood, ByUrl
  <2>7. ViewersGood(q) /\ DiffGood(q) /\ Trees(q)
    BY <2>2, <2>3, <2>4, <2>6 DEF Core, ViewersGood, DiffGood, Trees
  <2>8. Core(q)
    BY <2>1, <2>2, <2>3, <2>7, UrlViewer
  <2>9. Core(FetchDiff(q, "external")) /\ FetchDiff(q, "external").mode = "external"
    <3>1. Core(FetchDiff(q, "external"))
      BY <1>2, <2>1, <2>2, <2>4, <2>8, FetchHolds
    <3>2. FetchDiff(q, "external").mode = q.mode
      BY <2>8 DEF FetchDiff, Ask, Core, Made, Parts
    <3> QED BY <2>3, <3>1, <3>2
  <2> HIDE DEF fresh
  <2> QED BY <1>1, <1>2, <2>9, DrawnHolds
<1>3. CASE ~fresh
  <2> HIDE DEF fresh, q
  <2> QED BY <1>1, <1>3, DrawnHolds
<1> QED BY <1>2, <1>3

(* A page as it changes between two drawings is drawn right.               *)
LEMMA RenderHolds == ASSUME NEW p, Core(p) PROVE Good(render(p))
<1>1. p.mode \in {"tree", "diff", "external"}
  BY DEF Core, ViewersGood
<1>2. CASE p.mode = "diff"
  BY <1>2, DiffDrawn DEF render
<1>3. CASE p.mode = "external"
  BY <1>3, ExternalDrawn DEF render
<1>4. CASE p.mode = "tree"
  <2>1. CASE p.commit = NoCommit
    BY <1>4, <2>1, DrawnHolds DEF render
  <2>2. CASE p.commit # NoCommit /\ p.loading
    BY <1>4, <2>2, DrawnHolds DEF render
  <2>3. CASE p.commit # NoCommit /\ ~p.loading
    <3> DEFINE rows == buildVisibleEntries(p)
               q == [p EXCEPT !.focused = IF @ > Len(rows) THEN Max({1, Len(rows)}) ELSE @]
    <3>1. render(p) = Drawn(q, "tree", rows)
      BY <1>4, <2>3 DEF render, renderTree
    <3> HIDE DEF rows
    <3>2. Frame(p, q)
      BY DEF Frame, Core, Made, Parts, Rest
    <3>3. q.mode = p.mode /\ q.commit = p.commit
      BY <3>2 DEF Frame, Parts, Rest
    <3>4. p.commit \in Commit /\ IsRows(rows, TreeOf[p.commit])
      <4>1. p.commit \in Commit /\ p.root = TreeOf[p.commit] /\ IsFiniteSet(p.cached)
        BY <2>3 DEF Core, Trees
      <4>2. p.root \in Tree
        BY <4>1, TreesAssumption DEF Tree
      <4>3. IsRows(buildVisibleEntries(p), p.root)
        BY <4>1, <4>2, VisibleRows
      <4> QED BY <4>1, <4>3 DEF rows
    <3> HIDE DEF q
    <3> QED BY <1>4, <3>1, <3>2, <3>3, <3>4, FrameCore, DrawnHolds
  <2> QED BY <2>1, <2>2, <2>3
<1> QED BY <1>1, <1>2, <1>3, <1>4

LEMMA FrameGood == ASSUME NEW p, NEW q, Good(p), Frame(p, q) PROVE Good(q)
BY FrameCore, FrameScreen DEF Good

LEMMA FocusHolds == ASSUME NEW p, Good(p), NEW path PROVE Good(FocusOn(p, path))
<1> DEFINE at == {i \in DOMAIN buildVisibleEntries(p) : buildVisibleEntries(p)[i].path = path}
           q == [p EXCEPT !.focused = Min(at)]
<1>1. FocusOn(p, path) = IF at = {} THEN p ELSE q
  BY DEF FocusOn
<1> HIDE DEF at
<1>2. Frame(p, q)
  BY DEF Frame, Good, Core, Made, Parts, Rest
<1> HIDE DEF q
<1> QED BY <1>1, <1>2, FrameGood

-----------------------------------------------------------------------------
(* Files.                                                                  *)

LEMMA FileSet ==
    ASSUME NEW p, NEW e, Good(p), FileMade(e),
           e.claim > p.file.claim \/ (e.claim = p.file.claim /\ e.opened = p.file.opened),
           e.content.what = "blob" => e.content.of = e.opened
    PROVE  Good([p EXCEPT !.file = e]) /\ [p EXCEPT !.file = e].file = e
<1> DEFINE q == [p EXCEPT !.file = e]
<1>1. /\ q = [f \in Parts |-> q[f]] /\ q.file = e /\ q.commit = p.commit /\ q.mode = p.mode /\ q.diff = p.diff
      /\ q.viewer = p.viewer /\ q.shownUrl = p.shownUrl /\ q.overlay = p.overlay /\ q.drawn = p.drawn
      /\ q.files = p.files /\ q.inflight = p.inflight /\ q.root = p.root /\ q.cached = p.cached
  BY DEF Good, Core, Made, Parts
<1> HIDE DEF q
<1>2. Made(q)
  BY <1>1 DEF Good, Core, Made
<1>3. DiffGood(q) /\ ViewersGood(q) /\ FileGood(q) /\ Trees(q)
  BY <1>1 DEF Good, Core, DiffGood, ViewersGood, FileGood, Trees
<1>4. Later(p, q)
  <2>1. p.viewer["commit"].claim \in Nat
    BY DEF Good, Core, Made, ViewerMade, Viewers
  <2> QED BY <1>1, <2>1 DEF Later
<1>5. Core(q)
  BY <1>1, <1>2, <1>3, <1>4, LaterCore DEF Good, Core
<1> QED BY <1>1, <1>5 DEF Good, Screen, q

LEMMA OpenFileHolds == ASSUME NEW p, Good(p), NEW row PROVE Good(openFile(p, row))
<1> DEFINE e == [claim |-> p.file.claim + 1, visible |-> TRUE, content |-> Spinner, opened |-> row.hash]
           q == [p EXCEPT !.file = e]
           r == [kind |-> "blob", gen |-> p.file.claim + 1, then |-> [do |-> "file", of |-> row.hash]]
<1>1. p.file.claim \in Nat
  BY DEF Good, Core, Made, FileMade
<1>2. FileMade(e) /\ e.claim = p.file.claim + 1 /\ e.opened = row.hash /\ e.content.what # "blob"
  BY <1>1 DEF FileMade, FileParts, Spinner
<1>3. openFile(p, row) = Ask(q, r)
  BY DEF openFile, Request
<1> HIDE DEF e
<1>4. Good(q) /\ q.file = e
  <2>1. e.claim > p.file.claim
    BY <1>1, <1>2
  <2> HIDE DEF q
  <2>2. Good([p EXCEPT !.file = e]) /\ [p EXCEPT !.file = e].file = e
    BY <1>2, <2>1, FileSet
  <2> QED BY <2>2 DEF q
<1> HIDE DEF q
<1>5. Flies(q, r)
  BY <1>1, <1>2, <1>4 DEF Flies
<1> HIDE DEF r
<1> QED BY <1>3, <1>4, <1>5, AskHolds DEF Good

LEMMA CloseFileHolds == ASSUME NEW p, Good(p) PROVE Good(closeFile(p))
<1> DEFINE e == [p.file EXCEPT !.claim = p.file.claim + 1, !.visible = FALSE, !.content = Blank]
<1>1. p.file = [f \in FileParts |-> p.file[f]] /\ p.file.claim \in Nat
  BY DEF Good, Core, Made, FileMade
<1>2. e = [f \in FileParts |-> e[f]] /\ e.claim = p.file.claim + 1 /\ e.content = Blank
  BY <1>1 DEF FileParts
<1>3. closeFile(p) = [p EXCEPT !.file = e]
  BY DEF closeFile, Good, Core, Made, Parts
<1> HIDE DEF e
<1>4. FileMade(e) /\ e.claim > p.file.claim /\ e.content.what # "blob"
  BY <1>1, <1>2 DEF FileMade, Blank
<1>5. Good([p EXCEPT !.file = e])
  BY <1>4, FileSet
<1> QED BY <1>3, <1>5

LEMMA FileClickHolds == ASSUME NEW p, Good(p), NEW row PROVE Good(handleFileClick(p, row))
<1> DEFINE d == [p.diff EXCEPT !.open = @ /\ p.drawn.what # "diff"]
           s == [p.drawn EXCEPT !.covered = TRUE]
           w == [p.viewer["external"] EXCEPT !.visible = @ /\ p.drawn.what # "external"]
           q == [p EXCEPT !.selected = row.path, !.breadcrumb = Parent(row.path), !.drawn = s, !.diff = d,
                          !.viewer = [p.viewer EXCEPT !["external"] = w]]
<1>1. /\ DiffMade(d) /\ d.generation = p.diff.generation /\ d.commit = p.diff.commit /\ d.files = p.diff.files
      /\ d.open => p.diff.open
  BY DEF Good, Core, Made, DiffMade, DiffParts
<1>2. DrawnMade(s) /\ s.what = p.drawn.what /\ s.rows = p.drawn.rows /\ s.covered
  BY DEF Good, Core, Made, DrawnMade
<1>3. "external" \in Viewers /\ "external" \in ByUrl /\ ViewerMade(p.viewer["external"]) /\ ViewerGood(p.viewer["external"])
  BY DEF Viewers, ByUrl, Good, Core, Made, ViewersGood
<1>4. /\ ViewerMade(w) /\ w.claim = p.viewer["external"].claim /\ w.url = p.viewer["external"].url
      /\ w.context = p.viewer["external"].context /\ w.content = p.viewer["external"].content
      /\ w.visible => p.viewer["external"].visible
  BY <1>3 DEF ViewerMade
<1>5. ViewerGood(w)
  BY <1>3, <1>4 DEF ViewerGood
<1>6. handleFileClick(p, row) = openFile(q, row)
  BY DEF handleFileClick, Good, Core, Made, Parts, Viewers
<1> HIDE DEF d, s, w
<1>7. /\ q = [f \in Parts |-> q[f]] /\ q.file = p.file /\ q.commit = p.commit /\ q.mode = p.mode /\ q.diff = d
      /\ q.viewer = [p.viewer EXCEPT !["external"] = w] /\ q.shownUrl = p.shownUrl /\ q.overlay = p.overlay /\ q.drawn = s
      /\ q.files = p.files /\ q.inflight = p.inflight /\ q.root = p.root /\ q.cached = p.cached
  BY DEF Good, Core, Made, Parts
<1> HIDE DEF q
<1>8. /\ q.viewer = [u \in Viewers |-> q.viewer[u]] /\ (\A u \in Viewers : ViewerMade(q.viewer[u]))
      /\ q.viewer["external"] = w /\ q.viewer["commit"] = p.viewer["commit"] /\ q.viewer["staging"] = p.viewer["staging"]
  <2> DEFINE z == [p.viewer EXCEPT !["external"] = w]
  <2>1. /\ z = [u \in Viewers |-> z[u]] /\ z["external"] = w /\ \A u \in Viewers \ {"external"} : z[u] = p.viewer[u]
        /\ \A u \in Viewers : ViewerMade(z[u])
    BY <1>3, <1>4, ViewerSet DEF Good, Core
  <2>2. q.viewer = z
    BY <1>7
  <2>3. "commit" \in Viewers \ {"external"} /\ "staging" \in Viewers \ {"external"}
    BY DEF Viewers
  <2> HIDE DEF z
  <2> QED BY <2>1, <2>2, <2>3
<1>9. Made(q)
  BY <1>1, <1>2, <1>7, <1>8 DEF Good, Core, Made
<1>10. DiffGood(q) /\ ViewersGood(q) /\ FileGood(q) /\ Trees(q)
  BY <1>1, <1>4, <1>5, <1>7, <1>8 DEF Good, Core, DiffGood, ViewersGood, FileGood, ByUrl, Trees
<1>11. Later(p, q)
  <2>1. p.viewer["commit"].claim \in Nat
    BY DEF Good, Core, Made, ViewerMade, Viewers
  <2> QED BY <1>1, <1>4, <1>7, <1>8, <2>1 DEF Later, ByUrl
<1>12. Good(q)
  <2>1. Core(q)
    BY <1>7, <1>9, <1>10, <1>11, LaterCore DEF Good, Core
  <2> QED BY <1>2, <1>7, <2>1 DEF Good, Screen
<1> QED BY <1>6, <1>12, OpenFileHolds

-----------------------------------------------------------------------------
(* Directories.                                                            *)

(* Requests whose answers are held against nothing that is shown.          *)
LEMMA AskFreely ==
    ASSUME NEW p, Good(p), NEW r, r.kind \in {"dir", "filediff"}
    PROVE  Good(Ask(p, r))
<1>1. Flies(p, r)
  BY DEF Flies
<1> QED BY <1>1, AskHolds DEF Good

LEMMA DirClickHolds == ASSUME NEW p, Good(p), NEW row PROVE Good(handleDirClick(p, row))
<1>1. CASE row.path \in p.expanded
  <2> DEFINE q == [p EXCEPT !.expanded = @ \ {row.path},
                            !.breadcrumb = IF IsPrefix(row.path, @) THEN Parent(row.path) ELSE @]
  <2>1. Frame(p, q)
    BY DEF Frame, Good, Core, Made, Parts, Rest
  <2>2. handleDirClick(p, row) = FocusOn(render(q), row.path)
    BY <1>1 DEF handleDirClick, CollapseDir
  <2> HIDE DEF q
  <2> QED BY <2>1, <2>2, FrameGood, RenderHolds, FocusHolds DEF Good
<1>2. CASE row.path \notin p.expanded
  <2> DEFINE q == [p EXCEPT !.expanded = @ \cup {row.path}, !.breadcrumb = row.path]
             r == [Request("dir", p.generation, NoThen) EXCEPT !.then = [do |-> "expand", row |-> row]]
  <2>1. Frame(p, q) /\ r.kind = "dir"
    BY DEF Frame, Good, Core, Made, Parts, Rest, Request
  <2>2. handleDirClick(p, row) = IF row.hash \in p.cached THEN FocusOn(render(q), row.path) ELSE Ask(q, r)
    BY <1>2 DEF handleDirClick, ExpandDir
  <2> HIDE DEF q, r
  <2>3. Good(q)
    BY <2>1, FrameGood
  <2>4. Good(FocusOn(render(q), row.path)) /\ Good(Ask(q, r))
    BY <2>1, <2>3, RenderHolds, FocusHolds, AskFreely DEF Good
  <2> QED BY <2>2, <2>4
<1> QED BY <1>1, <1>2

LEMMA DirArrivesHolds == ASSUME NEW p, Good(p), NEW r, NEW ok \in BOOLEAN PROVE Good(DirArrives(p, r, ok))
<1> DEFINE shut == [p EXCEPT !.expanded = @ \ {r.then.row.path}]
           more == [p EXCEPT !.cached = @ \cup {r.then.row.hash}]
<1>1. Frame(p, shut) /\ Frame(p, more)
  BY FS_AddElement DEF Frame, Good, Core, Made, Parts, Rest
<1>2. DirArrives(p, r, ok) = IF ~ok THEN shut ELSE IF r.gen # p.generation THEN p ELSE FocusOn(render(more), r.then.row.path)
  BY DEF DirArrives
<1> HIDE DEF shut, more
<1>3. Good(shut) /\ Good(more)
  BY <1>1, FrameGood
<1>4. Good(FocusOn(render(more), r.then.row.path))
  BY <1>3, RenderHolds, FocusHolds DEF Good
<1> QED BY <1>2, <1>3, <1>4

(* The page after a click on each of the first n of some rows.             *)
IsClicked(f, p, rows, n) == f = [k \in 0..n |-> IF k = 0 THEN p ELSE handleDirClick(f[k - 1], rows[k])]

LEMMA ClickedExists ==
    ASSUME NEW p, NEW rows
    PROVE  \A n \in Nat : \E f : IsClicked(f, p, rows, n)
<1> DEFINE T == {n \in Nat : \E f : IsClicked(f, p, rows, n)}
<1>1. 0 \in T
  <2> DEFINE f == [k \in 0..0 |-> p]
  <2>1. f = [k \in 0..0 |-> IF k = 0 THEN p ELSE handleDirClick(f[k - 1], rows[k])]
    OBVIOUS
  <2>2. IsClicked(f, p, rows, 0)
    BY <2>1 DEF IsClicked
  <2> QED BY <2>2
<1>2. ASSUME NEW n \in T PROVE n + 1 \in T
  <2>1. PICK f : IsClicked(f, p, rows, n)
    BY <1>2
  <2>2. \A k \in 0..n : f[k] = IF k = 0 THEN p ELSE handleDirClick(f[k - 1], rows[k])
    BY <2>1 DEF IsClicked
  <2> DEFINE h == [k \in 0 .. n + 1 |-> IF k = n + 1 THEN handleDirClick(f[n], rows[n + 1]) ELSE f[k]]
             r == [k \in 0 .. n + 1 |-> IF k = 0 THEN p ELSE handleDirClick(h[k - 1], rows[k])]
  <2>3. ASSUME NEW k \in 0 .. n + 1 PROVE h[k] = r[k]
    <3>1. CASE k = n + 1
      <4>1. h[n] = f[n] /\ (n + 1) - 1 = n /\ n + 1 # 0 /\ n + 1 \in 0 .. n + 1
        OBVIOUS
      <4> QED BY <3>1, <4>1
    <3>2. CASE k = 0
      <4>1. f[0] = p /\ 0 # n + 1
        BY <2>2
      <4> QED BY <3>2, <4>1
    <3>3. CASE k # n + 1 /\ k # 0
      <4>1. k \in 0..n /\ k - 1 \in 0 .. n + 1 /\ k - 1 # n + 1
        BY <3>3
      <4>2. h[k - 1] = f[k - 1] /\ h[k] = f[k]
        BY <3>3, <4>1
      <4>3. f[k] = handleDirClick(f[k - 1], rows[k])
        BY <2>2, <3>3, <4>1
      <4> QED BY <3>3, <4>2, <4>3
    <3> QED BY <3>1, <3>2, <3>3
  <2>4. h = r
    BY <2>3
  <2>5. IsClicked(h, p, rows, n + 1)
    <3> HIDE DEF h
    <3> QED BY <2>4 DEF IsClicked
  <2> QED BY <2>5
<1>3. \A n \in T : n + 1 \in T
  BY <1>2
<1> HIDE DEF T
<1>4. \A n \in Nat : n \in T
  BY <1>1, <1>3, FromZeroOn DEF T
<1> QED BY <1>4 DEF T

LEMMA ClickedHolds ==
    ASSUME NEW p, Good(p), NEW rows, NEW n \in Nat, NEW f, IsClicked(f, p, rows, n)
    PROVE  Good(f[n])
<1> DEFINE T == {k \in Nat : k <= n => Good(f[k])}
<1>1. \A k \in 0..n : f[k] = IF k = 0 THEN p ELSE handleDirClick(f[k - 1], rows[k])
  BY DEF IsClicked
<1>2. 0 \in T
  BY <1>1
<1>3. ASSUME NEW k \in T PROVE k + 1 \in T
  <2>1. SUFFICES ASSUME k + 1 <= n PROVE Good(f[k + 1])
    OBVIOUS
  <2>2. Good(f[k]) /\ k + 1 \in 0..n /\ k + 1 # 0 /\ (k + 1) - 1 = k
    BY <2>1
  <2>3. f[k + 1] = handleDirClick(f[k], rows[k + 1])
    BY <1>1, <2>2
  <2> QED BY <2>2, <2>3, DirClickHolds
<1> HIDE DEF T
<1>4. n \in T
  BY <1>2, <1>3, FromZeroOn DEF T
<1> QED BY <1>4 DEF T

LEMMA SiblingsHold ==
    ASSUME NEW p, Good(p), NEW row, NEW rows, NEW root, IsRows(rows, root)
    PROVE  Good(expandSiblings(p, row, rows))
<1> DEFINE Shut(e) == e.dir /\ e.path \notin p.expanded /\ Parent(e.path) = Parent(row.path)
           siblings == FlattenSeq([i \in DOMAIN rows |-> IF Shut(rows[i]) THEN <<rows[i]>> ELSE <<>>])
           after == CHOOSE f : IsClicked(f, p, siblings, Len(siblings))
<1>1. Len(siblings) \in Nat
  <2> DEFINE seqs == [i \in DOMAIN rows |-> IF Shut(rows[i]) THEN <<rows[i]>> ELSE <<>>]
  <2>1. seqs = [i \in DOMAIN rows |-> seqs[i]] /\ \A i \in DOMAIN rows : seqs[i] \in {<<rows[i]>>, <<>>}
    OBVIOUS
  <2> HIDE DEF seqs
  <2>2. FlattenSeq(seqs) \in Seq(ToSet(rows))
    BY <2>1, ChosenHold DEF IsRows
  <2>3. Len(FlattenSeq(seqs)) \in Nat
    BY <2>2
  <2> QED BY <2>3 DEF seqs
<1>2. expandSiblings(p, row, rows) = after[Len(siblings)]
  BY DEF expandSiblings, IsClicked, Those
<1> HIDE DEF siblings
<1>3. IsClicked(after, p, siblings, Len(siblings))
  BY <1>1, ClickedExists
<1> HIDE DEF after
<1> QED BY <1>1, <1>2, <1>3, ClickedHolds

LEMMA ToolbarHolds == ASSUME NEW p, Good(p) PROVE Good(collapseAll(p)) /\ Good(expandAll(p))
<1> DEFINE shut == [p EXCEPT !.expanded = {Root}, !.breadcrumb = Root, !.focused = 1]
           open == [p EXCEPT !.expanded = @ \cup DirsBelow(p)]
<1>1. Frame(p, shut) /\ Frame(p, open)
  BY DEF Frame, Good, Core, Made, Parts, Rest
<1>2. collapseAll(p) = render(shut) /\ expandAll(p) = render(IF p.root = NoTree THEN p ELSE open)
  BY DEF collapseAll, expandAll
<1> HIDE DEF shut, open
<1>3. Good(shut) /\ Good(open)
  BY <1>1, FrameGood
<1> QED BY <1>2, <1>3, RenderHolds DEF Good

-----------------------------------------------------------------------------
(* Revealing a path, and opening a commit.                                 *)

LEMMA ModeCore ==
    ASSUME NEW p, NEW q, Core(p), q = [f \in Parts |-> q[f]],
           \A f \in Parts \ (Rest \cup {"mode"}) : q[f] = p[f],
           IsFiniteSet(p.cached) => IsFiniteSet(q.cached), q.mode \in {"tree", "diff", "external"},
           q.mode # "external" => p.shownUrl = NoUrl
    PROVE  Core(q)
<1>1. /\ q.commit = p.commit /\ q.shownUrl = p.shownUrl /\ q.diff = p.diff /\ q.viewer = p.viewer
      /\ q.file = p.file /\ q.files = p.files /\ q.overlay = p.overlay /\ q.inflight = p.inflight /\ q.drawn = p.drawn
      /\ q.root = p.root
  BY DEF Parts, Rest
<1>2. Made(q)
  BY <1>1 DEF Core, Made
<1>3. DiffGood(q) /\ ViewersGood(q) /\ FileGood(q) /\ Trees(q)
  BY <1>1 DEF Core, DiffGood, ViewersGood, FileGood, Trees
<1>4. \A r : Flies(p, r) => Flies(q, r)
  BY <1>1 DEF Flies
<1> QED BY <1>1, <1>2, <1>3, <1>4 DEF Core, Flight

Waits(then) == then.do \in {"file", "external"}

LEMMA AfterRevealHolds ==
    ASSUME NEW p, Good(p), NEW row, NEW then, Waits(then)
    PROVE  Good(AfterReveal(p, row, then))
<1>1. CASE then.do = "file"
  <2>1. AfterReveal(p, row, then) = IF row # <<>> /\ ~row[1].dir THEN handleFileClick(p, row[1]) ELSE p
    BY <1>1 DEF AfterReveal
  <2> QED BY <2>1, FileClickHolds
<1>2. CASE then.do = "external"
  <2> DEFINE q == [p EXCEPT !.external = then.url, !.mode = "external"]
  <2>1. AfterReveal(p, row, then) = render(q)
    BY <1>2 DEF AfterReveal
  <2>2. /\ q = [f \in Parts |-> q[f]] /\ (\A f \in Parts \ (Rest \cup {"mode"}) : q[f] = p[f])
        /\ q.cached = p.cached /\ q.mode = "external"
    BY DEF Good, Core, Made, Parts, Rest
  <2> HIDE DEF q
  <2>3. Core(q)
    BY <2>2, ModeCore DEF Good
  <2> QED BY <2>1, <2>3, RenderHolds
<1> QED BY <1>1, <1>2 DEF Waits

LEMMA RevealedHolds == ASSUME NEW p, Good(p), NEW then, Waits(then) PROVE Good(Revealed(p, then))
<1> DEFINE q == [p EXCEPT !.selected = then.path, !.breadcrumb = Parent(then.path)]
           s == FocusOn(render(q), then.path)
           row == SelectSeq(buildVisibleEntries(s), LAMBDA e : e.path = then.path)
<1>1. Revealed(p, then) = AfterReveal(s, row, then)
  BY DEF Revealed
<1> HIDE DEF row
<1>2. Frame(p, q)
  BY DEF Frame, Good, Core, Made, Parts, Rest
<1> HIDE DEF q
<1>3. Good(s)
  BY <1>2, FrameGood, RenderHolds, FocusHolds DEF Good
<1> HIDE DEF s
<1> QED BY <1>1, <1>3, AfterRevealHolds

LEMMA RevealFromHolds ==
    ASSUME NEW p, Good(p), NEW depth, NEW tree, NEW then, Waits(then)
    PROVE  Good(RevealFrom(p, depth, tree, then))
<1> DEFINE way == CHOOSE way : way = [n \in depth..Len(then.path) |->
                                         IF n = depth THEN tree ELSE DirOf(p, way[n - 1], then.path[n])]
           last == Max({depth} \cup {n \in depth..Len(then.path) - 1 : way[n] # NoTree})
           q == [p EXCEPT !.expanded = @ \cup {SubSeq(then.path, 1, n) : n \in depth + 1..last}]
           r == [Request("reveal", p.generation, then) EXCEPT
                   !.then = [do |-> "reveal", depth |-> last, hash |-> way[last], next |-> then]]
<1>1. RevealFrom(p, depth, tree, then) = IF last = depth \/ way[last] \in p.cached THEN Revealed(q, then) ELSE Ask(q, r)
  BY DEF RevealFrom
<1> HIDE DEF way, last
<1>2. Frame(p, q)
  BY DEF Frame, Good, Core, Made, Parts, Rest
<1>3. r.kind = "reveal" /\ r.then.next = then
  BY DEF Request
<1> HIDE DEF q, r
<1>4. Good(q)
  BY <1>2, FrameGood
<1>5. Flies(q, r)
  BY <1>3 DEF Flies, Waits
<1>6. Good(Ask(q, r))
  BY <1>4, <1>5, AskHolds DEF Good
<1> QED BY <1>1, <1>4, <1>6, RevealedHolds

LEMMA RevealPathHolds == ASSUME NEW p, Good(p), NEW then, Waits(then) PROVE Good(revealPath(p, then))
BY AfterRevealHolds, RevealFromHolds DEF revealPath

LEMMA RevealArrivesHolds ==
    ASSUME NEW p, Good(p), NEW r, Waits(r.then.next), NEW ok \in BOOLEAN
    PROVE  Good(RevealArrives(p, r, ok))
<1> DEFINE q == [p EXCEPT !.cached = @ \cup {r.then.hash}]
<1>1. RevealArrives(p, r, ok) = IF ~ok THEN Revealed(p, r.then.next)
                                ELSE IF r.gen # p.generation THEN AfterReveal(p, <<>>, r.then.next)
                                ELSE RevealFrom(q, r.then.depth, r.then.hash, r.then.next)
  BY DEF RevealArrives
<1>2. Frame(p, q)
  BY FS_AddElement DEF Frame, Good, Core, Made, Parts, Rest
<1> HIDE DEF q
<1>3. Good(q)
  BY <1>2, FrameGood
<1> QED BY <1>1, <1>3, RevealedHolds, AfterRevealHolds, RevealFromHolds

May(then) == then.do \in {"nothing", "file", "external"}

LEMMA ContinueHolds == ASSUME NEW p, Good(p), NEW then, May(then) PROVE Good(Continue(p, then))
BY RevealPathHolds DEF Continue, May, Waits

(* The commit's tree takes the place of the one before.                    *)
LEMMA LoadTreeHolds ==
    ASSUME NEW p, Good(p), NEW c \in Commit, NEW then, May(then)
    PROVE  Good(LoadTree(p, c, then))
<1> DEFINE p1 == IF p.diff.open THEN closeDiff(p) ELSE p
           w == close(p1.viewer["external"])
           closed == [p1 EXCEPT !.viewer["external"] = w]
           half == [closed EXCEPT !.commit = c, !.root = TreeOf[c], !.expanded = {Root}, !.cached = {},
                                  !.selected = NoPath, !.focused = 1]
           q == [half EXCEPT !.filter = NoFilter, !.breadcrumb = Root, !.loading = TRUE, !.mode = "tree",
                             !.external = NoUrl, !.shownUrl = NoUrl]
           r == [Request("root", p.generation, then) EXCEPT !.then = [do |-> "root", tree |-> TreeOf[c], next |-> then]]
<1>1. Core(p1) /\ ~p1.diff.open
  BY CloseDiffHolds DEF Good
<1>2. LoadTree(p, c, then) = Ask(render(q), r)
  BY DEF LoadTree
<1> HIDE DEF p1
<1>3. "external" \in ByUrl /\ "external" \in Viewers /\ ViewerMade(p1.viewer["external"])
  BY <1>1 DEF ByUrl, Viewers, Core, Made
<1>4. ViewerMade(w) /\ w.claim > p1.viewer["external"].claim /\ w.url = NoUrl /\ ~w.visible /\ w.content = Blank
  BY <1>3, ViewerOps DEF ViewerMade
<1> HIDE DEF w
<1>5. /\ closed = [f \in Parts |-> closed[f]] /\ closed.viewer = [p1.viewer EXCEPT !["external"] = w]
      /\ \A f \in Parts \ {"viewer"} : closed[f] = p1[f]
  BY <1>1 DEF Core, Made, Parts
<1> HIDE DEF closed
<1>6. /\ OnViewer(p1, q, "external", w) /\ q.commit = c /\ q.root = TreeOf[c] /\ q.cached = {} /\ q.mode = "tree"
      /\ q.shownUrl = NoUrl /\ q.overlay = p1.overlay
  <2>1. /\ half = [f \in Parts |-> half[f]] /\ half.commit = c /\ half.root = TreeOf[c] /\ half.cached = {}
        /\ half.viewer = closed.viewer /\ half.overlay = closed.overlay /\ half.diff = closed.diff
        /\ half.file = closed.file /\ half.drawn = closed.drawn
        /\ half.inflight = closed.inflight /\ half.files = closed.files
    BY <1>5 DEF Parts
  <2> HIDE DEF half
  <2>2. q = [f \in Parts |-> q[f]] /\ q.mode = "tree" /\ q.shownUrl = NoUrl
    BY <2>1 DEF Parts
  <2>3. /\ q.commit = c /\ q.root = TreeOf[c] /\ q.cached = {} /\ q.viewer = closed.viewer
        /\ q.overlay = closed.overlay /\ q.diff = closed.diff /\ q.file = closed.file /\ q.drawn = closed.drawn
        /\ q.inflight = closed.inflight /\ q.files = closed.files
    BY <2>1 DEF Parts
  <2>4. /\ closed.overlay = p1.overlay /\ closed.diff = p1.diff /\ closed.file = p1.file /\ closed.drawn = p1.drawn
        /\ closed.inflight = p1.inflight /\ closed.files = p1.files
    BY <1>5 DEF Parts
  <2> HIDE DEF q
  <2> QED BY <1>5, <2>1, <2>2, <2>3, <2>4 DEF OnViewer
<1>7. r.kind = "root" /\ r.then.next = then
  BY DEF Request
<1> HIDE DEF q, r
<1>8. q.viewer["external"] = w /\ q.viewer["staging"] = p1.viewer["staging"] /\ q.diff = p1.diff
  BY <1>1, <1>3, <1>4, <1>6, OnViewerMade DEF Core, Viewers
<1>9. ViewerGood(w)
  BY <1>4, Contents DEF ViewerGood
<1>10. \A u \in ByUrl : ViewerGood(q.viewer[u])
  BY <1>1, <1>8, <1>9 DEF Core, ViewersGood, ByUrl
<1>11. ViewersGood(q) /\ DiffGood(q) /\ Trees(q)
  BY <1>1, <1>4, <1>6, <1>8, <1>10, FS_EmptySet DEF Core, ViewersGood, DiffGood, Trees
<1>12. Good(render(q))
  BY <1>1, <1>3, <1>4, <1>6, <1>11, UrlViewer, RenderHolds
<1>13. Flies(render(q), r)
  BY <1>7 DEF Flies, May
<1> QED BY <1>2, <1>12, <1>13, AskHolds DEF Good

LEMMA OpenCommitHolds ==
    ASSUME NEW p, Good(p), NEW c \in Commit, NEW known \in BOOLEAN, NEW then, May(then)
    PROVE  Good(openCommit(p, c, known, then))
<1> DEFINE q == [p EXCEPT !.generation = @ + 1]
           r == [Request("hydrate", q.generation, then) EXCEPT !.then = [do |-> "hydrate", commit |-> c, next |-> then]]
<1>1. openCommit(p, c, known, then) = IF known THEN LoadTree(q, c, then) ELSE Ask(q, r)
  BY DEF openCommit
<1>2. Frame(p, q)
  BY DEF Frame, Good, Core, Made, Parts, Rest
<1>3. r.kind = "hydrate" /\ r.then.commit = c /\ r.then.next = then
  BY DEF Request
<1> HIDE DEF q, r
<1>4. Good(q)
  BY <1>2, FrameGood
<1>5. Flies(q, r)
  BY <1>3 DEF Flies, May
<1>6. Good(Ask(q, r))
  BY <1>4, <1>5, AskHolds DEF Good
<1> QED BY <1>1, <1>4, <1>6, LoadTreeHolds

LEMMA OpenHeadHolds ==
    ASSUME NEW p, Good(p), NEW inGraph \in BOOLEAN, NEW known \in BOOLEAN, NEW then, Waits(then)
    PROVE  Good(openHead(p, inGraph, known, then))
<1>1. HeadCommit \in Commit /\ May(then)
  BY ExplorerAssumption DEF May, Waits
<1> QED BY <1>1, OpenCommitHolds, RevealPathHolds DEF openHead

LEMMA CommitArrivesHolds ==
    ASSUME NEW p, Good(p), NEW r, r.then.commit \in Commit, May(r.then.next), NEW ok \in BOOLEAN
    PROVE  Good(CommitArrives(p, r, ok))
BY LoadTreeHolds, ContinueHolds DEF CommitArrives

LEMMA RootArrivesHolds ==
    ASSUME NEW p, Good(p), NEW r, May(r.then.next), NEW ok \in BOOLEAN
    PROVE  Good(RootArrives(p, r, ok))
<1> DEFINE got == [p EXCEPT !.cached = @ \cup {r.then.tree}, !.loading = FALSE]
           failed == [p EXCEPT !.loading = FALSE]
<1>1. RootArrives(p, r, ok) = IF ok THEN IF r.gen # p.generation THEN Continue(p, r.then.next)
                                         ELSE Continue(render(got), r.then.next)
                              ELSE Continue(render(failed), r.then.next)
  BY DEF RootArrives
<1>2. Frame(p, got) /\ Frame(p, failed)
  BY FS_AddElement DEF Frame, Good, Core, Made, Parts, Rest
<1> HIDE DEF got, failed
<1>3. Good(render(got)) /\ Good(render(failed))
  BY <1>2, FrameGood, RenderHolds DEF Good
<1> QED BY <1>1, <1>3, ContinueHolds

-----------------------------------------------------------------------------
(* The other answers.                                                      *)

LEMMA ListArrivesHolds ==
    ASSUME NEW p, Good(p), NEW r, r.kind = "list", Flies(p, r), NEW ok \in BOOLEAN
    PROVE  Good(ListArrives(p, r, ok))
<1>1. CASE r.gen # p.diff.generation
  BY <1>1 DEF ListArrives
<1>2. CASE r.gen = p.diff.generation
  <2> DEFINE files == IF ok THEN r.then.commit ELSE "failed"
             d == [p.diff EXCEPT !.files = files, !.loading = FALSE]
             q == [p EXCEPT !.diff = d]
  <2>1. ListArrives(p, r, ok) = q
    BY <1>2 DEF ListArrives, Good, Core, Made, Parts
  <2>2. /\ DiffMade(d) /\ d.open = p.diff.open /\ d.commit = p.diff.commit /\ d.generation = p.diff.generation
        /\ d.files = files
    BY DEF Good, Core, Made, DiffMade, DiffParts
  <2>3. p.diff.open => p.diff.commit = p.commit /\ files \in {p.commit, "failed"}
    BY <1>2 DEF Good, Core, DiffGood, Flies
  <2> HIDE DEF d, files
  <2>4. /\ q = [f \in Parts |-> q[f]] /\ q.diff = d /\ q.commit = p.commit /\ q.mode = p.mode /\ q.drawn = p.drawn
        /\ (\A f \in Parts \ (Rest \cup {"diff", "viewer"}) : q[f] = p[f])
        /\ q.viewer = p.viewer /\ IsFiniteSet(q.cached)
    BY DEF Good, Core, Made, Parts, Rest, Trees
  <2> HIDE DEF q
  <2>5. DiffGood(q)
    BY <2>2, <2>3, <2>4 DEF DiffGood
  <2>6. Core(q)
    BY <2>2, <2>4, <2>5, DiffSet DEF Good
  <2> QED BY <2>1, <2>2, <2>4, <2>6 DEF Good, Screen
<1> QED BY <1>1, <1>2

(* The viewer of the commit diff takes a new number.                       *)
LEMMA CommitViewer ==
    ASSUME NEW p, Good(p), NEW w, ViewerMade(w), w.claim >= p.viewer["commit"].claim
    PROVE  LET q == [p EXCEPT !.viewer = [p.viewer EXCEPT !["commit"] = w]]
           IN  Good(q) /\ q.viewer["commit"] = w
<1> DEFINE z == [p.viewer EXCEPT !["commit"] = w]
           q == [p EXCEPT !.viewer = z]
<1>1. "commit" \in Viewers /\ z["commit"] = w
  <2>1. "commit" \in Viewers /\ Made(p)
    BY DEF Viewers, Good, Core
  <2>2. [p.viewer EXCEPT !["commit"] = w]["commit"] = w
    BY <2>1, ViewerSet
  <2> QED BY <2>1, <2>2
<1>2. z = [p.viewer EXCEPT !["commit"] = w]
  OBVIOUS
<1> HIDE DEF z
<1>3. /\ q = [f \in Parts |-> q[f]] /\ q.diff = p.diff /\ q.commit = p.commit /\ q.mode = p.mode /\ q.drawn = p.drawn
      /\ (\A f \in Parts \ (Rest \cup {"diff", "viewer"}) : q[f] = p[f])
      /\ q.viewer = z /\ IsFiniteSet(q.cached)
  BY DEF Good, Core, Made, Parts, Rest, Trees
<1> HIDE DEF q
<1>4. DiffGood(q) /\ DiffMade(q.diff)
  BY <1>3 DEF DiffGood, Good, Core, Made
<1>5. Core(q)
  <2>1. \E u : ViewerMade(u) /\ u.claim >= p.viewer["commit"].claim /\ q.viewer = [p.viewer EXCEPT !["commit"] = u]
    BY <1>2, <1>3
  <2> QED BY <1>3, <1>4, <2>1, DiffSet DEF Good
<1>6. Good(q) /\ q.viewer["commit"] = w
  BY <1>1, <1>3, <1>5 DEF Good, Screen
<1> QED BY <1>6 DEF q, z

LEMMA FileDiffArrivesHolds ==
    ASSUME NEW p, Good(p), NEW r, NEW ok \in BOOLEAN
    PROVE  Good(FileDiffArrives(p, r, ok))
<1> DEFINE y == p.viewer["commit"]
           w == claimRenderRequest(y)
           u == showRetryError(y, r.then.of[2])
           q == [p EXCEPT !.viewer = [p.viewer EXCEPT !["commit"] = w]]
           s == [p EXCEPT !.viewer = [p.viewer EXCEPT !["commit"] = u]]
           paint == [Request("paint", y.claim + 1, NoThen) EXCEPT
                       !.then = [do |-> "commit", of |-> r.then.of, context |-> DefaultContext]]
<1>1. FileDiffArrives(p, r, ok) = IF r.gen # p.diff.generation THEN p ELSE IF ok THEN Ask(q, paint) ELSE s
  BY DEF FileDiffArrives, Good, Core, Made, Parts
<1>2. ViewerMade(y) /\ y.claim \in Nat
  BY DEF Good, Core, Made, Viewers, ViewerMade
<1>3. ViewerMade(w) /\ w.claim = y.claim + 1 /\ ViewerMade(u) /\ u.claim = y.claim + 1
  BY <1>2, ViewerOps
<1>4. paint.kind = "paint" /\ paint.gen = y.claim + 1 /\ paint.then.do = "commit"
  BY DEF Request
<1> HIDE DEF w, u, paint
<1>5. Good(q) /\ q.viewer["commit"] = w /\ Good(s)
  BY <1>2, <1>3, CommitViewer
<1> HIDE DEF q, s
<1>6. Flies(q, paint)
  BY <1>2, <1>3, <1>4, <1>5 DEF Flies, Viewers, ByUrl
<1>7. Good(Ask(q, paint))
  BY <1>5, <1>6, AskHolds DEF Good
<1> QED BY <1>1, <1>5, <1>7

LEMMA DiffArrivesHolds ==
    ASSUME NEW p, Good(p), NEW r, r.kind \in {"diff", "paint"}, Flies(p, r), NEW ok \in BOOLEAN
    PROVE  Good(DiffArrives(p, r, ok))
<1> DEFINE v == r.then.do
           content == CASE ok -> Diff(r.then.of, r.then.context)
                        [] ~ok /\ r.then.context = DefaultContext -> Failed(r.then.of)
                        [] OTHER -> Broken
           y == p.viewer[v]
           w == PaintAnswer(y, r.gen, content)
           q == [p EXCEPT !.viewer = [p.viewer EXCEPT ![v] = w]]
<1>1. /\ v \in Viewers /\ r.gen \in Nat
      /\ v \in ByUrl /\ r.gen = y.claim => y.url # NoUrl /\ r.then.of = y.url /\ r.then.context = y.context
  BY DEF Flies
<1>2. DiffArrives(p, r, ok) = q
  BY <1>1 DEF DiffArrives, Good, Core, Made, Parts
<1>3. content.what = "diff" => content = Diff(r.then.of, r.then.context)
  BY Contents
<1>4. ViewerMade(y)
  BY <1>1 DEF Good, Core, Made
<1> HIDE DEF content
<1>5. /\ ViewerMade(w) /\ w.claim = y.claim /\ w.url = y.url /\ w.context = y.context
      /\ y.claim = r.gen => w.content = content
      /\ y.claim # r.gen => w = y
  BY <1>4, PaintHolds
<1> HIDE DEF w
<1>6. v \in ByUrl => ViewerGood(w)
  <2> SUFFICES ASSUME v \in ByUrl PROVE ViewerGood(w)
    OBVIOUS
  <2>1. ViewerGood(y)
    BY DEF Good, Core, ViewersGood
  <2> HIDE DEF v, y
  <2> QED BY <1>1, <1>3, <1>5, <2>1 DEF ViewerGood
<1>7. /\ q = [f \in Parts |-> q[f]] /\ q.viewer = [p.viewer EXCEPT ![v] = w] /\ q.mode = p.mode /\ q.shownUrl = p.shownUrl
      /\ q.overlay = p.overlay /\ q.commit = p.commit /\ q.root = p.root /\ q.cached = p.cached
      /\ q.diff = p.diff /\ q.file = p.file /\ q.drawn = p.drawn /\ q.inflight = p.inflight /\ q.files = p.files
  BY DEF Good, Core, Made, Parts
<1> HIDE DEF q, v
<1>8. OnViewer(p, q, v, w)
  BY <1>7 DEF OnViewer
<1>9. Made(q) /\ q.viewer[v] = w /\ \A x \in Viewers \ {v} : q.viewer[x] = p.viewer[x]
  BY <1>1, <1>5, <1>8, OnViewerMade DEF Good, Core
<1>10. \A x \in ByUrl : /\ ViewerGood(q.viewer[x]) /\ q.viewer[x].url = p.viewer[x].url
                        /\ q.viewer[x].claim = p.viewer[x].claim /\ q.viewer[x].context = p.viewer[x].context
  BY <1>1, <1>5, <1>6, <1>9 DEF Good, Core, ViewersGood, Viewers, ByUrl
<1>11. DiffGood(q) /\ FileGood(q) /\ Trees(q)
  BY <1>7 DEF Good, Core, DiffGood, FileGood, Trees
<1>12. ViewersGood(q)
  BY <1>7, <1>10 DEF Good, Core, ViewersGood, ByUrl
<1>13. q.viewer["commit"].claim = p.viewer["commit"].claim /\ p.viewer["commit"].claim \in Nat
  BY <1>5, <1>9 DEF Good, Core, Made, ViewerMade, Viewers
<1>14. Later(p, q)
  BY <1>7, <1>10, <1>13 DEF Later
<1>15. Core(q)
  BY <1>7, <1>9, <1>11, <1>12, <1>14, LaterCore DEF Good, Core
<1> QED BY <1>2, <1>7, <1>15 DEF Good, Screen

LEMMA BlobArrivesHolds ==
    ASSUME NEW p, Good(p), NEW r, r.kind = "blob", Flies(p, r), NEW ok \in BOOLEAN
    PROVE  Good(BlobArrives(p, r, ok))
<1> DEFINE content == IF ok THEN [what |-> "blob", of |-> r.then.of] ELSE Failed(r.then.of)
           e == [p.file EXCEPT !.content = content]
<1>1. BlobArrives(p, r, ok) = IF r.gen # p.file.claim THEN p ELSE [p EXCEPT !.file = e]
  BY DEF BlobArrives, Good, Core, Made, Parts
<1>2. r.gen = p.file.claim => r.then.of = p.file.opened
  BY DEF Flies
<1>3. content.what = "blob" => content.of = r.then.of
  BY Contents
<1> HIDE DEF content
<1>4. FileMade(e) /\ e.claim = p.file.claim /\ e.opened = p.file.opened /\ e.content = content
  BY DEF Good, Core, Made, FileMade, FileParts
<1> HIDE DEF e
<1> QED BY <1>1, <1>2, <1>3, <1>4, FileSet

LEMMA ArrivesHolds ==
    ASSUME NEW p, Good(p), NEW r, Flies(p, r), r.kind # "launch", NEW ok \in BOOLEAN
    PROVE  Good(Arrives(p, r, ok))
<1>1. r.kind \in {"hydrate", "root", "dir", "reveal", "list", "filediff", "diff", "paint", "blob"}
  BY DEF Flies
<1>2. CASE r.kind = "hydrate"
  BY <1>2, CommitArrivesHolds DEF Arrives, Flies, May
<1>3. CASE r.kind = "root"
  BY <1>3, RootArrivesHolds DEF Arrives, Flies, May
<1>4. CASE r.kind = "dir"
  BY <1>4, DirArrivesHolds DEF Arrives
<1>5. CASE r.kind = "reveal"
  BY <1>5, RevealArrivesHolds DEF Arrives, Flies, Waits
<1>6. CASE r.kind = "list"
  BY <1>6, ListArrivesHolds DEF Arrives
<1>7. CASE r.kind = "filediff"
  BY <1>7, FileDiffArrivesHolds DEF Arrives
<1>8. CASE r.kind \in {"diff", "paint"}
  BY <1>8, DiffArrivesHolds DEF Arrives
<1>9. CASE r.kind = "blob"
  BY <1>9, BlobArrivesHolds DEF Arrives
<1> QED BY <1>1, <1>2, <1>3, <1>4, <1>5, <1>6, <1>7, <1>8, <1>9

-----------------------------------------------------------------------------
(* The viewers that fetch by URL, and the staging view.                    *)

LEMMA UrlStep ==
    ASSUME NEW p, NEW q, Good(p), NEW v \in ByUrl, NEW w, ViewerMade(w), ViewerGood(w), w.claim > p.viewer[v].claim,
           OnViewer(p, q, v, w), \A f \in {"commit", "root", "cached", "mode", "shownUrl"} : q[f] = p[f],
           v = "external" => w.url = p.shownUrl /\ q.overlay = p.overlay,
           v = "staging" => w.url = q.overlay
    PROVE  Good(q) /\ q.viewer[v] = w
<1>1. v \in Viewers /\ Made(p)
  BY DEF ByUrl, Viewers, Good, Core
<1>2. /\ Made(q) /\ q.viewer[v] = w /\ (\A u \in Viewers \ {v} : q.viewer[u] = p.viewer[u])
      /\ q.diff = p.diff /\ q.file = p.file /\ q.drawn = p.drawn
      /\ q.inflight = p.inflight /\ q.files = p.files
  BY <1>1, OnViewerMade
<1>3. /\ q.commit = p.commit /\ q.root = p.root /\ q.cached = p.cached /\ q.mode = p.mode /\ q.shownUrl = p.shownUrl
  OBVIOUS
<1>4. \A u \in ByUrl : ViewerGood(q.viewer[u])
  BY <1>2 DEF Good, Core, ViewersGood, ByUrl, Viewers
<1>5. q.viewer["external"].url = q.shownUrl /\ q.viewer["staging"].url = q.overlay
  <2>1. CASE v = "external"
    <3>1. "staging" \in Viewers \ {v}
      BY <2>1 DEF Viewers
    <3> QED BY <1>2, <1>3, <2>1, <3>1 DEF Good, Core, ViewersGood
  <2>2. CASE v = "staging"
    <3>1. "external" \in Viewers \ {v}
      BY <2>2 DEF Viewers
    <3> QED BY <1>2, <1>3, <2>2, <3>1 DEF Good, Core, ViewersGood
  <2> QED BY <2>1, <2>2 DEF ByUrl
<1>6. ViewersGood(q) /\ DiffGood(q) /\ Trees(q)
  BY <1>2, <1>3, <1>4, <1>5 DEF Good, Core, ViewersGood, DiffGood, Trees
<1>7. Core(q)
  BY <1>6, UrlViewer DEF Good
<1> QED BY <1>2, <1>3, <1>7 DEF Good, Screen

LEMMA Fetched ==
    ASSUME NEW p, Good(p), NEW v \in ByUrl, p.viewer[v].url # NoUrl
    PROVE  Good(FetchDiff(p, v))
BY FetchHolds DEF Good

(* More context, or another try.                                           *)
LEMMA AgainHolds ==
    ASSUME NEW p, Good(p), NEW v \in ByUrl, p.viewer[v].url # NoUrl
    PROVE  /\ Good(FetchDiff([p EXCEPT !.viewer[v] = expandContext(@)], v))
           /\ Good(FetchDiff([p EXCEPT !.viewer[v] = showFromUrl(@, @.url)], v))
<1> DEFINE y == p.viewer[v]
<1>1. v \in Viewers /\ ViewerMade(y) /\ y.claim \in Nat
  BY DEF ByUrl, Viewers, Good, Core, Made, ViewerMade
<1>2. ASSUME NEW w, ViewerMade(w), w.claim = y.claim + 1, w.url = y.url, w.content = Spinner
      PROVE  Good(FetchDiff([p EXCEPT !.viewer = [p.viewer EXCEPT ![v] = w]], v))
  <2> DEFINE q == [p EXCEPT !.viewer = [p.viewer EXCEPT ![v] = w]]
  <2>1. /\ OnViewer(p, q, v, w) /\ q.overlay = p.overlay
        /\ \A f \in {"commit", "root", "cached", "mode", "shownUrl"} : q[f] = p[f]
    BY DEF OnViewer, Good, Core, Made, Parts
  <2> HIDE DEF q
  <2>2. w.claim > y.claim
    BY <1>1, <1>2
  <2>3. ViewerGood(w)
    BY <1>2, Contents DEF ViewerGood
  <2>4. /\ v = "external" => w.url = p.shownUrl /\ q.overlay = p.overlay
        /\ v = "staging" => w.url = q.overlay
    BY <1>2, <2>1 DEF Good, Core, ViewersGood
  <2>5. Good(q) /\ q.viewer[v] = w
    BY <1>2, <2>1, <2>2, <2>3, <2>4, UrlStep
  <2>6. Good(FetchDiff(q, v))
    BY <1>2, <2>5, Fetched
  <2> QED BY <2>6 DEF q
<1>3. /\ ViewerMade(expandContext(y)) /\ expandContext(y).claim = y.claim + 1
      /\ expandContext(y).url = y.url /\ expandContext(y).content = Spinner
      /\ ViewerMade(showFromUrl(y, y.url)) /\ showFromUrl(y, y.url).claim = y.claim + 1
      /\ showFromUrl(y, y.url).url = y.url /\ showFromUrl(y, y.url).content = Spinner
  BY <1>1, ViewerOps
<1>4. /\ [p EXCEPT !.viewer[v] = expandContext(@)] = [p EXCEPT !.viewer = [p.viewer EXCEPT ![v] = expandContext(y)]]
      /\ [p EXCEPT !.viewer[v] = showFromUrl(@, @.url)] = [p EXCEPT !.viewer = [p.viewer EXCEPT ![v] = showFromUrl(y, y.url)]]
  OBVIOUS
<1> HIDE DEF y
<1> QED BY <1>2, <1>3, <1>4

LEMMA ShowDiffHolds ==
    ASSUME NEW p, Good(p), NEW source, NEW path, <<source, path>> # NoUrl
    PROVE  Good(showDiffForFile(p, source, path))
<1> DEFINE url == <<source, path>>
           y == p.viewer["staging"]
           w == showFromUrl(y, url)
           q == [p EXCEPT !.overlay = url, !.viewer = [p.viewer EXCEPT !["staging"] = w]]
<1>1. "staging" \in ByUrl /\ ViewerMade(y) /\ y.claim \in Nat
  BY DEF ByUrl, Viewers, Good, Core, Made, ViewerMade
<1>2. ViewerMade(w) /\ w.claim > y.claim /\ w.url = url /\ w.content = Spinner
  <2>1. ViewerMade(w) /\ w.claim = y.claim + 1 /\ w.url = url /\ w.content = Spinner
    BY <1>1, ViewerOps
  <2> HIDE DEF w, y
  <2> QED BY <1>1, <2>1
<1>3. showDiffForFile(p, source, path) = FetchDiff(q, "staging")
  BY DEF showDiffForFile, Good, Core, Made, Parts
<1> HIDE DEF w
<1>4. /\ OnViewer(p, q, "staging", w) /\ q.overlay = url
      /\ \A f \in {"commit", "root", "cached", "mode", "shownUrl"} : q[f] = p[f]
  BY DEF OnViewer, Good, Core, Made, Parts
<1> HIDE DEF q
<1>5. ViewerGood(w)
  BY <1>2, Contents DEF ViewerGood
<1>6. Good(q) /\ q.viewer["staging"] = w
  BY <1>1, <1>2, <1>4, <1>5, UrlStep
<1> QED BY <1>1, <1>2, <1>3, <1>6, Fetched

LEMMA StagingBackHolds == ASSUME NEW p, Good(p) PROVE Good(StagingBack(p))
<1> DEFINE y == p.viewer["staging"]
           w == close(y)
           q == [p EXCEPT !.viewer = [p.viewer EXCEPT !["staging"] = w], !.overlay = NoUrl]
<1>1. "staging" \in ByUrl /\ ViewerMade(y) /\ y.claim \in Nat
  BY DEF ByUrl, Viewers, Good, Core, Made, ViewerMade
<1>2. ViewerMade(w) /\ w.claim > y.claim /\ w.url = NoUrl /\ ~w.visible /\ w.content = Blank
  <2>1. ViewerMade(w) /\ w.claim = y.claim + 1 /\ w.url = NoUrl /\ ~w.visible /\ w.content = Blank
    BY <1>1, ViewerOps
  <2> HIDE DEF w, y
  <2> QED BY <1>1, <2>1
<1>3. StagingBack(p) = q
  BY DEF StagingBack, Good, Core, Made, Parts
<1> HIDE DEF w
<1>4. /\ OnViewer(p, q, "staging", w) /\ q.overlay = NoUrl
      /\ \A f \in {"commit", "root", "cached", "mode", "shownUrl"} : q[f] = p[f]
  BY DEF OnViewer, Good, Core, Made, Parts
<1> HIDE DEF q
<1>5. ViewerGood(w)
  BY <1>2, Contents DEF ViewerGood
<1> QED BY <1>1, <1>2, <1>3, <1>4, <1>5, UrlStep

LEMMA StatusHolds ==
    ASSUME NEW p, Good(p), NEW status \in Statuses
    PROVE  Good(updateStatus(updateWorkingTreeStatus(p, status), status))
<1>1. Good(updateWorkingTreeStatus(p, status))
  <2> DEFINE Category(path) == CASE path \in status.untracked -> "untracked"
                                 [] path \in status.modified \ status.untracked -> "modified"
                                 [] OTHER -> "staged"
             names == [path \in Paths(status) |-> Category(path)]
             q == [p EXCEPT !.status = names]
  <2>1. updateWorkingTreeStatus(p, status) = IF p.commit # NoCommit /\ ~p.loading /\ p.mode = "tree" THEN render(q) ELSE q
    BY DEF updateWorkingTreeStatus
  <2> HIDE DEF names
  <2>2. Frame(p, q)
    BY DEF Frame, Good, Core, Made, Parts, Rest
  <2> HIDE DEF q
  <2> QED BY <2>1, <2>2, FrameGood, RenderHolds DEF Good
<1> DEFINE s == updateWorkingTreeStatus(p, status)
           gone == {x \in Paths(s.files) : Zone(s.files, x) = "staging" /\ x \notin Paths(status)}
           q == [s EXCEPT !.files = status, !.committed = @ \cup gone]
<1>2. updateStatus(s, status) = q
  BY DEF updateStatus
<1> HIDE DEF s, gone
<1>3. /\ q = [f \in Parts |-> q[f]] /\ q.files = status /\ q.viewer = s.viewer /\ q.mode = s.mode /\ q.shownUrl = s.shownUrl
      /\ q.overlay = s.overlay /\ q.commit = s.commit /\ q.root = s.root /\ q.cached = s.cached
      /\ q.diff = s.diff /\ q.file = s.file /\ q.drawn = s.drawn /\ q.inflight = s.inflight
  BY <1>1 DEF Good, Core, Made, Parts, s
<1> HIDE DEF q
<1>4. Good(s)
  BY <1>1 DEF s
<1>5. Made(q) /\ DiffGood(q) /\ ViewersGood(q) /\ FileGood(q) /\ Trees(q)
  BY <1>3, <1>4 DEF Good, Core, Made, DiffGood, ViewersGood, FileGood, Trees
<1>6. \A r : Flies(s, r) => Flies(q, r)
  BY <1>3 DEF Flies
<1>7. Core(q)
  BY <1>3, <1>4, <1>5, <1>6 DEF Good, Core, Flight
<1>8. Good(q)
  BY <1>3, <1>4, <1>7 DEF Good, Screen
<1> QED BY <1>2, <1>8 DEF s

-----------------------------------------------------------------------------
(* The user.                                                               *)

(* A page on which the explorer itself is drawn.                           *)
LEMMA DrewHolds ==
    ASSUME NEW what, Good(page), Drew(what)
    PROVE  /\ what \subseteq {"tree", "skeleton", "diff"} => page.shownUrl = NoUrl
           /\ what = {"tree"} => IsRows(page.drawn.rows, TreeOf[page.commit])
           /\ what = {"diff"} => page.diff.open /\ page.diff.commit = page.commit /\ page.drawn.what = "diff"
<1>1. page.drawn.what \in what /\ ~page.drawn.covered
  BY DEF Drew
<1>2. what \subseteq {"tree", "skeleton", "diff"} => page.drawn.what # "external"
  BY <1>1
<1> QED BY <1>1, <1>2 DEF Good, Core, Screen, ViewersGood, DiffGood

LEMMA LeaveHolds == ASSUME NEW p, Good(p) PROVE Good(LeaveExternal(p))
<1> DEFINE y == p.viewer["external"]
           w == close(y)
           q == [p EXCEPT !.mode = "tree", !.external = NoUrl, !.shownUrl = NoUrl,
                          !.viewer = [p.viewer EXCEPT !["external"] = w]]
<1>1. "external" \in ByUrl /\ "external" \in Viewers /\ ViewerMade(y) /\ y.claim \in Nat /\ Made(p)
  BY DEF ByUrl, Viewers, Good, Core, Made, ViewerMade
<1>2. ViewerMade(w) /\ w.claim > y.claim /\ w.url = NoUrl /\ ~w.visible /\ w.content = Blank
  <2>1. ViewerMade(w) /\ w.claim = y.claim + 1 /\ w.url = NoUrl /\ ~w.visible /\ w.content = Blank
    BY <1>1, ViewerOps
  <2> HIDE DEF w, y
  <2> QED BY <1>1, <2>1
<1>3. LeaveExternal(p) = render(q)
  BY DEF LeaveExternal, Good, Core, Made, Parts
<1> HIDE DEF w
<1>4. /\ OnViewer(p, q, "external", w) /\ q.overlay = p.overlay /\ q.mode = "tree" /\ q.shownUrl = NoUrl
      /\ q.commit = p.commit /\ q.root = p.root /\ q.cached = p.cached
  BY DEF OnViewer, Good, Core, Made, Parts
<1> HIDE DEF q
<1>5. q.viewer["external"] = w /\ q.viewer["staging"] = p.viewer["staging"] /\ q.diff = p.diff
  BY <1>1, <1>2, <1>4, OnViewerMade DEF Viewers
<1>6. ViewerGood(w)
  BY <1>2, Contents DEF ViewerGood
<1>7. \A u \in ByUrl : ViewerGood(q.viewer[u])
  BY <1>5, <1>6 DEF Good, Core, ViewersGood, ByUrl
<1>8. ViewersGood(q) /\ DiffGood(q) /\ Trees(q)
  BY <1>2, <1>4, <1>5, <1>7 DEF Good, Core, ViewersGood, DiffGood, Trees
<1>9. Core(q)
  BY <1>1, <1>2, <1>4, <1>8, UrlViewer DEF Good
<1> QED BY <1>3, <1>9, RenderHolds

LEMMA KeyHolds ==
    ASSUME Good(page), Drew({"tree"}),
           NEW key \in {"down", "up", "home", "end", "right", "left", "enter", "star"}
    PROVE  Good(handleKeyDown(key))
<1> DEFINE rows == page.drawn.rows
           row == rows[page.focused]
           open == row.path \in page.expanded
           Focus(i) == [page EXCEPT !.focused = i]
           parents == {i \in DOMAIN rows : rows[i].path = Parent(row.path)}
<1>1. \A i : Good(Focus(i))
  <2> SUFFICES ASSUME NEW i PROVE Good(Focus(i))
    OBVIOUS
  <2>1. Frame(page, Focus(i))
    BY DEF Frame, Good, Core, Made, Parts, Rest
  <2> HIDE DEF Focus
  <2> QED BY <2>1, FrameGood
<1>2. IsRows(rows, TreeOf[page.commit])
  BY DrewHolds
<1>3. Good(handleDirClick(page, row)) /\ Good(handleFileClick(page, row)) /\ Good(expandSiblings(page, row, rows))
  BY <1>2, DirClickHolds, FileClickHolds, SiblingsHold
<1>4. \/ \E i : handleKeyDown(key) = Focus(i)
      \/ handleKeyDown(key) \in {page, handleDirClick(page, row), handleFileClick(page, row), expandSiblings(page, row, rows)}
  <2>1. CASE key \in {"down", "up", "home", "end"}
    BY <2>1 DEF handleKeyDown
  <2>2. CASE key = "right"
    BY <2>2 DEF handleKeyDown
  <2>3. CASE key = "left"
    BY <2>3 DEF handleKeyDown
  <2>4. CASE key \in {"enter", "star"}
    BY <2>4 DEF handleKeyDown
  <2> QED BY <2>1, <2>2, <2>3, <2>4
<1> HIDE DEF Focus
<1> QED BY <1>1, <1>3, <1>4

LEMMA TreeStepsHold == ASSUME Good(page), TreeSteps PROVE Good(page')
<1>1. CASE ClickRow
  <2>1. PICK i \in DOMAIN page.drawn.rows :
          LET row == page.drawn.rows[i]
              p == [page EXCEPT !.focused = i]
          IN page' = IF row.dir THEN handleDirClick(p, row) ELSE handleFileClick(p, row)
    BY <1>1 DEF ClickRow
  <2> DEFINE p == [page EXCEPT !.focused = i]
  <2>2. Frame(page, p)
    BY DEF Frame, Good, Core, Made, Parts, Rest
  <2>3. page' = IF page.drawn.rows[i].dir THEN handleDirClick(p, page.drawn.rows[i]) ELSE handleFileClick(p, page.drawn.rows[i])
    BY <2>1
  <2> HIDE DEF p
  <2> QED BY <2>2, <2>3, FrameGood, DirClickHolds, FileClickHolds
<1>2. CASE PressKey
  BY <1>2, KeyHolds DEF PressKey
<1>3. CASE CollapseAll \/ ExpandAll
  BY <1>3, ToolbarHolds DEF CollapseAll, ExpandAll
<1>4. CASE TypeFilter
  <2>1. PICK text \in Filters : page' = [page EXCEPT !.typed = text, !.typing = TRUE]
    BY <1>4 DEF TypeFilter
  <2>2. Frame(page, page')
    BY <2>1 DEF Frame, Good, Core, Made, Parts, Rest
  <2> QED BY <2>2, FrameGood
<1>5. CASE FilterTimer \/ ClearFilter
  <2> DEFINE p == [page EXCEPT !.typing = FALSE, !.filter = page.typed, !.focused = 1]
             q == [page EXCEPT !.filter = NoFilter, !.focused = 1]
  <2>1. page' \in {render(p), render(q)}
    BY <1>5 DEF FilterTimer, ClearFilter
  <2>2. Frame(page, p) /\ Frame(page, q)
    BY DEF Frame, Good, Core, Made, Parts, Rest
  <2> HIDE DEF p, q
  <2> QED BY <2>1, <2>2, FrameGood, RenderHolds DEF Good
<1>6. CASE ClickBreadcrumb
  <2>1. PICK n \in 0..Len(page.breadcrumb) - 1 :
          LET q == render([page EXCEPT !.breadcrumb = SubSeq(@, 1, n)])
          IN page' = IF n = 0 THEN q ELSE FocusOn(q, SubSeq(page.breadcrumb, 1, n))
    BY <1>6 DEF ClickBreadcrumb
  <2> DEFINE p == [page EXCEPT !.breadcrumb = SubSeq(@, 1, n)]
  <2>2. Frame(page, p)
    BY DEF Frame, Good, Core, Made, Parts, Rest
  <2>3. page' \in {render(p), FocusOn(render(p), SubSeq(page.breadcrumb, 1, n))}
    BY <2>1
  <2> HIDE DEF p
  <2> QED BY <2>2, <2>3, FrameGood, RenderHolds, FocusHolds DEF Good
<1>7. CASE BackFromFile
  <2> DEFINE p == [page EXCEPT !.selected = NoPath, !.breadcrumb = Root]
  <2>1. page' = render(closeFile(p))
    BY <1>7 DEF BackFromFile
  <2>2. Frame(page, p)
    BY DEF Frame, Good, Core, Made, Parts, Rest
  <2> HIDE DEF p
  <2> QED BY <2>1, <2>2, FrameGood, CloseFileHolds, RenderHolds DEF Good
<1>8. CASE RetryFile
  BY <1>8, OpenFileHolds DEF RetryFile
<1> QED BY <1>1, <1>2, <1>3, <1>4, <1>5, <1>6, <1>7, <1>8 DEF TreeSteps

LEMMA DiffsHold == ASSUME Good(page), Diffs PROVE Good(page')
<1>1. CASE ToggleDiff
  <2> DEFINE q == [page EXCEPT !.mode = "diff"]
  <2>1. page' = render(q)
    BY <1>1 DEF ToggleDiff
  <2>2. page.shownUrl = NoUrl
    BY <1>1, DrewHolds DEF ToggleDiff
  <2>3. /\ q = [f \in Parts |-> q[f]] /\ (\A f \in Parts \ (Rest \cup {"mode"}) : q[f] = page[f])
        /\ q.cached = page.cached /\ q.mode = "diff"
    BY DEF Good, Core, Made, Parts, Rest
  <2> HIDE DEF q
  <2>4. Core(q)
    BY <2>2, <2>3, ModeCore DEF Good
  <2> QED BY <2>1, <2>4, RenderHolds
<1>2. CASE ToggleTree
  <2>1. CASE Drew({"diff"}) /\ page' = render(closeDiff([page EXCEPT !.mode = "tree"]))
    <3> DEFINE q == [page EXCEPT !.mode = "tree"]
    <3>1. page' = render(closeDiff(q))
      BY <2>1
    <3>2. page.shownUrl = NoUrl
      BY <2>1, DrewHolds
    <3>3. /\ q = [f \in Parts |-> q[f]] /\ (\A f \in Parts \ (Rest \cup {"mode"}) : q[f] = page[f])
          /\ q.cached = page.cached /\ q.mode = "tree"
      BY DEF Good, Core, Made, Parts, Rest
    <3> HIDE DEF q
    <3>4. Core(q)
      BY <3>2, <3>3, ModeCore DEF Good
    <3> QED BY <3>1, <3>4, CloseDiffHolds, RenderHolds
  <2>2. CASE page' = LeaveExternal(page)
    BY <2>2, LeaveHolds
  <2> QED BY <1>2, <2>1, <2>2 DEF ToggleTree
<1>3. CASE ClickDiffFile
  BY <1>3, DiffFileHolds DEF ClickDiffFile
<1>4. CASE BackFromFileDiff
  BY <1>4, DiffFileHolds DEF BackFromFileDiff
<1>5. CASE RetryDiff
  <2>1. CASE Drew({"diff"}) /\ page' = openDiff(page, page.diff.commit)
    <3>1. page.diff.commit = page.commit /\ page.drawn.what = "diff"
      BY <2>1, DrewHolds
    <3> DEFINE q == openDiff(page, page.commit)
    <3>2. page' = q
      BY <2>1, <3>1
    <3>3. Core(q) /\ q.diff.open /\ q.mode = page.mode /\ q.drawn = page.drawn
      BY OpenDiffHolds DEF Good
    <3> HIDE DEF q
    <3> QED BY <3>1, <3>2, <3>3 DEF Good, Screen
  <2>2. CASE page' = handleDiffFileClick(page, page.viewer["commit"].content.of)
    BY <2>2, DiffFileHolds
  <2> QED BY <1>5, <2>1, <2>2 DEF RetryDiff
<1>6. CASE ExpandContext
  <2>1. PICK v \in ByUrl : /\ CanExpand(page.viewer[v])
                           /\ page' = FetchDiff([page EXCEPT !.viewer[v] = expandContext(@)], v)
    BY <1>6 DEF ExpandContext, UrlViewers, ByUrl
  <2>2. page.viewer[v].url # NoUrl
    BY <2>1 DEF CanExpand
  <2> QED BY <2>1, <2>2, AgainHolds
<1>7. CASE RetryUrl
  <2>1. PICK v \in ByUrl : /\ page.viewer[v].content.what = "failed"
                           /\ page' = FetchDiff([page EXCEPT !.viewer[v] = showFromUrl(@, @.url)], v)
    BY <1>7 DEF RetryUrl, UrlViewers, ByUrl
  <2>2. page.viewer[v].url # NoUrl
    BY <2>1, Contents DEF Good, Core, ViewersGood, ViewerGood
  <2> QED BY <2>1, <2>2, AgainHolds
<1> QED BY <1>1, <1>2, <1>3, <1>4, <1>5, <1>6, <1>7 DEF Diffs

LEMMA StagingHolds == ASSUME Good(page), Staging PROVE Good(page')
<1>1. ASSUME NEW path, path \in page.files.staged \/ path \in page.files.modified \cup page.files.untracked
      PROVE  <<"index", path>> # NoUrl /\ <<"working", path>> # NoUrl
  <2>1. page.files \in Statuses \cup {CleanStatus}
    BY DEF Good, Core
  <2>2. page.files \in Statuses
    BY <1>1, <2>1 DEF CleanStatus
  <2> QED BY <1>1, <2>2, NoUrlAssumption
<1>2. CASE ShowStagedDiff
  BY <1>1, <1>2, ShowDiffHolds DEF ShowStagedDiff
<1>3. CASE ShowWorkingDiff
  BY <1>1, <1>3, ShowDiffHolds DEF ShowWorkingDiff
<1>4. CASE BackFromStaging
  BY <1>4, StagingBackHolds DEF BackFromStaging
<1>5. CASE OpenInExplorer
  <2> DEFINE then == ExternalThen(page.overlay[2], page.overlay)
  <2>1. PICK inGraph \in BOOLEAN, known \in BOOLEAN : page' = openHead(page, inGraph, known, then)
    BY <1>5 DEF OpenInExplorer, onOpenInExplorer
  <2>2. Waits(then)
    BY DEF ExternalThen, Waits
  <2> HIDE DEF then
  <2> QED BY <2>1, <2>2, OpenHeadHolds
<1>6. CASE OnStatus
  BY <1>6, StatusHolds DEF OnStatus
<1>7. CASE Prune
  <2>1. PICK old : page' = [page EXCEPT !.committed = @ \ old]
    BY <1>7 DEF Prune
  <2>2. Frame(page, page')
    BY <2>1 DEF Frame, Good, Core, Made, Parts, Rest
  <2> QED BY <2>2, FrameGood
<1> QED BY <1>2, <1>3, <1>4, <1>5, <1>6, <1>7 DEF Staging

-----------------------------------------------------------------------------
(* Every page the program reaches.                                         *)

LEMMA RemoveAtHolds ==
    ASSUME NEW S, NEW s \in Seq(S), NEW i \in DOMAIN s
    PROVE  RemoveAt(s, i) \in Seq(S)
<1>1. i \in 1..Len(s) /\ Len(s) \in Nat
  OBVIOUS
<1>2. SubSeq(s, 1, i - 1) \in Seq(S)
  BY <1>1, SubSeqProperties
<1>3. SubSeq(s, i + 1, Len(s)) \in Seq(S)
  BY <1>1, SubSeqProperties
<1> QED BY <1>2, <1>3 DEF RemoveAt

LEMMA AnsweredHolds ==
    ASSUME Good(page), NEW i \in DOMAIN page.inflight
    PROVE  Good(Answered(i)) /\ Flies(Answered(i), page.inflight[i])
<1> DEFINE r == page.inflight[i]
           rest == RemoveAt(page.inflight, i)
           q == Answered(i)
<1>2. page.inflight \in Seq(ToSet(page.inflight)) /\ r \in ToSet(page.inflight) /\ Flies(page, r)
  BY DEF Good, Core, Flight, ToSet
<1>3. rest \in Seq(ToSet(page.inflight))
  BY <1>2, RemoveAtHolds
<1>4. /\ q = [f \in Parts |-> q[f]] /\ q.inflight = rest /\ q.commit = page.commit /\ q.root = page.root
      /\ q.cached = page.cached /\ q.mode = page.mode /\ q.shownUrl = page.shownUrl /\ q.diff = page.diff
      /\ q.viewer = page.viewer /\ q.file = page.file /\ q.files = page.files /\ q.overlay = page.overlay
      /\ q.drawn = page.drawn
  <2> HIDE DEF rest
  <2>1. q = [page EXCEPT !.inflight = rest]
    BY DEF Answered, rest
  <2> QED BY <2>1 DEF Good, Core, Made, Parts
<1> HIDE DEF q, r, rest
<1>6. rest \in Seq(ToSet(rest)) /\ ToSet(rest) \subseteq ToSet(page.inflight)
  <2>1. DOMAIN rest = 1..Len(rest) /\ Len(rest) \in Nat /\ \A k \in 1..Len(rest) : rest[k] \in ToSet(page.inflight)
    BY <1>3
  <2>2. rest = [k \in 1..Len(rest) |-> rest[k]] /\ \A k \in 1..Len(rest) : rest[k] \in ToSet(rest)
    BY <1>3, <2>1 DEF ToSet
  <2>3. ToSet(rest) \subseteq ToSet(page.inflight)
    <3> SUFFICES ASSUME NEW k \in DOMAIN rest PROVE rest[k] \in ToSet(page.inflight)
      BY DEF ToSet
    <3> QED BY <2>1
  <2> QED BY <2>1, <2>2, <2>3
<1>7. Made(q) /\ DiffGood(q) /\ ViewersGood(q) /\ FileGood(q) /\ Trees(q)
  BY <1>4 DEF Good, Core, Made, DiffGood, ViewersGood, FileGood, Trees
<1>8. \A x : Flies(page, x) => Flies(q, x)
  BY <1>4 DEF Flies
<1>9. Flight(q)
  BY <1>4, <1>6, <1>8 DEF Good, Core, Flight
<1>10. Good(q)
  BY <1>4, <1>7, <1>9 DEF Good, Core, Screen
<1>11. Flies(q, r)
  BY <1>2, <1>8
<1> QED BY <1>10, <1>11 DEF q, r

LEMMA AnswerHolds == ASSUME Good(page), Answer PROVE Good(page')
<1>1. PICK i \in DOMAIN page.inflight, ok \in BOOLEAN :
        page.inflight[i].kind # "launch" /\ page' = Arrives(Answered(i), page.inflight[i], ok)
  BY DEF Answer
<1> QED BY <1>1, AnsweredHolds, ArrivesHolds

LEMMA PermalinkHolds == ASSUME Good(page), PermalinkArrives PROVE Good(page')
<1>1. PICK i \in DOMAIN page.inflight :
        LET r == page.inflight[i]
        IN /\ r.kind = "launch"
           /\ \/ page' = openCommit(Answered(i), r.then.commit, TRUE, r.then.next)
              \/ \E inGraph, known \in BOOLEAN : page' = openHead(Answered(i), inGraph, known, r.then.next)
              \/ r.kind \in Failing /\ page' = Answered(i)
  BY DEF PermalinkArrives
<1> DEFINE r == page.inflight[i]
<1>2. Good(Answered(i)) /\ Flies(Answered(i), r)
  BY AnsweredHolds
<1>3. r.then.commit \in Commit /\ Waits(r.then.next) /\ May(r.then.next)
  BY <1>1, <1>2 DEF Flies, Waits, May
<1>4. \/ page' = openCommit(Answered(i), r.then.commit, TRUE, r.then.next)
      \/ \E inGraph, known \in BOOLEAN : page' = openHead(Answered(i), inGraph, known, r.then.next)
      \/ page' = Answered(i)
  BY <1>1
<1> HIDE DEF r
<1> QED BY <1>2, <1>3, <1>4, OpenCommitHolds, OpenHeadHolds

LEMMA OpensHold == ASSUME Good(page), OpenCommit \/ OpenInitialPath PROVE Good(page')
<1>1. CASE OpenCommit
  <2>1. PICK c \in Commit, known \in BOOLEAN : page' = openCommit(page, c, known, NoThen)
    BY <1>1 DEF OpenCommit
  <2>2. May(NoThen)
    BY DEF NoThen, May
  <2> QED BY <2>1, <2>2, OpenCommitHolds
<1>2. CASE OpenInitialPath
  <2> DEFINE p == [page EXCEPT !.launched = TRUE]
             then == FileThen(Launch)
             r(c) == [Request("launch", p.generation, then) EXCEPT
                        !.then = [do |-> "launch", commit |-> c, next |-> then]]
  <2>1. PICK c \in Permalinks, inGraph \in BOOLEAN, known \in BOOLEAN :
          \/ page' = openHead(p, inGraph, known, then)
          \/ c # NoCommit /\ page' = openCommit(p, c, known, then)
          \/ c # NoCommit /\ page' = Ask(p, r(c))
    BY <1>2 DEF OpenInitialPath
  <2>2. Frame(page, p) /\ May(then) /\ Waits(then)
    BY DEF Frame, Good, Core, Made, Parts, Rest, FileThen, May, Waits
  <2>3. r(c).kind = "launch" /\ r(c).then.commit = c /\ r(c).then.next = then
    BY DEF Request
  <2>4. c # NoCommit => c \in Commit
    BY ExplorerAssumption
  <2> HIDE DEF p, then, r
  <2>5. Good(p)
    BY <2>2, FrameGood
  <2>6. c # NoCommit => Flies(p, r(c))
    BY <2>2, <2>3, <2>4 DEF Flies, Waits
  <2>7. c # NoCommit => Good(Ask(p, r(c)))
    BY <2>5, <2>6, AskHolds DEF Good
  <2> QED BY <2>1, <2>2, <2>4, <2>5, <2>7, OpenHeadHolds, OpenCommitHolds
<1> QED BY <1>1, <1>2

LEMMA StartHolds == ASSUME Init PROVE Good(page)
<1>1. Made(page)
  <2>1. page = [f \in Parts |-> page[f]]
    BY DEF Init, Parts
  <2>2. ViewerMade(NewViewer)
    BY DEF NewViewer, ViewerMade
  <2>3. page.viewer = [v \in Viewers |-> NewViewer]
    BY DEF Init, Viewers
  <2>4. DiffMade(page.diff)
    BY DEF Init, DiffMade, DiffParts
  <2>5. FileMade(page.file)
    BY DEF Init, FileMade, FileParts
  <2>6. DrawnMade(page.drawn)
    BY DEF Init, DrawnMade
  <2> QED BY <2>1, <2>2, <2>3, <2>4, <2>5, <2>6 DEF Made
<1>2. DiffGood(page)
  BY DEF Init, DiffGood
<1>3. ViewersGood(page)
  <2>1. ViewerGood(NewViewer) /\ NewViewer.url = NoUrl
    BY Contents DEF NewViewer, ViewerGood
  <2>2. page.viewer["external"] = NewViewer /\ page.viewer["staging"] = NewViewer
    BY DEF Init
  <2>3. page.mode = "tree" /\ page.shownUrl = NoUrl /\ page.overlay = NoUrl
    BY DEF Init
  <2> QED BY <2>1, <2>2, <2>3 DEF ViewersGood, ByUrl
<1>4. FileGood(page)
  <2>1. page.file.content = Blank
    BY DEF Init
  <2> QED BY <2>1, Contents DEF FileGood
<1>5. Trees(page)
  <2>1. page.commit = NoCommit /\ page.cached = {}
    BY DEF Init
  <2> QED BY <2>1, FS_EmptySet DEF Trees
<1>6. Flight(page)
  <2>1. page.inflight = <<>>
    BY DEF Init
  <2> QED BY <2>1 DEF Flight, ToSet
<1>7. page.files \in Statuses \cup {CleanStatus}
  BY DEF Init
<1>8. Screen(page)
  <2>1. page.drawn.what = "empty" /\ page.mode = "tree"
    BY DEF Init
  <2> QED BY <2>1 DEF Screen
<1> QED BY <1>1, <1>2, <1>3, <1>4, <1>5, <1>6, <1>7, <1>8 DEF Good, Core

(* On every page the views are in order: an open commit diff and the rows  *)
(* drawn are the commit's, a viewer holds what its latest request asked    *)
(* for, and a request in flight that still has the current number asks for *)
(* the current thing.                                                      *)
THEOREM ExplorerInvariant == Spec => []Good(page)
<1>1. Init => Good(page)
  BY StartHolds
<1>2. Good(page) /\ [Next]_vars => Good(page')
  <2> SUFFICES ASSUME Good(page), [Next]_vars PROVE Good(page')
    OBVIOUS
  <2>1. CASE OpenCommit \/ OpenInitialPath
    BY <2>1, OpensHold
  <2>2. CASE Answer \/ PermalinkArrives
    BY <2>2, AnswerHolds, PermalinkHolds
  <2>3. CASE TreeSteps
    BY <2>3, TreeStepsHold
  <2>4. CASE Diffs
    BY <2>4, DiffsHold
  <2>5. CASE Staging
    BY <2>5, StagingHolds
  <2>6. CASE UNCHANGED vars
    BY <2>6 DEF vars
  <2> QED BY <2>1, <2>2, <2>3, <2>4, <2>5, <2>6 DEF Next
<1>3. Good(page') => Good(page)'
  OBVIOUS
<1> QED BY <1>1, <1>2, <1>3, PTL DEF Spec

(* In diff mode the diff view is on the explorer's commit, and a list it   *)
(* shows is that commit's, whatever answers of earlier openings arrive.    *)
THEOREM DiffIsOfCommit == Spec => []DiffOfCommit
<1>1. Good(page) => DiffOfCommit
  BY DEF Good, Core, DiffGood, DiffOfCommit
<1> QED BY <1>1, ExplorerInvariant, PTL

(* A viewer shows what it was asked for last, in the context asked for     *)
(* last, and one that was closed shows nothing.                            *)
THEOREM ViewersShowLatest == Spec => []ViewersShowTheLatest
<1>1. Good(page) => ViewersShowTheLatest
  BY DEF Good, Core, ViewersGood, ViewerGood, FileGood, ByUrl, ViewersShowTheLatest
<1> QED BY <1>1, ExplorerInvariant, PTL

(* A row on the screen names what the commit in the header has at its      *)
(* path, however deep the tree is open and whatever the filter keeps.      *)
THEOREM RowsAreOfCommit == Spec => []RowsOfCommit
<1>1. Good(page) => RowsOfCommit
  <2> SUFFICES ASSUME Good(page), page.drawn.what = "tree", NEW i \in DOMAIN page.drawn.rows
               PROVE  ObjectAt(TreeOf[page.commit], page.drawn.rows[i].path) = page.drawn.rows[i].hash
    BY DEF RowsOfCommit
  <2>1. IsRows(page.drawn.rows, TreeOf[page.commit])
    BY DEF Good, Screen
  <2>2. page.drawn.rows[i] \in ToSet(page.drawn.rows)
    BY DEF ToSet
  <2> QED BY <2>1, <2>2 DEF IsRows
<1> QED BY <1>1, ExplorerInvariant, PTL
===============================================================================
