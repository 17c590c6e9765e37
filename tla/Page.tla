--------------------------------- MODULE Page ---------------------------------
(***************************************************************************)
(* The page around the graph (web/gitvista/app.js): its connection to the  *)
(* server, the repository it calls available or not, and the search box    *)
(* (web/search.js), whose one request runs through the same counted fetch. *)
(* The graph's data stand still here; GraphController has them change.     *)
(***************************************************************************)
EXTENDS Connection, SearchQuery

CONSTANTS Inputs,          \* what the user types: sequences of words
          Suggestions,     \* the qualifiers the dropdown offers
          MaxRecent,       \* MAX_RECENT_SEARCHES
          Indexes,         \* commits whose files an answer may hold
          NoIndex, NoSearch,
          MaxSteps         \* bound of the model: what the user, the network
                           \* and the server's errors may do in all

ASSUME BoxAssumption == MaxRecent \in Nat \ {0} /\ MaxSteps \in Nat
ASSUME InputsAssumption ==
    /\ \A words \in Inputs : words \in Seq(ToSet(words)) /\ \A w \in ToSet(words) : w.dash \in BOOLEAN
    /\ Suggestions \in Seq(ToSet(Suggestions))

VARIABLES conn,      \* the connection and what is said of it
          box,       \* the search box
          shown,     \* the search the graph was given last, or NoSearch
          retrying,  \* the overlay's retry is under way
          used

vars == <<conn, box, shown, retrying, used>>

NewBox == [input |-> <<>>, debounce |-> FALSE, focused |-> FALSE, open |-> FALSE, active |-> 0,
           items |-> <<>>, recent |-> <<>>, index |-> NoIndex, partial |-> FALSE, fetching |-> FALSE,
           badge |-> "hidden", frame |-> FALSE, hint |-> FALSE]

Init == /\ \E made \in BOOLEAN : conn = connect(NewConnection, made) /\ used = IF made THEN 0 ELSE 1
        /\ box = NewBox /\ shown = NoSearch /\ retrying = FALSE

Spend == used < MaxSteps /\ used' = used + 1

----------------------------------------------------------------------------
(* The search box.  A state of it and of the search shown: [box, shown].   *)

(* A search that is already there, once, moves to the front.               *)
saveRecentSearch(b, words) ==
    [b EXCEPT !.recent = LET all == <<words>> \o RemoveFirst(@, words)
                         IN SubSeq(all, 1, IF Len(all) < MaxRecent THEN Len(all) ELSE MaxRecent)]

(* The dropdown lists the qualifiers and the searches it found when it was *)
(* drawn.                                                                  *)
renderDropdown(b) == [b EXCEPT !.items = b.recent, !.active = 0]
openDropdown(b) == IF b.open THEN b ELSE [renderDropdown(b) EXCEPT !.open = TRUE]
closeDropdown(b) == IF b.open THEN [b EXCEPT !.open = FALSE, !.active = 0] ELSE b
focusInput(b) == IF b.focused THEN b ELSE openDropdown([b EXCEPT !.focused = TRUE])

Options(b) == Len(Suggestions) + Len(b.items)
setActiveDescendant(b, i) == [b EXCEPT !.active = IF i > Options(b) THEN Options(b) ELSE i]

KnownFiles(b) == IF b.index = NoIndex THEN {} ELSE b.index

(* onSearch: the graph is given the search, and the badge loses the        *)
(* position it may have shown.                                             *)
onSearch(b, search) ==
    [box |-> [b EXCEPT !.badge = IF b.input = <<>> THEN "hidden" ELSE "count"], shown |-> search]

(* The files of commits are fetched the first time a query asks for them.  *)
executeSearch(b, words) ==
    LET q == parseSearchQuery(words)
        files == NeedsFiles(q)
        hinted == [b EXCEPT !.hint = q.errors > 0]
        asked == [hinted EXCEPT !.partial = @ /\ files, !.frame = TRUE,
                                !.fetching = @ \/ (files /\ b.index = NoIndex)]
        cleared == onSearch(hinted, NoSearch)
    IN IF IsEmpty(q) THEN [cleared EXCEPT !.box.badge = "hidden"]
       ELSE onSearch(saveRecentSearch(asked, words), [words |-> words, kept |-> createSearchMatcher(q, KnownFiles(b))])

onInputChange(b, words) == [b EXCEPT !.input = words, !.debounce = TRUE,
                                     !.badge = IF words = <<>> THEN "hidden" ELSE @]

onClear(b) ==
    LET emptied == [b EXCEPT !.input = <<>>, !.debounce = FALSE, !.hint = FALSE]
        told == onSearch(emptied, NoSearch)
    IN [told EXCEPT !.box = focusInput(closeDropdown(@))]

insertQualifier(b, qualifier) ==
    onInputChange(focusInput(b), Append(b.input, [dash |-> FALSE, key |-> qualifier, value |-> NoValue]))

applyRecentSearch(b, words) == executeSearch(closeDropdown(focusInput([b EXCEPT !.input = words])), words)

activate(b, i) ==
    IF i <= Len(Suggestions) THEN [box |-> insertQualifier(b, Suggestions[i]), shown |-> shown]
    ELSE applyRecentSearch(b, b.items[i - Len(Suggestions)])

(* Enter on an option is a click on it; on the input it files the search.  *)
PressEnter(b) ==
    CASE b.active > 0 -> activate(b, b.active)
      [] b.active = 0 -> [box |-> closeDropdown(IF b.input = <<>> THEN b ELSE saveRecentSearch(b, b.input)), shown |-> shown]

----------------------------------------------------------------------------

Becomes(s) == box' = s.box /\ shown' = s.shown
BoxBecomes(b) == box' = b /\ UNCHANGED shown
Here == ~conn.destroyed
UserOfBox == Here /\ Spend /\ UNCHANGED <<conn, retrying>>

Type == UserOfBox /\ \E words \in Inputs \ {box.input} :
            BoxBecomes([onInputChange(focusInput(box), words) EXCEPT !.active = 0])
Focus == UserOfBox /\ ~box.focused /\ BoxBecomes(focusInput(box))
PointerDownOutside == UserOfBox /\ box.focused /\ BoxBecomes([closeDropdown(box) EXCEPT !.focused = FALSE])
ClearButton == UserOfBox /\ box.input # <<>> /\ Becomes(onClear([box EXCEPT !.focused = FALSE]))
ClickOption == UserOfBox /\ box.open /\ \E i \in 1..Options(box) : Becomes(activate(box, i))

(* n and N in the graph write the position of the result into the badge.   *)
updatePosition == UserOfBox /\ shown # NoSearch /\ shown.kept # {} /\ BoxBecomes([box EXCEPT !.badge = "position"])

onKeyDown ==
    /\ UserOfBox /\ box.focused
    /\ \/ ~box.open /\ BoxBecomes(openDropdown(box))                            \* ArrowDown
       \/ ~box.open /\ BoxBecomes([box EXCEPT !.focused = FALSE])                \* Escape
       \/ box.open /\ BoxBecomes(setActiveDescendant(box, box.active + 1))       \* ArrowDown
       \/ box.open /\ box.active > 0 /\ \E i \in {1, box.active - 1, Options(box)} :
                                          BoxBecomes(setActiveDescendant(box, i)) \* Home, ArrowUp, End
       \/ box.open /\ BoxBecomes(closeDropdown(box))                             \* Escape, Tab
       \/ box.open /\ Becomes(PressEnter(box))                                   \* Enter

DebounceFires == /\ box.debounce
                 /\ Becomes(executeSearch([box EXCEPT !.debounce = FALSE], box.input))
                 /\ UNCHANGED <<conn, retrying, used>>

(* The next frame shows the count, whatever became of the search.          *)
FrameFires == /\ box.frame /\ BoxBecomes([box EXCEPT !.frame = FALSE, !.badge = "count"])
              /\ UNCHANGED <<conn, retrying, used>>

\* Mutant: the files are kept for the next search only.
KeepDiffStats ==
    /\ box.fetching
    /\ \E index \in Indexes : BoxBecomes([box EXCEPT !.index = index, !.fetching = FALSE])
    /\ conn' = Responded(conn) /\ UNCHANGED <<retrying, used>>

(* The answer for the files; either way the input is searched again.  An   *)
(* error leaves the files unknown.                                         *)
DiffStatsArrive ==
    /\ box.fetching
    /\ \E index \in Indexes, complete \in BOOLEAN :
         LET b == [box EXCEPT !.index = index, !.partial = ~complete, !.fetching = FALSE]
         IN Becomes(executeSearch(b, b.input))
    /\ conn' = Responded(conn) /\ UNCHANGED <<retrying, used>>

(* A network error or a status 500 is counted, one that names the          *)
(* repository makes it unavailable at once, another status is not counted. *)
Counted == \/ \E recent \in 0..conn.failures : conn' = trackFailure(conn, recent)
           \/ conn' = setRepositoryAvailable(conn, FALSE)
           \/ UNCHANGED conn

DiffStatsFail ==
    /\ box.fetching /\ Spend
    /\ LET b == [box EXCEPT !.partial = FALSE, !.fetching = FALSE] IN Becomes(executeSearch(b, b.input))
    /\ Counted /\ UNCHANGED retrying

----------------------------------------------------------------------------
(* The connection and the rest of the page.                                *)

Quiet == UNCHANGED <<box, shown, retrying>>

TimerFires == /\ conn.timers > 0 /\ Quiet
              /\ LET c == [conn EXCEPT !.timers = @ - 1]
                 IN \/ conn' = connect(c, TRUE) /\ UNCHANGED used
                    \/ Spend /\ conn' = connect(c, FALSE)

SocketOpens == /\ Quiet /\ UNCHANGED used
               /\ \E i \in DOMAIN conn.sockets : conn.sockets[i] = "connecting" /\ conn' = opened(conn, i)

(* A socket the page closed closes; another one is lost or refused.        *)
SocketCloses == /\ Quiet
                /\ \E i \in DOMAIN conn.sockets :
                     /\ conn' = closed(conn, i)
                     /\ IF conn.sockets[i] = "closing" THEN UNCHANGED used ELSE Spend

(* The server's first message to a socket.                                 *)
OnRepoMetadata == /\ Quiet /\ UNCHANGED used /\ ~conn.greeted
                  /\ \E i \in DOMAIN conn.sockets : conn.sockets[i] = "open"
                  /\ conn' = onRepoMetadata(conn)

(* Some other call of the page returns.                                    *)
OtherCallReturns == /\ Here /\ Quiet
                    /\ \/ conn.failures > 0 /\ conn' = Responded(conn) /\ UNCHANGED used
                       \/ Spend /\ Counted

DismissBanner == /\ Spend /\ Quiet /\ conn.banner \in {"warning", "success"}
                 /\ conn' = [conn EXCEPT !.banner = "hidden", !.dismissed = TRUE]
BannerFades == /\ conn.fading /\ Quiet /\ UNCHANGED used
               /\ conn' = [conn EXCEPT !.fading = FALSE, !.banner = "hidden"]

RetryConnection == /\ Here /\ Spend /\ ~conn.available /\ ~retrying /\ retrying' = TRUE
                   /\ UNCHANGED <<conn, box, shown>>
RetryReturns == /\ retrying /\ retrying' = FALSE /\ UNCHANGED <<box, shown, used>>
                /\ \/ conn' = setRepositoryAvailable(conn, TRUE)
                   \/ UNCHANGED conn

Dispose == /\ Here /\ Spend /\ conn' = destroy(conn)
           /\ BoxBecomes([box EXCEPT !.debounce = FALSE]) /\ UNCHANGED retrying

Search == \/ Type \/ Focus \/ PointerDownOutside \/ ClearButton \/ ClickOption \/ updatePosition \/ onKeyDown
          \/ DebounceFires \/ FrameFires \/ DiffStatsArrive \/ DiffStatsFail
Connected == \/ TimerFires \/ SocketOpens \/ SocketCloses \/ OnRepoMetadata \/ OtherCallReturns
             \/ DismissBanner \/ BannerFades \/ RetryConnection \/ RetryReturns
Next == Search \/ Connected \/ Dispose

Spec == Init /\ [][Next]_vars

(* Timers fire, and a socket opens or fails to.                            *)
FairSpec == Spec /\ WF_vars(TimerFires) /\ WF_vars(SocketOpens)

----------------------------------------------------------------------------
(* Properties.                                                             *)

(* One connection (backend.js:82): a page never holds two sockets, or a    *)
(* socket and a timer that will open another, and one that was disposed of *)
(* is left with nothing but a socket that is closing.                      *)
OneConnection ==
    /\ conn.timers + Len(conn.sockets) <= 1
    /\ conn.destroyed => conn.timers = 0 /\ \A i \in DOMAIN conn.sockets : conn.sockets[i] = "closing"

(* The delay of an attempt, before its limit.                              *)
Doubled[n \in Nat] == IF n = 0 THEN InitialDelay ELSE 2 * Doubled[n - 1]

(* What the page says (app.js, errorState.js): with a socket open the      *)
(* state is "connected" and no attempt counted, while a reconnect waits it *)
(* is "reconnecting", and the delay is that of the attempt.                *)
SaysTheConnection ==
    ~conn.destroyed =>
    /\ \A i \in DOMAIN conn.sockets : conn.sockets[i] = "open" =>
         conn.state = "connected" /\ conn.told = 0 /\ conn.banner # "warning"
    /\ conn.timers > 0 => conn.state = "reconnecting" /\ conn.told = conn.attempt
    /\ conn.delay = IF Doubled[conn.attempt] < MaxDelay THEN Doubled[conn.attempt] ELSE MaxDelay

(* Reconnecting (backend.js:82): a page that is not closed gets connected  *)
(* again and again, whatever was lost.                                     *)
Reconnects == []<>(conn.destroyed \/ \E i \in DOMAIN conn.sockets : conn.sockets[i] = "open")

(* The meaning of the words (searchQuery.js:184, 435), from the words: all *)
(* texts, one value of each qualifier, nothing negated, and the last date, *)
(* merge filter and branch.                                                *)
Meant(words, index, c) ==
    LET Is(i, kind, neg) == words[i].key = kind /\ words[i].value # NoValue /\ Negated(words[i]) = neg
        Has(i) == /\ c \in Holders(words[i].key, words[i].value)
                  /\ words[i].key \in {"file", "path"} => c \in index
        LastOf(at) == words[CHOOSE i \in at : \A j \in at : j <= i]
        dates(k) == {i \in DOMAIN words : Is(i, k, FALSE) /\ words[i].value \in DOMAIN Fits[k]}
        merges == {i \in DOMAIN words : words[i].key = "merge" /\ words[i].value \in {"only", "exclude"}}
        branches == {i \in DOMAIN words : words[i].key = "branch" /\ words[i].value # NoValue}
    IN /\ \A i \in DOMAIN words : words[i].key \notin Known =>
            (c \in Holders("text", TextOf(words[i]))) # Negated(words[i])
       /\ \A i \in DOMAIN words : \A k \in Gathered :
            /\ Is(i, k, FALSE) => \E j \in DOMAIN words : Is(j, k, FALSE) /\ Has(j)
            /\ Is(i, k, TRUE) => ~Has(i)
       /\ \A k \in Dates : dates(k) # {} => c \in Fits[k][LastOf(dates(k)).value]
       /\ merges # {} => (c \in Merges) = ((LastOf(merges).value = "only") # LastOf(merges).dash)
       /\ branches # {} => (c \in Reachable(LastOf(branches).value)) # LastOf(branches).dash

(* Searching (search.js:417): once no change of the input waits, the graph *)
(* shows what the words of the input mean, with the files known by then;   *)
(* and no search when they mean nothing.                                   *)
SearchShowsInput ==
    Here /\ ~box.debounce =>
        shown = IF IsEmpty(parseSearchQuery(box.input)) THEN NoSearch
                ELSE [words |-> box.input, kept |-> {c \in Commit : Meant(box.input, KnownFiles(box), c)}]
===============================================================================
