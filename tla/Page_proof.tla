------------------------------ MODULE Page_proof ------------------------------
(***************************************************************************)
(* The page has one socket or one timer that will open it and says which,  *)
(* and the graph shows what the words of the search box mean, for any      *)
(* delays, thresholds, inputs, answers and number of events.               *)
(***************************************************************************)
EXTENDS Page, TLAPS, SequenceTheorems, WellFoundedInduction

LEMMA FromZeroOn ==
    ASSUME NEW T \in SUBSET Nat, 0 \in T, \A n \in T : n + 1 \in T
    PROVE  \A n \in Nat : n \in T
<1> SUFFICES ASSUME Nat \ T # {} PROVE FALSE
  OBVIOUS
<1>1. PICK n \in Nat \ T : \A m \in Nat \ T : ~(<<m, n>> \in OpToRel(<, Nat))
  BY NatLessThanWellFounded, WFMin, Zenon
<1>2. \A m \in Nat \ T : ~(m < n)
  BY <1>1 DEF OpToRel
<1>3. n # 0 /\ n - 1 \in Nat /\ n - 1 < n
  OBVIOUS
<1>4. n - 1 \in T
  BY <1>2, <1>3
<1>5. (n - 1) + 1 \in T
  BY <1>4
<1> QED BY <1>5

-----------------------------------------------------------------------------
(* Doubled is a recursive function: it exists, as each of its beginnings   *)
(* does and these agree.                                                   *)

IsDoubled(f, n) == f = [k \in 0..n |-> IF k = 0 THEN InitialDelay ELSE 2 * f[k - 1]]

LEMMA DoubledExists == \A n \in Nat : \E f : IsDoubled(f, n)
<1> DEFINE T == {n \in Nat : \E f : IsDoubled(f, n)}
<1>1. 0 \in T
  <2> DEFINE f == [k \in 0..0 |-> InitialDelay]
  <2>1. f = [k \in 0..0 |-> IF k = 0 THEN InitialDelay ELSE 2 * f[k - 1]]
    OBVIOUS
  <2>2. IsDoubled(f, 0)
    BY <2>1 DEF IsDoubled
  <2> QED BY <2>2
<1>2. ASSUME NEW n \in T PROVE n + 1 \in T
  <2>1. PICK f : IsDoubled(f, n)
    BY <1>2
  <2>2. \A k \in 0..n : f[k] = IF k = 0 THEN InitialDelay ELSE 2 * f[k - 1]
    BY <2>1 DEF IsDoubled
  <2> DEFINE h == [k \in 0 .. n + 1 |-> IF k = n + 1 THEN 2 * f[n] ELSE f[k]]
             r == [k \in 0 .. n + 1 |-> IF k = 0 THEN InitialDelay ELSE 2 * h[k - 1]]
  <2>3. ASSUME NEW k \in 0 .. n + 1 PROVE h[k] = r[k]
    <3>1. CASE k = n + 1
      <4>1. h[n] = f[n] /\ (n + 1) - 1 = n /\ n + 1 # 0 /\ n + 1 \in 0 .. n + 1
        OBVIOUS
      <4> QED BY <3>1, <4>1
    <3>2. CASE k = 0
      <4>1. f[0] = InitialDelay /\ 0 # n + 1
        BY <2>2
      <4> QED BY <3>2, <4>1
    <3>3. CASE k # n + 1 /\ k # 0
      <4>1. k \in 0..n /\ k - 1 \in 0 .. n + 1 /\ k - 1 # n + 1
        BY <3>3
      <4>2. h[k - 1] = f[k - 1] /\ h[k] = f[k]
        BY <3>3, <4>1
      <4>3. f[k] = 2 * f[k - 1]
        BY <2>2, <3>3, <4>1
      <4> QED BY <3>3, <4>2, <4>3
    <3> QED BY <3>1, <3>2, <3>3
  <2>4. h = r
    BY <2>3
  <2>5. IsDoubled(h, n + 1)
    <3> HIDE DEF h
    <3> QED BY <2>4 DEF IsDoubled
  <2> QED BY <2>5
<1>3. \A n \in T : n + 1 \in T
  BY <1>2
<1> HIDE DEF T
<1>4. \A n \in Nat : n \in T
  BY <1>1, <1>3, FromZeroOn DEF T
<1> QED BY <1>4 DEF T

LEMMA DoubledAgree ==
    ASSUME NEW m \in Nat, NEW n \in Nat, NEW f, NEW g, IsDoubled(f, m), IsDoubled(g, n)
    PROVE  \A k \in Nat : k <= m /\ k <= n => f[k] = g[k] /\ f[k] \in Nat
<1> DEFINE T == {k \in Nat : k <= m /\ k <= n => f[k] = g[k] /\ f[k] \in Nat}
<1>1. /\ \A k \in 0..m : f[k] = IF k = 0 THEN InitialDelay ELSE 2 * f[k - 1]
      /\ \A k \in 0..n : g[k] = IF k = 0 THEN InitialDelay ELSE 2 * g[k - 1]
  BY DEF IsDoubled
<1>2. 0 \in T
  BY <1>1, DelayAssumption
<1>3. ASSUME NEW k \in T PROVE k + 1 \in T
  <2> SUFFICES ASSUME k + 1 <= m, k + 1 <= n PROVE f[k + 1] = g[k + 1] /\ f[k + 1] \in Nat
    OBVIOUS
  <2>1. k + 1 \in 0..m /\ k + 1 \in 0..n /\ k + 1 # 0 /\ (k + 1) - 1 = k
    OBVIOUS
  <2>2. f[k] = g[k] /\ f[k] \in Nat
    BY <1>3
  <2>3. f[k + 1] = 2 * f[k] /\ g[k + 1] = 2 * g[k]
    BY <1>1, <2>1
  <2> QED BY <2>2, <2>3
<1>4. \A k \in T : k + 1 \in T
  BY <1>3
<1> HIDE DEF T
<1>5. \A k \in Nat : k \in T
  BY <1>2, <1>4, FromZeroOn DEF T
<1> QED BY <1>5 DEF T

LEMMA DoubledHolds ==
    /\ Doubled[0] = InitialDelay
    /\ \A n \in Nat : Doubled[n] \in Nat /\ Doubled[n + 1] = 2 * Doubled[n]
<1> DEFINE part(n) == CHOOSE f : IsDoubled(f, n)
           whole == [n \in Nat |-> part(n)[n]]
           r == [n \in Nat |-> IF n = 0 THEN InitialDelay ELSE 2 * whole[n - 1]]
<1>1. \A n \in Nat : IsDoubled(part(n), n)
  BY DoubledExists
<1> HIDE DEF part
<1>2. \A n \in Nat : \A k \in 0..n : part(n)[k] = IF k = 0 THEN InitialDelay ELSE 2 * part(n)[k - 1]
  BY <1>1 DEF IsDoubled
<1>3. ASSUME NEW n \in Nat PROVE whole[n] = r[n]
  <2>1. CASE n = 0
    BY <1>2, <2>1
  <2>2. CASE n # 0
    <3>1. n - 1 \in Nat /\ n \in 0..n /\ n - 1 <= n
      BY <2>2
    <3>2. part(n)[n - 1] = part(n - 1)[n - 1]
      BY <1>1, <3>1, DoubledAgree
    <3>3. part(n)[n] = 2 * part(n)[n - 1]
      BY <1>2, <2>2, <3>1
    <3> QED BY <2>2, <3>1, <3>2, <3>3
  <2> QED BY <2>1, <2>2
<1>4. whole = r
  BY <1>3
<1> HIDE DEF whole
<1>5. whole = [n \in Nat |-> IF n = 0 THEN InitialDelay ELSE 2 * whole[n - 1]]
  BY <1>4
<1>6. Doubled = [n \in Nat |-> IF n = 0 THEN InitialDelay ELSE 2 * Doubled[n - 1]]
  BY <1>5 DEF Doubled
<1>7. \A n \in Nat : Doubled[n] = IF n = 0 THEN InitialDelay ELSE 2 * Doubled[n - 1]
  BY <1>6
<1>8. Doubled[0] = InitialDelay
  BY <1>7
<1>9. ASSUME NEW n \in Nat PROVE Doubled[n + 1] = 2 * Doubled[n]
  <2>1. n + 1 \in Nat /\ n + 1 # 0 /\ (n + 1) - 1 = n
    OBVIOUS
  <2> QED BY <1>7, <2>1
<1> DEFINE T == {n \in Nat : Doubled[n] \in Nat}
<1>10. 0 \in T /\ \A n \in T : n + 1 \in T
  BY <1>8, <1>9, DelayAssumption
<1> HIDE DEF T
<1>11. \A n \in Nat : n \in T
  BY <1>10, FromZeroOn DEF T
<1> QED BY <1>8, <1>9, <1>11 DEF T

-----------------------------------------------------------------------------
(* The connection.                                                         *)

Sockets == {<<>>, <<"connecting">>, <<"open">>, <<"closing">>}

ConnType ==
    [sockets : Sockets, timers : {0, 1}, delay : Nat, attempt : Nat, destroyed : BOOLEAN,
     state : {"connected", "reconnecting"}, told : Nat, available : BOOLEAN,
     banner : {"hidden", "warning", "success", "gone"}, dismissed : BOOLEAN, wasDown : BOOLEAN,
     fading : BOOLEAN, failures : Nat, greeted : BOOLEAN]

(* One socket or one timer, and little is left when it was disposed of.    *)
Single(c) ==
    /\ c.sockets # <<>> => c.timers = 0
    /\ c.destroyed => c.timers = 0 /\ c.sockets \in {<<>>, <<"closing">>}

DelayOf(n) == IF Doubled[n] < MaxDelay THEN Doubled[n] ELSE MaxDelay

Truthful(c) ==
    ~c.destroyed =>
    /\ c.sockets = <<"open">> => c.state = "connected" /\ c.told = 0 /\ c.banner # "warning"
    /\ c.timers = 1 => c.state = "reconnecting" /\ c.told = c.attempt
    /\ c.delay = DelayOf(c.attempt)

Sound(c) == c \in ConnType /\ Single(c) /\ Truthful(c)

(* Parts of the connection that the banner leaves alone.                   *)
Link == {"sockets", "timers", "delay", "attempt", "destroyed", "state", "told", "available", "failures",
         "greeted"}

LEMMA BannerHolds ==
    ASSUME NEW c \in ConnType
    PROVE  /\ BannerHears(c) \in ConnType
           /\ \A f \in Link : BannerHears(c)[f] = c[f]
           /\ ~c.destroyed /\ c.state = "connected" => BannerHears(c).banner # "warning"
<1> DEFINE q == [c EXCEPT !.fading = FALSE]
<1>1. q \in ConnType /\ \A f \in Link : q[f] = c[f]
  BY DEF ConnType, Link
<1>2. CASE c.destroyed
  BY <1>2 DEF BannerHears
<1>3. CASE ~c.destroyed /\ c.state = "connected" /\ c.wasDown
  <2>1. BannerHears(c) = [q EXCEPT !.banner = "success", !.dismissed = FALSE, !.fading = TRUE, !.wasDown = FALSE]
    BY <1>3 DEF BannerHears
  <2> QED BY <1>1, <2>1 DEF ConnType, Link
<1>4. CASE ~c.destroyed /\ c.state = "connected" /\ ~c.wasDown
  <2>1. BannerHears(c) = [q EXCEPT !.banner = "hidden"]
    BY <1>4 DEF BannerHears
  <2> QED BY <1>1, <2>1 DEF ConnType, Link
<1>5. CASE ~c.destroyed /\ c.state # "connected"
  <2>1. BannerHears(c) = [q EXCEPT !.wasDown = TRUE, !.banner = IF c.dismissed THEN @ ELSE "warning"]
    BY <1>5 DEF BannerHears
  <2> QED BY <1>1, <1>5, <2>1 DEF ConnType, Link
<1> QED BY <1>2, <1>3, <1>4, <1>5

(* A state is told to the page: truthful afterwards if what is told is.    *)
LEMMA ToldHolds ==
    ASSUME NEW c, Sound(c), NEW available \in BOOLEAN
    PROVE  Sound(setRepositoryAvailable(c, available))
<1> DEFINE q == [c EXCEPT !.available = available]
<1>1. q \in ConnType /\ \A f \in Link \ {"available"} : q[f] = c[f]
  BY DEF Sound, ConnType, Link
<1>2. /\ BannerHears(q) \in ConnType
      /\ \A f \in Link \ {"available"} : BannerHears(q)[f] = c[f]
      /\ ~c.destroyed /\ c.state = "connected" => BannerHears(q).banner # "warning"
  BY <1>1, BannerHolds DEF Link
<1> QED BY <1>2 DEF Sound, Single, Truthful, Link, setRepositoryAvailable

LEMMA GreetedHolds == ASSUME NEW c, Sound(c) PROVE Sound(onRepoMetadata(c))
<1> DEFINE q == [c EXCEPT !.greeted = TRUE]
<1>1. Sound(q)
  BY DEF Sound, ConnType, Single, Truthful
<1> QED BY <1>1, ToldHolds DEF onRepoMetadata

LEMMA StateHolds ==
    ASSUME NEW c \in ConnType, Single(c), ~c.destroyed, c.delay = DelayOf(c.attempt),
           NEW state \in {"connected", "reconnecting"}, NEW told \in Nat,
           c.sockets = <<"open">> => state = "connected" /\ told = 0,
           c.timers = 1 => state = "reconnecting" /\ told = c.attempt
    PROVE  Sound(setConnectionState(c, state, told))
<1> DEFINE q == [c EXCEPT !.state = state, !.told = told]
<1>1. q \in ConnType /\ q.state = state /\ q.told = told /\ \A f \in Link \ {"state", "told"} : q[f] = c[f]
  BY DEF ConnType, Link
<1>2. /\ BannerHears(q) \in ConnType
      /\ BannerHears(q).state = state /\ BannerHears(q).told = told
      /\ \A f \in Link \ {"state", "told"} : BannerHears(q)[f] = c[f]
      /\ state = "connected" => BannerHears(q).banner # "warning"
  BY <1>1, BannerHolds DEF Link
<1> QED BY <1>2 DEF Sound, Single, Truthful, Link, setConnectionState

LEMMA DelayHolds ==
    /\ InitialDelay = DelayOf(0)
    /\ \A n \in Nat : DelayOf(n) \in Nat
    /\ \A n \in Nat : (IF DelayOf(n) * 2 < MaxDelay THEN DelayOf(n) * 2 ELSE MaxDelay) = DelayOf(n + 1)
<1>1. InitialDelay \in Nat /\ MaxDelay \in Nat /\ InitialDelay <= MaxDelay
  BY DelayAssumption
<1>2. ASSUME NEW n \in Nat
      PROVE  /\ DelayOf(n) \in Nat
             /\ (IF DelayOf(n) * 2 < MaxDelay THEN DelayOf(n) * 2 ELSE MaxDelay) = DelayOf(n + 1)
  <2>1. Doubled[n] \in Nat /\ Doubled[n + 1] = 2 * Doubled[n]
    BY DoubledHolds
  <2> QED BY <1>1, <2>1 DEF DelayOf
<1>3. InitialDelay = DelayOf(0)
  BY <1>1, DoubledHolds DEF DelayOf
<1> QED BY <1>2, <1>3

LEMMA ScheduleHolds ==
    ASSUME NEW c \in ConnType, c.sockets \in {<<>>, <<"closing">>}, c.timers = 0,
           ~c.destroyed => c.sockets = <<>> /\ c.delay = DelayOf(c.attempt)
    PROVE  Sound(scheduleReconnect(c))
<1>1. CASE c.destroyed
  BY <1>1 DEF scheduleReconnect, Sound, Single, Truthful
<1>2. CASE ~c.destroyed
  <2> DEFINE q == [c EXCEPT !.attempt = @ + 1, !.timers = @ + 1,
                            !.delay = IF @ * 2 < MaxDelay THEN @ * 2 ELSE MaxDelay]
  <2>1. c.attempt \in Nat /\ c.delay \in Nat /\ MaxDelay \in Nat
    BY DelayAssumption DEF ConnType
  <2>2. /\ q \in ConnType /\ q.sockets = <<>> /\ q.timers = 1 /\ ~q.destroyed
        /\ q.attempt = c.attempt + 1
        /\ q.delay = IF c.delay * 2 < MaxDelay THEN c.delay * 2 ELSE MaxDelay
    <3> DEFINE next == IF c.delay * 2 < MaxDelay THEN c.delay * 2 ELSE MaxDelay
               r == [c EXCEPT !.attempt = c.attempt + 1, !.timers = 1, !.delay = next]
    <3>1. next \in Nat /\ c.attempt + 1 \in Nat /\ 0 + 1 = 1
      BY <2>1
    <3>2. q = r
      BY <3>1 DEF ConnType
    <3> HIDE DEF next, q
    <3>3. /\ r \in ConnType /\ r.sockets = <<>> /\ r.timers = 1 /\ ~r.destroyed
          /\ r.attempt = c.attempt + 1 /\ r.delay = next
      BY <1>2, <3>1 DEF ConnType
    <3> QED BY <3>2, <3>3 DEF next
  <2>3. q.delay = DelayOf(q.attempt)
    BY <1>2, <2>1, <2>2, DelayHolds
  <2>4. scheduleReconnect(c) = setConnectionState(q, "reconnecting", q.attempt)
    BY <1>2 DEF scheduleReconnect
  <2>5. q.attempt \in Nat /\ Single(q)
    BY <2>1, <2>2 DEF Single
  <2> HIDE DEF q
  <2> QED BY <2>2, <2>3, <2>4, <2>5, StateHolds
<1> QED BY <1>1, <1>2

LEMMA ConnectHolds ==
    ASSUME NEW c \in ConnType, c.sockets = <<>>, c.timers = 0, ~c.destroyed, c.delay = DelayOf(c.attempt),
           NEW made \in BOOLEAN
    PROVE  Sound(connect(c, made))
<1>1. CASE made
  <2>1. Append(c.sockets, "connecting") = <<"connecting">>
    OBVIOUS
  <2>2. connect(c, made) = [c EXCEPT !.sockets = <<"connecting">>]
    BY <1>1, <2>1 DEF connect
  <2> QED BY <2>2 DEF Sound, Single, Truthful, ConnType, Sockets
<1>2. CASE ~made
  BY <1>2, ScheduleHolds DEF connect
<1> QED BY <1>1, <1>2

LEMMA NewHolds == ASSUME NEW made \in BOOLEAN PROVE Sound(connect(NewConnection, made))
<1>1. /\ NewConnection \in ConnType /\ NewConnection.sockets = <<>> /\ NewConnection.timers = 0
      /\ ~NewConnection.destroyed /\ NewConnection.delay = InitialDelay /\ NewConnection.attempt = 0
  BY DelayAssumption DEF NewConnection, ConnType, Sockets
<1>2. NewConnection.delay = DelayOf(NewConnection.attempt)
  BY <1>1, DelayHolds
<1> HIDE DEF NewConnection
<1> QED BY <1>1, <1>2, ConnectHolds

LEMMA OpenedHolds ==
    ASSUME NEW c, Sound(c), NEW i \in DOMAIN c.sockets, c.sockets[i] = "connecting"
    PROVE  Sound(opened(c, i))
<1>1. c \in ConnType /\ c.sockets = <<"connecting">> /\ i = 1 /\ c.timers = 0 /\ ~c.destroyed
  BY DEF Sound, Single, ConnType, Sockets
<1> DEFINE q == [c EXCEPT !.sockets[i] = "open", !.delay = InitialDelay, !.attempt = 0,
                          !.greeted = FALSE]
<1>2. [c.sockets EXCEPT ![i] = "open"] = <<"open">>
  BY <1>1
<1>3. q = [c EXCEPT !.sockets = <<"open">>, !.delay = InitialDelay, !.attempt = 0,
                    !.greeted = FALSE]
  BY <1>1, <1>2 DEF ConnType
<1>4. /\ q \in ConnType /\ q.sockets = <<"open">> /\ q.timers = 0 /\ ~q.destroyed
      /\ q.delay = InitialDelay /\ q.attempt = 0
  BY <1>1, <1>3, DelayAssumption DEF ConnType, Sockets
<1>5. q.delay = DelayOf(q.attempt) /\ Single(q)
  BY <1>4, DelayHolds DEF Single
<1>6. opened(c, i) = setConnectionState(q, "connected", 0)
  BY DEF opened
<1> HIDE DEF q
<1> QED BY <1>4, <1>5, <1>6, StateHolds

LEMMA ClosedHolds ==
    ASSUME NEW c, Sound(c), NEW i \in DOMAIN c.sockets
    PROVE  Sound(closed(c, i))
<1>1. PICK s \in {"connecting", "open", "closing"} : c.sockets = <<s>> /\ i = 1
  BY DEF Sound, ConnType, Sockets
<1>2. RemoveAt(c.sockets, i) = <<>>
  BY <1>1 DEF RemoveAt
<1> DEFINE q == [c EXCEPT !.sockets = RemoveAt(@, i)]
<1>3. /\ q \in ConnType /\ q.sockets = <<>> /\ q.timers = 0 /\ q.destroyed = c.destroyed
      /\ q.delay = c.delay /\ q.attempt = c.attempt
  BY <1>1, <1>2 DEF Sound, Single, ConnType, Sockets
<1>4. ~q.destroyed => q.delay = DelayOf(q.attempt)
  BY <1>3 DEF Sound, Truthful
<1>5. closed(c, i) = scheduleReconnect(q)
  BY DEF closed
<1> HIDE DEF q
<1> QED BY <1>3, <1>4, <1>5, ScheduleHolds

LEMMA TimerHolds ==
    ASSUME NEW c, Sound(c), c.timers > 0, NEW made \in BOOLEAN
    PROVE  Sound(connect([c EXCEPT !.timers = @ - 1], made))
<1> DEFINE q == [c EXCEPT !.timers = @ - 1]
<1>1. c.timers = 1 /\ c.sockets = <<>> /\ ~c.destroyed
  BY DEF Sound, Single, ConnType
<1>2. /\ q \in ConnType /\ q.sockets = <<>> /\ q.timers = 0 /\ ~q.destroyed
      /\ q.delay = c.delay /\ q.attempt = c.attempt
  BY <1>1 DEF Sound, ConnType
<1>3. q.delay = DelayOf(q.attempt)
  BY <1>1, <1>2 DEF Sound, Truthful
<1> HIDE DEF q
<1>4. Sound(connect(q, made))
  BY <1>2, <1>3, ConnectHolds
<1> QED BY <1>4 DEF q

LEMMA DestroyHolds == ASSUME NEW c, Sound(c) PROVE Sound(destroy(c))
<1> DEFINE left == [i \in DOMAIN c.sockets |-> IF i = Len(c.sockets) THEN "closing" ELSE c.sockets[i]]
<1>1. left \in {<<>>, <<"closing">>}
  <2>1. CASE c.sockets = <<>>
    BY <2>1
  <2>2. ASSUME NEW s \in {"connecting", "open", "closing"}, c.sockets = <<s>> PROVE left = <<"closing">>
    BY <2>2
  <2> QED BY <2>1, <2>2 DEF Sound, ConnType, Sockets
<1> HIDE DEF left
<1>2. destroy(c) = [c EXCEPT !.destroyed = TRUE, !.timers = IF @ > 0 THEN @ - 1 ELSE 0,
                             !.fading = FALSE, !.banner = "gone", !.sockets = left]
  BY DEF destroy, left
<1>3. c.timers \in {0, 1} /\ (IF c.timers > 0 THEN c.timers - 1 ELSE 0) = 0
  BY DEF Sound, ConnType
<1> QED BY <1>1, <1>2, <1>3 DEF Sound, Single, Truthful, ConnType, Sockets

(* Failures, and what the user or time does to the banner.                 *)
LEMMA RespondedHolds == ASSUME NEW c, Sound(c) PROVE Sound(Responded(c))
BY DEF Responded, Sound, Single, Truthful, ConnType

LEMMA FailureHolds == ASSUME NEW c, Sound(c), NEW recent \in Nat PROVE Sound(trackFailure(c, recent))
<1> DEFINE q == [c EXCEPT !.failures = recent + 1]
<1>1. Sound(q)
  BY DEF Sound, Single, Truthful, ConnType
<1>2. trackFailure(c, recent) = IF q.failures >= Threshold THEN setRepositoryAvailable(q, FALSE) ELSE q
  BY DEF trackFailure
<1> HIDE DEF q
<1> QED BY <1>1, <1>2, ToldHolds

LEMMA CountedHolds == ASSUME Sound(conn), Counted PROVE Sound(conn')
<1>1. \A recent \in 0..conn.failures : recent \in Nat
  BY DEF Sound, ConnType
<1> QED BY <1>1, FailureHolds, ToldHolds DEF Counted

-----------------------------------------------------------------------------
(* Steps.                                                                  *)

(* The search box leaves the connection alone, but for what its answer and *)
(* its failure count.                                                      *)
LEMMA SearchSteps == ASSUME Sound(conn), Search PROVE Sound(conn')
<1>1. CASE DiffStatsArrive
  BY <1>1, RespondedHolds DEF DiffStatsArrive
<1>2. CASE DiffStatsFail
  BY <1>2, CountedHolds DEF DiffStatsFail
<1>3. CASE Type \/ Focus \/ PointerDownOutside \/ ClearButton \/ ClickOption \/ updatePosition \/ onKeyDown
  <2>1. conn' = conn
    BY <1>3 DEF Type, Focus, PointerDownOutside, ClearButton, ClickOption, updatePosition, onKeyDown, UserOfBox
  <2> QED BY <2>1
<1>4. CASE DebounceFires \/ FrameFires
  <2>1. conn' = conn
    BY <1>4 DEF DebounceFires, FrameFires
  <2> QED BY <2>1
<1> QED BY <1>1, <1>2, <1>3, <1>4 DEF Search

LEMMA ConnectedSteps == ASSUME Sound(conn), Connected PROVE Sound(conn')
<1>1. CASE TimerFires
  BY <1>1, TimerHolds DEF TimerFires
<1>2. CASE SocketOpens
  BY <1>2, OpenedHolds DEF SocketOpens
<1>3. CASE SocketCloses
  BY <1>3, ClosedHolds DEF SocketCloses
<1>4. CASE OnRepoMetadata
  BY <1>4, GreetedHolds DEF OnRepoMetadata
<1>5. CASE OtherCallReturns
  BY <1>5, RespondedHolds, CountedHolds DEF OtherCallReturns
<1>6. CASE DismissBanner
  BY <1>6 DEF DismissBanner, Sound, Single, Truthful, ConnType
<1>7. CASE BannerFades
  BY <1>7 DEF BannerFades, Sound, Single, Truthful, ConnType
<1>8. CASE RetryConnection
  BY <1>8 DEF RetryConnection
<1>9. CASE RetryReturns
  BY <1>9, ToldHolds DEF RetryReturns
<1> QED BY <1>1, <1>2, <1>3, <1>4, <1>5, <1>6, <1>7, <1>8, <1>9 DEF Connected

(* Everything said of the connection is inductive together: that a socket  *)
(* and a timer exclude each other is what makes the state that the page    *)
(* was told last, by the one or the other, the right one.                  *)
ConnInv == Sound(conn)

THEOREM ConnectionInvariant == Spec => []ConnInv
<1>1. Init => ConnInv
  BY NewHolds DEF Init, ConnInv
<1>2. ConnInv /\ [Next]_vars => ConnInv'
  <2> SUFFICES ASSUME Sound(conn), [Next]_vars PROVE Sound(conn')
    BY DEF ConnInv
  <2>1. CASE Search
    BY <2>1, SearchSteps
  <2>2. CASE Connected
    BY <2>2, ConnectedSteps
  <2>3. CASE Dispose
    BY <2>3, DestroyHolds DEF Dispose
  <2>4. CASE UNCHANGED vars
    BY <2>4 DEF vars
  <2> QED BY <2>1, <2>2, <2>3, <2>4 DEF Next
<1> QED BY <1>1, <1>2, PTL DEF Spec

(* A page never holds two sockets, or a socket and a timer that will open  *)
(* another, and one that was disposed of keeps nothing but a socket that   *)
(* is closing (backend.js: connect, scheduleReconnect, destroy), however   *)
(* opens, losses, timers and failures follow each other.                   *)
THEOREM OneConnectionAlways == Spec => []OneConnection
<1>1. ASSUME NEW c, c \in ConnType, Single(c)
      PROVE  /\ c.timers + Len(c.sockets) <= 1
             /\ c.destroyed => c.timers = 0 /\ \A i \in DOMAIN c.sockets : c.sockets[i] = "closing"
  <2>1. CASE c.sockets = <<>>
    BY <1>1, <2>1 DEF ConnType, Single
  <2>2. ASSUME NEW s, c.sockets = <<s>>, c.timers = 0, c.destroyed => s = "closing"
        PROVE  /\ c.timers + Len(c.sockets) <= 1
               /\ c.destroyed => c.timers = 0 /\ \A i \in DOMAIN c.sockets : c.sockets[i] = "closing"
    BY <2>2
  <2> QED BY <1>1, <2>1, <2>2 DEF ConnType, Single, Sockets
<1>2. ConnInv => OneConnection
  BY <1>1 DEF ConnInv, Sound, OneConnection
<1> QED BY <1>2, ConnectionInvariant, PTL

(* With a socket open the page says "connected" and counts no attempt;     *)
(* while a reconnect waits it says so, and the delay is doubled with each  *)
(* attempt up to its limit and forgotten on success (backend.js: opened,   *)
(* scheduleReconnect; errorState.js, connectionBanner.js).                 *)
THEOREM PageSaysTheConnection == Spec => []SaysTheConnection
<1>1. ASSUME NEW c, c \in ConnType, Truthful(c), ~c.destroyed
      PROVE  /\ \A i \in DOMAIN c.sockets : c.sockets[i] = "open" =>
                  c.state = "connected" /\ c.told = 0 /\ c.banner # "warning"
             /\ c.timers > 0 => c.state = "reconnecting" /\ c.told = c.attempt
             /\ c.delay = IF Doubled[c.attempt] < MaxDelay THEN Doubled[c.attempt] ELSE MaxDelay
  <2>1. (\E i \in DOMAIN c.sockets : c.sockets[i] = "open") => c.sockets = <<"open">>
    BY <1>1 DEF ConnType, Sockets
  <2> QED BY <1>1, <2>1 DEF ConnType, Truthful, DelayOf
<1>2. ConnInv => SaysTheConnection
  BY <1>1 DEF ConnInv, Sound, SaysTheConnection
<1> QED BY <1>2, ConnectionInvariant, PTL

-----------------------------------------------------------------------------
(* The parser.  What one word does to a query.                             *)

Fields == {"any", "none", "after", "before", "merge", "negateMerge", "branch", "negateBranch", "errors"}

IsQuery(q) ==
    /\ q = [f \in Fields |-> q[f]]
    /\ q.any = [k \in Kinds |-> q.any[k]] /\ q.none = [k \in Kinds |-> q.none[k]]

(* The word adds a value of the kind; to which side its dash decides.      *)
Adds(w, k) == \/ k = "text" /\ w.key \notin Known
              \/ k \in Gathered /\ w.key = k /\ w.value # NoValue
ValueOf(w, k) == IF k = "text" THEN TextOf(w) ELSE w.value

SetsDate(w, k) == w.key = k /\ ~Negated(w) /\ w.value # NoValue /\ w.value \in DOMAIN Fits[k]
SetsMerge(w) == w.key = "merge" /\ w.value \in {"only", "exclude"}
SetsBranch(w) == w.key = "branch" /\ w.value # NoValue

Gathers(r, q, w) ==
    \A k \in Kinds :
      /\ r.any[k] = IF Adds(w, k) /\ ~Negated(w) THEN q.any[k] \cup {ValueOf(w, k)} ELSE q.any[k]
      /\ r.none[k] = IF Adds(w, k) /\ Negated(w) THEN q.none[k] \cup {ValueOf(w, k)} ELSE q.none[k]
Dated(r, q, w) == \A k \in Dates : r[k] = IF SetsDate(w, k) THEN w.value ELSE q[k]
Merged(r, q, w) == /\ r.merge = IF SetsMerge(w) THEN w.value ELSE q.merge
                   /\ r.negateMerge = IF SetsMerge(w) THEN Negated(w) ELSE q.negateMerge
Branched(r, q, w) == /\ r.branch = IF SetsBranch(w) THEN w.value ELSE q.branch
                     /\ r.negateBranch = IF SetsBranch(w) THEN Negated(w) ELSE q.negateBranch

Parsed(r, q, w) == IsQuery(r) /\ Gathers(r, q, w) /\ Dated(r, q, w) /\ Merged(r, q, w) /\ Branched(r, q, w)

LEMMA KindsApart ==
    /\ "text" \notin Known /\ Gathered \subseteq Known /\ Dates \subseteq Known
    /\ Gathered \cap Dates = {} /\ {"merge", "branch"} \subseteq Known
    /\ {"merge", "branch"} \cap (Gathered \cup Dates) = {}
    /\ Kinds = Gathered \cup {"text"} /\ "text" \notin Gathered
    /\ Known = Gathered \cup Dates \cup {"merge", "branch"}
    /\ Dates \subseteq Fields /\ {"any", "none", "merge", "negateMerge", "branch", "negateBranch", "errors"} \cap Dates = {}
BY DEF Known, Gathered, Dates, Kinds, Fields

LEMMA GatherHolds ==
    ASSUME NEW q, IsQuery(q), NEW w, NEW kind \in Kinds, Adds(w, kind),
           \A k \in Kinds : Adds(w, k) => k = kind,
           w.key \notin Dates \cup {"merge", "branch"}
    PROVE  Parsed(Gather(q, kind, Negated(w), ValueOf(w, kind)), q, w)
<1> DEFINE r == Gather(q, kind, Negated(w), ValueOf(w, kind))
           v == ValueOf(w, kind)
<1>1. ~SetsMerge(w) /\ ~SetsBranch(w) /\ \A k \in Dates : ~SetsDate(w, k)
  BY DEF SetsMerge, SetsBranch, SetsDate
<1>2. CASE Negated(w)
  <2> HIDE DEF v
  <2>1. r = [q EXCEPT !.none[kind] = q.none[kind] \cup {v}]
    BY <1>2 DEF Gather, v
  <2> HIDE DEF r
  <2>2. /\ r = [f \in Fields |-> r[f]]
        /\ \A f \in Fields \ {"none"} : r[f] = q[f]
        /\ r.none = [q.none EXCEPT ![kind] = q.none[kind] \cup {v}]
    <3>1. q = [f \in Fields |-> q[f]] /\ "none" \in Fields
      BY DEF IsQuery, Fields
    <3> QED BY <2>1, <3>1
  <2>3. /\ r.none = [k \in Kinds |-> r.none[k]]
        /\ \A k \in Kinds : r.none[k] = IF k = kind THEN q.none[k] \cup {v} ELSE q.none[k]
    BY <2>2 DEF IsQuery
  <2>4. IsQuery(r)
    BY <2>2, <2>3 DEF IsQuery, Fields
  <2>5. Gathers(r, q, w)
    BY <1>2, <2>2, <2>3 DEF Gathers, Fields, v
  <2>6. Dated(r, q, w) /\ Merged(r, q, w) /\ Branched(r, q, w)
    BY <1>1, <2>2 DEF Dated, Merged, Branched, Fields, Dates
  <2> QED BY <2>4, <2>5, <2>6 DEF Parsed, r
<1>3. CASE ~Negated(w)
  <2> HIDE DEF v
  <2>1. r = [q EXCEPT !.any[kind] = q.any[kind] \cup {v}]
    BY <1>3 DEF Gather, v
  <2> HIDE DEF r
  <2>2. /\ r = [f \in Fields |-> r[f]]
        /\ \A f \in Fields \ {"any"} : r[f] = q[f]
        /\ r.any = [q.any EXCEPT ![kind] = q.any[kind] \cup {v}]
    <3>1. q = [f \in Fields |-> q[f]] /\ "any" \in Fields
      BY DEF IsQuery, Fields
    <3> QED BY <2>1, <3>1
  <2>3. /\ r.any = [k \in Kinds |-> r.any[k]]
        /\ \A k \in Kinds : r.any[k] = IF k = kind THEN q.any[k] \cup {v} ELSE q.any[k]
    BY <2>2 DEF IsQuery
  <2>4. IsQuery(r)
    BY <2>2, <2>3 DEF IsQuery, Fields
  <2>5. Gathers(r, q, w)
    BY <1>3, <2>2, <2>3 DEF Gathers, Fields, v
  <2>6. Dated(r, q, w) /\ Merged(r, q, w) /\ Branched(r, q, w)
    BY <1>1, <2>2 DEF Dated, Merged, Branched, Fields, Dates
  <2> QED BY <2>4, <2>5, <2>6 DEF Parsed, r
<1> QED BY <1>2, <1>3

(* A word that adds nothing and sets at most the fields named.             *)
LEMMA SetHolds ==
    ASSUME NEW q, IsQuery(q), NEW w, NEW r, r = [f \in Fields |-> r[f]],
           r.any = q.any, r.none = q.none, \A k \in Kinds : ~Adds(w, k),
           Dated(r, q, w), Merged(r, q, w), Branched(r, q, w)
    PROVE  Parsed(r, q, w)
BY DEF Parsed, Gathers, IsQuery

LEMMA ParseWordHolds ==
    ASSUME NEW q, IsQuery(q), NEW w
    PROVE  Parsed(ParseWord(q, w), q, w)
<1> DEFINE r == ParseWord(q, w)
<1>1. CASE w.key \in Gathered /\ w.value # NoValue
  <2>1. /\ w.key \in Kinds /\ Adds(w, w.key) /\ \A k \in Kinds : Adds(w, k) => k = w.key
        /\ w.key \notin Dates \cup {"merge", "branch"}
        /\ ValueOf(w, w.key) = w.value
    BY <1>1, KindsApart DEF Adds, ValueOf
  <2>2. r = Gather(q, w.key, Negated(w), w.value)
    BY <1>1, KindsApart DEF ParseWord
  <2> QED BY <2>1, <2>2, GatherHolds
<1>2. CASE w.key \notin Known
  <2>1. /\ "text" \in Kinds /\ Adds(w, "text") /\ \A k \in Kinds : Adds(w, k) => k = "text"
        /\ w.key \notin Dates \cup {"merge", "branch"} /\ w.key \notin Gathered
        /\ ValueOf(w, "text") = TextOf(w)
    BY <1>2, KindsApart DEF Adds, ValueOf
  <2>2. r = Gather(q, "text", Negated(w), TextOf(w))
    BY <2>1 DEF ParseWord
  <2> QED BY <2>1, <2>2, GatherHolds
<1>3. ASSUME w.key \in Gathered, w.value = NoValue PROVE Parsed(r, q, w)
  <2>1. r = q
    BY <1>3, KindsApart DEF ParseWord
  <2>2. /\ \A k \in Kinds : ~Adds(w, k)
        /\ ~SetsMerge(w) /\ ~SetsBranch(w) /\ \A k \in Dates : ~SetsDate(w, k)
    BY <1>3, KindsApart DEF Adds, SetsMerge, SetsBranch, SetsDate
  <2> HIDE DEF r
  <2> QED BY <2>1, <2>2, SetHolds DEF Dated, Merged, Branched, IsQuery
<1>4. ASSUME w.key \in Dates PROVE Parsed(r, q, w)
  <2>1. r = ParseDate(q, w)
    BY <1>4, KindsApart DEF ParseWord
  <2>2. /\ \A k \in Kinds : ~Adds(w, k)
        /\ ~SetsMerge(w) /\ ~SetsBranch(w) /\ w.key \in Fields
    BY <1>4, KindsApart DEF Adds, SetsMerge, SetsBranch
  <2>3. CASE SetsDate(w, w.key)
    <3>1. r = [q EXCEPT ![w.key] = w.value]
      BY <2>1, <2>3 DEF SetsDate, ParseDate
    <3>2. /\ r = [f \in Fields |-> r[f]] /\ r[w.key] = w.value
          /\ \A f \in Fields \ {w.key} : r[f] = q[f]
      BY <2>2, <3>1 DEF IsQuery
    <3> HIDE DEF r
    <3>3. {"any", "none", "merge", "negateMerge", "branch", "negateBranch"} \subseteq Fields \ {w.key}
      BY <1>4 DEF Fields, Dates
    <3>4. Dated(r, q, w)
      BY <2>3, <3>2, KindsApart DEF Dated, SetsDate
    <3> QED BY <2>2, <3>2, <3>3, <3>4, SetHolds DEF Merged, Branched
  <2>4. CASE ~SetsDate(w, w.key)
    <3>1. r = q \/ r = [q EXCEPT !.errors = @ + 1]
      BY <2>1, <2>4 DEF SetsDate, ParseDate
    <3>2. r = [f \in Fields |-> r[f]] /\ \A f \in Fields \ {"errors"} : r[f] = q[f]
      BY <3>1 DEF IsQuery, Fields
    <3> HIDE DEF r
    <3>3. Dated(r, q, w) /\ Merged(r, q, w) /\ Branched(r, q, w) /\ r.any = q.any /\ r.none = q.none
      BY <2>2, <2>4, <3>2 DEF Dated, Merged, Branched, SetsDate, Dates, Fields
    <3> QED BY <2>2, <3>2, <3>3, SetHolds
  <2> QED BY <2>3, <2>4
<1>5. ASSUME w.key = "merge" PROVE Parsed(r, q, w)
  <2>1. r = ParseMerge(q, w)
    BY <1>5, KindsApart DEF ParseWord
  <2>2. /\ \A k \in Kinds : ~Adds(w, k)
        /\ ~SetsBranch(w) /\ \A k \in Dates : ~SetsDate(w, k)
    BY <1>5, KindsApart DEF Adds, SetsBranch, SetsDate
  <2>3. CASE SetsMerge(w)
    <3>1. r = [q EXCEPT !.merge = w.value, !.negateMerge = Negated(w)]
      BY <2>1, <2>3 DEF SetsMerge, ParseMerge
    <3>2. /\ r = [f \in Fields |-> r[f]] /\ r.merge = w.value /\ r.negateMerge = Negated(w)
          /\ \A f \in Fields \ {"merge", "negateMerge"} : r[f] = q[f]
      BY <3>1 DEF IsQuery, Fields
    <3> HIDE DEF r
    <3>3. Dated(r, q, w) /\ Merged(r, q, w) /\ Branched(r, q, w) /\ r.any = q.any /\ r.none = q.none
      BY <2>2, <2>3, <3>2 DEF Dated, Merged, Branched, Dates, Fields
    <3> QED BY <2>2, <3>2, <3>3, SetHolds
  <2>4. CASE ~SetsMerge(w)
    <3>1. r = [q EXCEPT !.errors = @ + 1]
      BY <1>5, <2>1, <2>4 DEF SetsMerge, ParseMerge
    <3>2. r = [f \in Fields |-> r[f]] /\ \A f \in Fields \ {"errors"} : r[f] = q[f]
      BY <3>1 DEF IsQuery, Fields
    <3> HIDE DEF r
    <3>3. Dated(r, q, w) /\ Merged(r, q, w) /\ Branched(r, q, w) /\ r.any = q.any /\ r.none = q.none
      BY <2>2, <2>4, <3>2 DEF Dated, Merged, Branched, Dates, Fields
    <3> QED BY <2>2, <3>2, <3>3, SetHolds
  <2> QED BY <2>3, <2>4
<1>6. ASSUME w.key = "branch" PROVE Parsed(r, q, w)
  <2>1. r = ParseBranch(q, w)
    BY <1>6, KindsApart DEF ParseWord
  <2>2. /\ \A k \in Kinds : ~Adds(w, k)
        /\ ~SetsMerge(w) /\ \A k \in Dates : ~SetsDate(w, k)
    BY <1>6, KindsApart DEF Adds, SetsMerge, SetsDate
  <2>3. CASE SetsBranch(w)
    <3>1. r = [q EXCEPT !.branch = w.value, !.negateBranch = Negated(w)]
      BY <2>1, <2>3 DEF SetsBranch, ParseBranch
    <3>2. /\ r = [f \in Fields |-> r[f]] /\ r.branch = w.value /\ r.negateBranch = Negated(w)
          /\ \A f \in Fields \ {"branch", "negateBranch"} : r[f] = q[f]
      BY <3>1 DEF IsQuery, Fields
    <3> HIDE DEF r
    <3>3. Dated(r, q, w) /\ Merged(r, q, w) /\ Branched(r, q, w) /\ r.any = q.any /\ r.none = q.none
      BY <2>2, <2>3, <3>2 DEF Dated, Merged, Branched, Dates, Fields
    <3> QED BY <2>2, <3>2, <3>3, SetHolds
  <2>4. CASE ~SetsBranch(w)
    <3>1. r = q
      BY <1>6, <2>1, <2>4 DEF SetsBranch, ParseBranch
    <3> HIDE DEF r
    <3> QED BY <2>2, <2>4, <3>1, SetHolds DEF Dated, Merged, Branched, IsQuery
  <2> QED BY <2>3, <2>4
<1> QED BY <1>1, <1>2, <1>3, <1>4, <1>5, <1>6, KindsApart

(* The parser is a recursive function, too.                                *)
IsParse(f, words, n) ==
    f = [k \in 0..n |-> IF k = 0 THEN NewQuery ELSE ParseWord(f[k - 1], words[k])]

LEMMA ParseExists ==
    ASSUME NEW words
    PROVE  \A n \in Nat : \E f : IsParse(f, words, n)
<1> DEFINE T == {n \in Nat : \E f : IsParse(f, words, n)}
<1>1. 0 \in T
  <2> DEFINE f == [k \in 0..0 |-> NewQuery]
  <2>1. f = [k \in 0..0 |-> IF k = 0 THEN NewQuery ELSE ParseWord(f[k - 1], words[k])]
    OBVIOUS
  <2>2. IsParse(f, words, 0)
    BY <2>1 DEF IsParse
  <2> QED BY <2>2
<1>2. ASSUME NEW n \in T PROVE n + 1 \in T
  <2>1. PICK f : IsParse(f, words, n)
    BY <1>2
  <2>2. \A k \in 0..n : f[k] = IF k = 0 THEN NewQuery ELSE ParseWord(f[k - 1], words[k])
    BY <2>1 DEF IsParse
  <2> DEFINE h == [k \in 0 .. n + 1 |-> IF k = n + 1 THEN ParseWord(f[n], words[n + 1]) ELSE f[k]]
             r == [k \in 0 .. n + 1 |-> IF k = 0 THEN NewQuery ELSE ParseWord(h[k - 1], words[k])]
  <2>3. ASSUME NEW k \in 0 .. n + 1 PROVE h[k] = r[k]
    <3>1. CASE k = n + 1
      <4>1. h[n] = f[n] /\ (n + 1) - 1 = n /\ n + 1 # 0 /\ n + 1 \in 0 .. n + 1
        OBVIOUS
      <4> QED BY <3>1, <4>1
    <3>2. CASE k = 0
      <4>1. f[0] = NewQuery /\ 0 # n + 1
        BY <2>2
      <4> QED BY <3>2, <4>1
    <3>3. CASE k # n + 1 /\ k # 0
      <4>1. k \in 0..n /\ k - 1 \in 0 .. n + 1 /\ k - 1 # n + 1
        BY <3>3
      <4>2. h[k - 1] = f[k - 1] /\ h[k] = f[k]
        BY <3>3, <4>1
      <4>3. f[k] = ParseWord(f[k - 1], words[k])
        BY <2>2, <3>3, <4>1
      <4> QED BY <3>3, <4>2, <4>3
    <3> QED BY <3>1, <3>2, <3>3
  <2>4. h = r
    BY <2>3
  <2>5. IsParse(h, words, n + 1)
    <3> HIDE DEF h
    <3> QED BY <2>4 DEF IsParse
  <2> QED BY <2>5
<1>3. \A n \in T : n + 1 \in T
  BY <1>2
<1> HIDE DEF T
<1>4. \A n \in Nat : n \in T
  BY <1>1, <1>3, FromZeroOn DEF T
<1> QED BY <1>4 DEF T

(* A query as the first n words make it: what they gather, and the last of *)
(* those that set a field.                                                 *)
Kept(words, n, k, neg) == {ValueOf(words[i], k) : i \in {j \in 1..n : Adds(words[j], k) /\ Negated(words[j]) = neg}}
DatesOf(words, n, k) == {i \in 1..n : SetsDate(words[i], k)}
MergesIn(words, n) == {i \in 1..n : SetsMerge(words[i])}
BranchesIn(words, n) == {i \in 1..n : SetsBranch(words[i])}

IsLast(i, at) == i \in at /\ \A j \in at : j <= i

Reads(q, words, n) ==
    /\ IsQuery(q)
    /\ \A k \in Kinds : q.any[k] = Kept(words, n, k, FALSE) /\ q.none[k] = Kept(words, n, k, TRUE)
    /\ \A k \in Dates : \/ DatesOf(words, n, k) = {} /\ q[k] = NoValue
                        \/ \E i \in 1..n : IsLast(i, DatesOf(words, n, k)) /\ q[k] = words[i].value
    /\ \/ MergesIn(words, n) = {} /\ q.merge = NoValue
       \/ \E i \in 1..n : /\ IsLast(i, MergesIn(words, n))
                          /\ q.merge = words[i].value /\ q.negateMerge = Negated(words[i])
    /\ \/ BranchesIn(words, n) = {} /\ q.branch = NoValue
       \/ \E i \in 1..n : /\ IsLast(i, BranchesIn(words, n))
                          /\ q.branch = words[i].value /\ q.negateBranch = Negated(words[i])

LEMMA NegatedIsBoolean == ASSUME NEW w, w.dash \in BOOLEAN PROVE Negated(w) \in BOOLEAN
BY DEF Negated

LEMMA ReadsNothing == ASSUME NEW words PROVE Reads(NewQuery, words, 0)
<1>1. IsQuery(NewQuery)
  BY DEF IsQuery, NewQuery, Fields
<1>2. 1..0 = {}
  OBVIOUS
<1>3. \A k \in Kinds : NewQuery.any[k] = {} /\ NewQuery.none[k] = {}
  BY DEF NewQuery
<1>4. \A k \in Kinds : Kept(words, 0, k, FALSE) = {} /\ Kept(words, 0, k, TRUE) = {}
  BY <1>2 DEF Kept
<1>5. \A k \in Dates : NewQuery[k] = NoValue /\ DatesOf(words, 0, k) = {}
  BY <1>2 DEF NewQuery, Dates, DatesOf
<1>6. NewQuery.merge = NoValue /\ NewQuery.branch = NoValue /\ MergesIn(words, 0) = {} /\ BranchesIn(words, 0) = {}
  BY <1>2 DEF NewQuery, MergesIn, BranchesIn
<1> QED BY <1>1, <1>3, <1>4, <1>5, <1>6 DEF Reads

(* The last of a set of positions, with the next position in it or not.    *)
LEMMA LastGrows ==
    ASSUME NEW n \in Nat, NEW at \in SUBSET (1..n), NEW more, more = at \/ more = at \cup {n + 1}
    PROVE  /\ more = at => \A i \in 1..n : IsLast(i, at) => i \in 1 .. n + 1 /\ IsLast(i, more)
           /\ more # at => n + 1 \in 1 .. n + 1 /\ IsLast(n + 1, more)
<1>1. n + 1 \in 1 .. n + 1 /\ \A i \in 1..n : i \in 1 .. n + 1
  OBVIOUS
<1>2. ASSUME more # at PROVE IsLast(n + 1, more)
  <2>1. more = at \cup {n + 1} /\ \A j \in at : j <= n + 1
    BY <1>2
  <2> QED BY <2>1 DEF IsLast
<1> QED BY <1>1, <1>2

LEMMA ReadsOn ==
    ASSUME NEW words, NEW n \in Nat, NEW q, Reads(q, words, n), NEW r, Parsed(r, q, words[n + 1]),
           words[n + 1].dash \in BOOLEAN
    PROVE  Reads(r, words, n + 1)
<1> DEFINE w == words[n + 1]
<1>1. /\ 1 .. n + 1 = (1..n) \cup {n + 1} /\ n + 1 \notin 1..n /\ n + 1 \in 1 .. n + 1
      /\ Negated(w) \in BOOLEAN
  BY NegatedIsBoolean
<1>2. ASSUME NEW k \in Kinds
      PROVE  r.any[k] = Kept(words, n + 1, k, FALSE) /\ r.none[k] = Kept(words, n + 1, k, TRUE)
  <2>1. q.any[k] = Kept(words, n, k, FALSE) /\ q.none[k] = Kept(words, n, k, TRUE)
    BY DEF Reads
  <2>2. /\ r.any[k] = IF Adds(w, k) /\ ~Negated(w) THEN q.any[k] \cup {ValueOf(w, k)} ELSE q.any[k]
        /\ r.none[k] = IF Adds(w, k) /\ Negated(w) THEN q.none[k] \cup {ValueOf(w, k)} ELSE q.none[k]
    BY DEF Parsed, Gathers
  <2>3. ASSUME NEW neg \in BOOLEAN
        PROVE  Kept(words, n + 1, k, neg) =
                 IF Adds(w, k) /\ Negated(w) = neg THEN Kept(words, n, k, neg) \cup {ValueOf(w, k)}
                 ELSE Kept(words, n, k, neg)
    BY <1>1 DEF Kept
  <2> QED BY <1>1, <2>1, <2>2, <2>3
<1>3. ASSUME NEW k \in Dates
      PROVE  \/ DatesOf(words, n + 1, k) = {} /\ r[k] = NoValue
             \/ \E i \in 1 .. n + 1 : IsLast(i, DatesOf(words, n + 1, k)) /\ r[k] = words[i].value
  <2>1. r[k] = IF SetsDate(w, k) THEN w.value ELSE q[k]
    BY DEF Parsed, Dated
  <2>2. /\ DatesOf(words, n, k) \in SUBSET (1..n)
        /\ DatesOf(words, n + 1, k) = IF SetsDate(w, k) THEN DatesOf(words, n, k) \cup {n + 1} ELSE DatesOf(words, n, k)
        /\ n + 1 \notin DatesOf(words, n, k)
    BY <1>1 DEF DatesOf
  <2>3. CASE SetsDate(w, k)
    <3>1. IsLast(n + 1, DatesOf(words, n + 1, k))
      BY <2>2, <2>3, LastGrows
    <3> QED BY <1>1, <2>1, <2>3, <3>1
  <2>4. CASE ~SetsDate(w, k)
    <3>1. \/ DatesOf(words, n, k) = {} /\ q[k] = NoValue
          \/ \E i \in 1..n : IsLast(i, DatesOf(words, n, k)) /\ q[k] = words[i].value
      BY DEF Reads
    <3> QED BY <1>1, <2>1, <2>2, <2>4, <3>1
  <2> QED BY <2>3, <2>4
<1>4. \/ MergesIn(words, n + 1) = {} /\ r.merge = NoValue
      \/ \E i \in 1 .. n + 1 : /\ IsLast(i, MergesIn(words, n + 1))
                               /\ r.merge = words[i].value /\ r.negateMerge = Negated(words[i])
  <2>1. /\ r.merge = IF SetsMerge(w) THEN w.value ELSE q.merge
        /\ r.negateMerge = IF SetsMerge(w) THEN Negated(w) ELSE q.negateMerge
    BY DEF Parsed, Merged
  <2>2. /\ MergesIn(words, n) \in SUBSET (1..n)
        /\ MergesIn(words, n + 1) = IF SetsMerge(w) THEN MergesIn(words, n) \cup {n + 1} ELSE MergesIn(words, n)
        /\ n + 1 \notin MergesIn(words, n)
    BY <1>1 DEF MergesIn
  <2>3. CASE SetsMerge(w)
    <3>1. IsLast(n + 1, MergesIn(words, n + 1))
      BY <2>2, <2>3, LastGrows
    <3> QED BY <1>1, <2>1, <2>3, <3>1
  <2>4. CASE ~SetsMerge(w)
    <3>1. \/ MergesIn(words, n) = {} /\ q.merge = NoValue
          \/ \E i \in 1..n : /\ IsLast(i, MergesIn(words, n))
                             /\ q.merge = words[i].value /\ q.negateMerge = Negated(words[i])
      BY DEF Reads
    <3> QED BY <1>1, <2>1, <2>2, <2>4, <3>1
  <2> QED BY <2>3, <2>4
<1>5. \/ BranchesIn(words, n + 1) = {} /\ r.branch = NoValue
      \/ \E i \in 1 .. n + 1 : /\ IsLast(i, BranchesIn(words, n + 1))
                               /\ r.branch = words[i].value /\ r.negateBranch = Negated(words[i])
  <2>1. /\ r.branch = IF SetsBranch(w) THEN w.value ELSE q.branch
        /\ r.negateBranch = IF SetsBranch(w) THEN Negated(w) ELSE q.negateBranch
    BY DEF Parsed, Branched
  <2>2. /\ BranchesIn(words, n) \in SUBSET (1..n)
        /\ BranchesIn(words, n + 1) = IF SetsBranch(w) THEN BranchesIn(words, n) \cup {n + 1} ELSE BranchesIn(words, n)
        /\ n + 1 \notin BranchesIn(words, n)
    BY <1>1 DEF BranchesIn
  <2>3. CASE SetsBranch(w)
    <3>1. IsLast(n + 1, BranchesIn(words, n + 1))
      BY <2>2, <2>3, LastGrows
    <3> QED BY <1>1, <2>1, <2>3, <3>1
  <2>4. CASE ~SetsBranch(w)
    <3>1. \/ BranchesIn(words, n) = {} /\ q.branch = NoValue
          \/ \E i \in 1..n : /\ IsLast(i, BranchesIn(words, n))
                             /\ q.branch = words[i].value /\ q.negateBranch = Negated(words[i])
      BY DEF Reads
    <3> QED BY <1>1, <2>1, <2>2, <2>4, <3>1
  <2> QED BY <2>3, <2>4
<1>6. IsQuery(r)
  BY DEF Parsed
<1> HIDE DEF w
<1> QED BY <1>2, <1>3, <1>4, <1>5, <1>6 DEF Reads

(* An input: a sequence of words with dashes that are there or not.        *)
IsInput(words) ==
    /\ words \in Seq(ToSet(words))
    /\ \A i \in 1..Len(words) : words[i].dash \in BOOLEAN

LEMMA ParseReads ==
    ASSUME NEW words, IsInput(words)
    PROVE  Reads(parseSearchQuery(words), words, Len(words))
<1> DEFINE len == Len(words)
           query == CHOOSE f : IsParse(f, words, len)
<1>1. len \in Nat
  BY DEF IsInput
<1>2. IsParse(query, words, len)
  BY <1>1, ParseExists
<1>3. parseSearchQuery(words) = query[len]
  BY DEF parseSearchQuery, IsParse
<1> HIDE DEF query
<1>4. \A k \in 0..len : query[k] = IF k = 0 THEN NewQuery ELSE ParseWord(query[k - 1], words[k])
  BY <1>2 DEF IsParse
<1> DEFINE T == {k \in Nat : k <= len => Reads(query[k], words, k)}
<1>5. 0 \in T
  BY <1>1, <1>4, ReadsNothing
<1>6. ASSUME NEW k \in T PROVE k + 1 \in T
  <2> SUFFICES ASSUME k + 1 <= len PROVE Reads(query[k + 1], words, k + 1)
    OBVIOUS
  <2>1. k + 1 \in 0..len /\ k + 1 \in 1..len /\ k + 1 # 0 /\ (k + 1) - 1 = k /\ k <= len
    BY <1>1
  <2>2. Reads(query[k], words, k)
    BY <1>6, <2>1
  <2>3. query[k + 1] = ParseWord(query[k], words[k + 1])
    BY <1>4, <2>1
  <2>4. Parsed(query[k + 1], query[k], words[k + 1])
    BY <2>2, <2>3, ParseWordHolds DEF Reads
  <2>5. words[k + 1].dash \in BOOLEAN
    BY <2>1 DEF IsInput
  <2> QED BY <2>2, <2>4, <2>5, ReadsOn
<1>7. \A k \in T : k + 1 \in T
  BY <1>6
<1> HIDE DEF T
<1>8. \A k \in Nat : k \in T
  BY <1>5, <1>7, FromZeroOn DEF T
<1> QED BY <1>1, <1>3, <1>8 DEF T

-----------------------------------------------------------------------------
(* The matcher keeps what the words mean.                                  *)

LEMMA TheLast ==
    ASSUME NEW at, NEW i \in Int, at \subseteq Int, IsLast(i, at)
    PROVE  (CHOOSE m \in at : \A j \in at : j <= m) = i
<1>1. \A m \in at : (\A j \in at : j <= m) => m = i
  BY DEF IsLast
<1> QED BY <1>1 DEF IsLast

Holds(k, v, index, c) == c \in Holders(k, v) /\ (k \in {"file", "path"} => c \in index)

LEMMA MatchesMeant ==
    ASSUME NEW words, IsInput(words), NEW index, NEW c,
           NEW q, Reads(q, words, Len(words))
    PROVE  matchCommit(q, index, c) <=> Meant(words, index, c)
<1> DEFINE D == DOMAIN words
           Is(i, kind, neg) == words[i].key = kind /\ words[i].value # NoValue /\ Negated(words[i]) = neg
           Has(i) == /\ c \in Holders(words[i].key, words[i].value)
                     /\ words[i].key \in {"file", "path"} => c \in index
           LastOf(at) == words[CHOOSE i \in at : \A j \in at : j <= i]
           dates(k) == {i \in D : Is(i, k, FALSE) /\ words[i].value \in DOMAIN Fits[k]}
           merges == {i \in D : words[i].key = "merge" /\ words[i].value \in {"only", "exclude"}}
           branches == {i \in D : words[i].key = "branch" /\ words[i].value # NoValue}
           n == Len(words)
           A1 == \A i \in D : words[i].key \notin Known =>
                    (c \in Holders("text", TextOf(words[i]))) # Negated(words[i])
           A2 == \A i \in D : \A k \in Gathered :
                    /\ Is(i, k, FALSE) => \E j \in D : Is(j, k, FALSE) /\ Has(j)
                    /\ Is(i, k, TRUE) => ~Has(i)
           A3 == \A k \in Dates : dates(k) # {} => c \in Fits[k][LastOf(dates(k)).value]
           A4 == merges # {} => (c \in Merges) = ((LastOf(merges).value = "only") # LastOf(merges).dash)
           A5 == branches # {} => (c \in Reachable(LastOf(branches).value)) # LastOf(branches).dash
           B1 == \A v \in q.any["text"] : Holds("text", v, index, c)
           B2 == \A k \in Gathered : q.any[k] # {} => \E v \in q.any[k] : Holds(k, v, index, c)
           B3 == \A k \in Kinds : \A v \in q.none[k] : ~Holds(k, v, index, c)
           B4 == \A k \in Dates : q[k] # NoValue => c \in FitsOf(k, q[k])
           B5 == q.merge # NoValue => (c \in Merges) = KeepsMerges(q)
           B6 == q.branch # NoValue => (c \in Reachable(q.branch)) # q.negateBranch
<1>1. Meant(words, index, c) <=> A1 /\ A2 /\ A3 /\ A4 /\ A5
  BY DEF Meant
<1>2. matchCommit(q, index, c) <=> B1 /\ B2 /\ B3 /\ B4 /\ B5 /\ B6
  BY DEF matchCommit, Holds
<1>3. /\ n \in Nat /\ D = 1..n
      /\ \A i \in D : words[i].dash \in BOOLEAN /\ Negated(words[i]) \in BOOLEAN
  BY NegatedIsBoolean, LenProperties DEF IsInput
<1>4. \A k \in Kinds : /\ q.any[k] = Kept(words, n, k, FALSE)
                       /\ q.none[k] = Kept(words, n, k, TRUE)
  BY DEF Reads
<1>5. /\ Kinds = Gathered \cup {"text"} /\ "text" \notin Gathered /\ Gathered \subseteq Known
      /\ {"merge", "branch"} \subseteq Known /\ "text" \notin {"file", "path"} /\ Dates \subseteq Known
  BY KindsApart
<1>6. A1 <=> B1 /\ (\A v \in q.none["text"] : ~Holds("text", v, index, c))
  <2>1. /\ q.any["text"] = {TextOf(words[i]) : i \in {j \in D : words[j].key \notin Known /\ Negated(words[j]) = FALSE}}
        /\ q.none["text"] = {TextOf(words[i]) : i \in {j \in D : words[j].key \notin Known /\ Negated(words[j]) = TRUE}}
    BY <1>3, <1>4, <1>5 DEF Kept, Adds, ValueOf
  <2>2. \A v : Holds("text", v, index, c) <=> c \in Holders("text", v)
    BY <1>5 DEF Holds
  <2> QED BY <1>3, <2>1, <2>2
<1>7. ASSUME NEW k \in Gathered
      PROVE  /\ q.any[k] = {words[i].value : i \in {j \in D : Is(j, k, FALSE)}}
             /\ q.none[k] = {words[i].value : i \in {j \in D : Is(j, k, TRUE)}}
             /\ \A i \in D, neg \in BOOLEAN : Is(i, k, neg) => (Has(i) <=> Holds(k, words[i].value, index, c))
  <2>1. k \in Kinds /\ k # "text"
    BY <1>5
  <2>2. \A i \in D : /\ Adds(words[i], k) <=> words[i].key = k /\ words[i].value # NoValue
                     /\ ValueOf(words[i], k) = words[i].value
    BY <2>1 DEF Adds, ValueOf
  <2> QED BY <1>3, <1>4, <2>1, <2>2 DEF Kept, Holds
<1>8. A2 <=> B2 /\ (\A k \in Gathered : \A v \in q.none[k] : ~Holds(k, v, index, c))
  <2> HIDE DEF D, Is, Has
  <2>1. ASSUME NEW k \in Gathered
        PROVE  /\ (\A i \in D : Is(i, k, FALSE) => \E j \in D : Is(j, k, FALSE) /\ Has(j))
                    <=> (q.any[k] # {} => \E v \in q.any[k] : Holds(k, v, index, c))
               /\ (\A i \in D : Is(i, k, TRUE) => ~Has(i))
                    <=> \A v \in q.none[k] : ~Holds(k, v, index, c)
    <3> DEFINE on  == {j \in D : Is(j, k, FALSE)}
               off == {j \in D : Is(j, k, TRUE)}
    <3>1. /\ q.any[k] = {words[i].value : i \in on} /\ q.none[k] = {words[i].value : i \in off}
          /\ \A i \in on \cup off : Has(i) <=> Holds(k, words[i].value, index, c)
      BY <1>7
    <3>2. /\ \A i : i \in on <=> i \in D /\ Is(i, k, FALSE)
          /\ \A i : i \in off <=> i \in D /\ Is(i, k, TRUE)
      OBVIOUS
    <3> HIDE DEF on, off
    <3>3. /\ (\A i \in on : \E j \in on : Has(j)) <=> (q.any[k] # {} => \E v \in q.any[k] : Holds(k, v, index, c))
          /\ (\A i \in off : ~Has(i)) <=> \A v \in q.none[k] : ~Holds(k, v, index, c)
      BY <3>1
    <3> QED BY <3>2, <3>3
  <2> QED BY <2>1
<1>9. A3 <=> B4
  <2> SUFFICES ASSUME NEW k \in Dates
               PROVE  (dates(k) # {} => c \in Fits[k][LastOf(dates(k)).value]) <=> (q[k] # NoValue => c \in FitsOf(k, q[k]))
    OBVIOUS
  <2>1. dates(k) = DatesOf(words, n, k)
    BY <1>3 DEF DatesOf, SetsDate
  <2>2. CASE DatesOf(words, n, k) = {} /\ q[k] = NoValue
    BY <2>1, <2>2
  <2>3. ASSUME NEW i \in 1..n, IsLast(i, DatesOf(words, n, k)), q[k] = words[i].value
        PROVE  (dates(k) # {} => c \in Fits[k][LastOf(dates(k)).value]) <=> (q[k] # NoValue => c \in FitsOf(k, q[k]))
    <3>1. LastOf(dates(k)) = words[i]
      <4>1. DatesOf(words, n, k) \subseteq Int /\ i \in Int
        BY <1>3 DEF DatesOf
      <4>2. (CHOOSE m \in DatesOf(words, n, k) : \A j \in DatesOf(words, n, k) : j <= m) = i
        BY <2>3, <4>1, TheLast
      <4> QED BY <2>1, <4>2
    <3>2. dates(k) # {} /\ words[i].value # NoValue /\ words[i].value \in DOMAIN Fits[k]
      BY <2>1, <2>3 DEF IsLast, DatesOf, SetsDate
    <3> HIDE DEF dates, LastOf
    <3> QED BY <2>3, <3>1, <3>2 DEF FitsOf
  <2> QED BY <2>2, <2>3 DEF Reads
<1>10. A4 <=> B5
  <2>1. merges = MergesIn(words, n)
    BY <1>3 DEF MergesIn, SetsMerge
  <2>2. CASE MergesIn(words, n) = {} /\ q.merge = NoValue
    BY <2>1, <2>2
  <2>3. ASSUME NEW i \in 1..n, IsLast(i, MergesIn(words, n)), q.merge = words[i].value,
               q.negateMerge = Negated(words[i])
        PROVE  A4 <=> B5
    <3>1. LastOf(merges) = words[i]
      <4>1. MergesIn(words, n) \subseteq Int /\ i \in Int
        BY <1>3 DEF MergesIn
      <4>2. (CHOOSE m \in MergesIn(words, n) : \A j \in MergesIn(words, n) : j <= m) = i
        BY <2>3, <4>1, TheLast
      <4> QED BY <2>1, <4>2
    <3>2. merges # {} /\ words[i].key = "merge" /\ words[i].value \in {"only", "exclude"}
      BY <2>1, <2>3 DEF IsLast, MergesIn, SetsMerge
    <3>3. words[i].value # NoValue
      BY <3>2, NoValueAssumption
    <3>4. Negated(words[i]) = words[i].dash
      BY <1>3, <1>5, <3>2 DEF Negated
    <3> HIDE DEF merges, LastOf
    <3> QED BY <2>3, <3>1, <3>2, <3>3, <3>4 DEF KeepsMerges
  <2> QED BY <2>2, <2>3 DEF Reads
<1>11. A5 <=> B6
  <2>1. branches = BranchesIn(words, n)
    BY <1>3 DEF BranchesIn, SetsBranch
  <2>2. CASE BranchesIn(words, n) = {} /\ q.branch = NoValue
    BY <2>1, <2>2
  <2>3. ASSUME NEW i \in 1..n, IsLast(i, BranchesIn(words, n)), q.branch = words[i].value,
               q.negateBranch = Negated(words[i])
        PROVE  A5 <=> B6
    <3>1. LastOf(branches) = words[i]
      <4>1. BranchesIn(words, n) \subseteq Int /\ i \in Int
        BY <1>3 DEF BranchesIn
      <4>2. (CHOOSE m \in BranchesIn(words, n) : \A j \in BranchesIn(words, n) : j <= m) = i
        BY <2>3, <4>1, TheLast
      <4> QED BY <2>1, <4>2
    <3>2. branches # {} /\ words[i].key = "branch" /\ words[i].value # NoValue
      BY <2>1, <2>3 DEF IsLast, BranchesIn, SetsBranch
    <3>3. Negated(words[i]) = words[i].dash
      BY <1>3, <1>5, <3>2 DEF Negated
    <3> HIDE DEF branches, LastOf
    <3> QED BY <2>3, <3>1, <3>2, <3>3
  <2> QED BY <2>2, <2>3 DEF Reads
<1>12. B3 <=> /\ \A v \in q.none["text"] : ~Holds("text", v, index, c)
              /\ \A k \in Gathered : \A v \in q.none[k] : ~Holds(k, v, index, c)
  BY <1>5
<1> HIDE DEF A1, A2, A3, A4, A5, B1, B2, B3, B4, B5, B6
<1> QED BY <1>1, <1>2, <1>6, <1>8, <1>9, <1>10, <1>11, <1>12

LEMMA LeastOf ==
    ASSUME NEW S \in SUBSET Nat, S # {}
    PROVE  \E n \in S : \A m \in S : n <= m
<1>1. PICK k \in S : TRUE
  OBVIOUS
<1>2. PICK n \in S : \A m \in S : ~(<<m, n>> \in OpToRel(<, Nat))
  BY NatLessThanWellFounded, WFMin, Zenon
<1>3. \A m \in S : ~(m < n)
  BY <1>2 DEF OpToRel
<1> QED BY <1>3

-----------------------------------------------------------------------------
(* The search box.                                                         *)

Offered == {[dash |-> FALSE, key |-> Suggestions[i], value |-> NoValue] : i \in 1..Len(Suggestions)}
Words == Offered \cup UNION {ToSet(words) : words \in Inputs}

BoxType ==
    [input : Seq(Words), debounce : BOOLEAN, focused : BOOLEAN, open : BOOLEAN, active : Nat,
     items : Seq(Seq(Words)), recent : Seq(Seq(Words)), index : {NoIndex} \cup Indexes, partial : BOOLEAN,
     fetching : BOOLEAN, badge : {"hidden", "count", "position"}, frame : BOOLEAN, hint : BOOLEAN]

(* The option that is marked is one of those listed.                       *)
Neat(b) == b \in BoxType /\ b.active <= Options(b)

(* What a search for the words shows, by their meaning.                    *)
Result(words, index) ==
    IF IsEmpty(parseSearchQuery(words)) THEN NoSearch
    ELSE [words |-> words, kept |-> {c \in Commit : Meant(words, index, c)}]

Shows(b, search) == ~b.debounce => search = Result(b.input, KnownFiles(b))

(* Nothing that a result depends on has changed.                           *)
Same(d, b) == d.input = b.input /\ d.debounce = b.debounce /\ d.index = b.index

LEMMA InputsHold ==
    /\ \A words \in Inputs : words \in Seq(Words)
    /\ \A i \in 1..Len(Suggestions) : [dash |-> FALSE, key |-> Suggestions[i], value |-> NoValue] \in Words
    /\ \A words \in Seq(Words) : IsInput(words)
    /\ Len(Suggestions) \in Nat
<1>1. ASSUME NEW words \in Inputs PROVE words \in Seq(Words)
  <2>1. words \in Seq(ToSet(words)) /\ ToSet(words) \subseteq Words
    BY InputsAssumption DEF Words
  <2> QED BY <2>1, LenProperties
<1>2. \A w \in Words : w.dash \in BOOLEAN
  <2>1. \A words \in Inputs : \A w \in ToSet(words) : w.dash \in BOOLEAN
    BY InputsAssumption
  <2>2. \A w \in Offered : w.dash = FALSE
    BY DEF Offered
  <2> QED BY <2>1, <2>2 DEF Words
<1>3. ASSUME NEW words \in Seq(Words) PROVE IsInput(words)
  <2>1. Len(words) \in Nat /\ words \in [1..Len(words) -> Words]
    BY LenProperties
  <2>2. \A i \in 1..Len(words) : words[i] \in ToSet(words)
    BY <2>1 DEF ToSet
  <2>3. words \in Seq(ToSet(words))
    BY <2>1, <2>2
  <2> QED BY <1>2, <2>1, <2>3 DEF IsInput
<1>4. Len(Suggestions) \in Nat
  BY InputsAssumption
<1>5. \A i \in 1..Len(Suggestions) : [dash |-> FALSE, key |-> Suggestions[i], value |-> NoValue] \in Words
  <2>1. \A i \in 1..Len(Suggestions) : [dash |-> FALSE, key |-> Suggestions[i], value |-> NoValue] \in Offered
    BY DEF Offered
  <2> QED BY <2>1 DEF Words
<1> QED BY <1>1, <1>3, <1>4, <1>5

LEMMA ResultHolds ==
    ASSUME NEW words \in Seq(Words), NEW index
    PROVE  createSearchMatcher(parseSearchQuery(words), index) = {c \in Commit : Meant(words, index, c)}
<1>1. IsInput(words)
  BY InputsHold
<1>2. \A c : matchCommit(parseSearchQuery(words), index, c) <=> Meant(words, index, c)
  BY <1>1, ParseReads, MatchesMeant
<1> QED BY <1>2 DEF createSearchMatcher

LEMMA NothingSearched == ASSUME NEW index PROVE Result(<<>>, index) = NoSearch
<1>1. parseSearchQuery(<<>>) = NewQuery
  <2> DEFINE query == CHOOSE f : IsParse(f, <<>>, 0)
  <2>1. IsParse(query, <<>>, 0)
    BY ParseExists
  <2>2. parseSearchQuery(<<>>) = query[0]
    BY DEF parseSearchQuery, IsParse
  <2> HIDE DEF query
  <2> QED BY <2>1, <2>2 DEF IsParse
<1>2. IsEmpty(NewQuery)
  <2> DEFINE r == [NewQuery EXCEPT !.errors = 0, !.negateMerge = FALSE, !.negateBranch = FALSE]
  <2>1. NewQuery = [f \in Fields |-> NewQuery[f]] /\ r = [f \in Fields |-> r[f]]
    BY DEF NewQuery, Fields
  <2>2. NewQuery.errors = 0 /\ NewQuery.negateMerge = FALSE /\ NewQuery.negateBranch = FALSE
    BY DEF NewQuery
  <2>3. \A f \in Fields : r[f] = NewQuery[f]
    BY <2>1, <2>2
  <2> HIDE DEF r
  <2>4. r = NewQuery
    BY <2>1, <2>3
  <2> QED BY <2>4 DEF r, IsEmpty
<1> QED BY <1>1, <1>2 DEF Result

LEMMA RemoveFirstType ==
    ASSUME NEW S, NEW s \in Seq(S), NEW e
    PROVE  RemoveFirst(s, e) \in Seq(S)
<1>1. CASE ~\E i \in 1..Len(s) : s[i] = e
  BY <1>1 DEF RemoveFirst
<1>2. CASE \E i \in 1..Len(s) : s[i] = e
  <2> DEFINE k == SelectInSeq(s, LAMBDA v : v = e)
  <2>1. RemoveFirst(s, e) = SubSeq(s, 1, k - 1) \o SubSeq(s, k + 1, Len(s))
    BY <1>2 DEF RemoveFirst, RemoveAt
  <2>2. k \in 1..Len(s)
    <3> DEFINE I == {i \in 1..Len(s) : s[i] = e}
    <3>1. k = IF I # {} THEN Min(I) ELSE 0
      BY DEF SelectInSeq
    <3>2. PICK m \in I : \A j \in I : m <= j
      <4>1. Len(s) \in Nat
        BY LenProperties
      <4>2. I \subseteq Nat /\ I # {}
        BY <1>2, <4>1
      <4> HIDE DEF I
      <4> QED BY <4>2, LeastOf
    <3>3. I # {} /\ \A m1 \in I, m2 \in I : (\A j \in I : m1 <= j) /\ (\A j \in I : m2 <= j) => m1 = m2
      BY <1>2
    <3> HIDE DEF I
    <3>4. Min(I) \in I
      BY <3>2 DEF Min
    <3>5. k \in I
      BY <3>1, <3>3, <3>4
    <3> QED BY <3>5 DEF I
  <2> HIDE DEF k
  <2>3. Len(s) \in Nat
    BY LenProperties
  <2>4. SubSeq(s, 1, k - 1) \in Seq(S) /\ SubSeq(s, k + 1, Len(s)) \in Seq(S)
    BY <2>2, <2>3, SubSeqProperties
  <2> QED BY <2>1, <2>4, ConcatProperties
<1> QED BY <1>1, <1>2

LEMMA SavedHolds ==
    ASSUME NEW b \in BoxType, NEW words \in Seq(Words)
    PROVE  /\ saveRecentSearch(b, words) \in BoxType
           /\ Same(saveRecentSearch(b, words), b)
           /\ saveRecentSearch(b, words).items = b.items /\ saveRecentSearch(b, words).active = b.active
<1> DEFINE all == <<words>> \o RemoveFirst(b.recent, words)
           n == IF Len(all) < MaxRecent THEN Len(all) ELSE MaxRecent
           kept == SubSeq(all, 1, n)
<1>1. all \in Seq(Seq(Words))
  <2>1. RemoveFirst(b.recent, words) \in Seq(Seq(Words))
    BY RemoveFirstType DEF BoxType
  <2>2. <<words>> \in Seq(Seq(Words))
    OBVIOUS
  <2> QED BY <2>1, <2>2, ConcatProperties
<1>2. Len(all) \in Nat /\ \A i \in 1..Len(all) : all[i] \in Seq(Words)
  BY <1>1, LenProperties
<1>3. n \in Int /\ \A i \in 1..n : all[i] \in Seq(Words)
  BY <1>2, BoxAssumption
<1>4. kept \in Seq(Seq(Words))
  BY <1>3, SubSeqProperties
<1>5. saveRecentSearch(b, words) = [b EXCEPT !.recent = kept]
  BY DEF saveRecentSearch
<1> HIDE DEF kept
<1> QED BY <1>4, <1>5 DEF BoxType, Same

(* The dropdown and the focus.                                             *)
LEMMA DrawnHolds ==
    ASSUME NEW b, Neat(b)
    PROVE  /\ Neat(openDropdown(b)) /\ Same(openDropdown(b), b)
           /\ Neat(closeDropdown(b)) /\ Same(closeDropdown(b), b)
<1> DEFINE shut == [b EXCEPT !.open = FALSE, !.active = 0]
           drawn == [[b EXCEPT !.items = b.recent, !.active = 0] EXCEPT !.open = TRUE]
<1>1. Len(b.recent) \in Nat /\ Len(b.items) \in Nat /\ Len(Suggestions) \in Nat
  BY InputsHold, LenProperties DEF Neat, BoxType
<1>2. Neat(shut) /\ Same(shut, b)
  <2>1. shut \in BoxType /\ shut.items = b.items /\ shut.active = 0 /\ Same(shut, b)
    BY DEF Neat, BoxType, Same
  <2> HIDE DEF shut
  <2>2. Options(shut) \in Nat
    BY <1>1, <2>1 DEF Options
  <2> QED BY <2>1, <2>2 DEF Neat
<1>3. Neat(drawn) /\ Same(drawn, b)
  <2>1. drawn \in BoxType /\ drawn.items = b.recent /\ drawn.active = 0 /\ Same(drawn, b)
    BY DEF Neat, BoxType, Same
  <2> HIDE DEF drawn
  <2>2. Options(drawn) \in Nat
    BY <1>1, <2>1 DEF Options
  <2> QED BY <2>1, <2>2 DEF Neat
<1>4. /\ openDropdown(b) = IF b.open THEN b ELSE drawn
      /\ closeDropdown(b) = IF b.open THEN shut ELSE b
  BY DEF openDropdown, closeDropdown, renderDropdown
<1>5. Same(b, b)
  BY DEF Same
<1> HIDE DEF shut, drawn
<1> QED BY <1>2, <1>3, <1>4, <1>5

LEMMA FocusHolds ==
    ASSUME NEW b, Neat(b)
    PROVE  Neat(focusInput(b)) /\ Same(focusInput(b), b)
<1> DEFINE q == [b EXCEPT !.focused = TRUE]
<1>1. Neat(q) /\ Same(q, b)
  BY DEF Neat, Same, BoxType, Options
<1>2. focusInput(b) = IF b.focused THEN b ELSE openDropdown(q)
  BY DEF focusInput
<1> HIDE DEF q
<1> QED BY <1>1, <1>2, DrawnHolds DEF Same

LEMMA MarkedHolds ==
    ASSUME NEW b, Neat(b), NEW i \in Nat
    PROVE  Neat(setActiveDescendant(b, i)) /\ Same(setActiveDescendant(b, i), b)
<1>1. Options(b) \in Nat
  BY InputsHold, LenProperties DEF Neat, BoxType, Options
<1> DEFINE to == IF i > Options(b) THEN Options(b) ELSE i
<1>2. to \in Nat /\ to <= Options(b)
  BY <1>1
<1>3. setActiveDescendant(b, i) = [b EXCEPT !.active = to]
  BY DEF setActiveDescendant
<1> HIDE DEF to
<1> QED BY <1>2, <1>3 DEF Neat, Same, BoxType, Options

(* A change of the input waits for its timer.                              *)
LEMMA InputHolds ==
    ASSUME NEW b, Neat(b), NEW words \in Seq(Words)
    PROVE  Neat(onInputChange(b, words)) /\ onInputChange(b, words).debounce
BY DEF onInputChange, Neat, BoxType, Options

LEMMA InsertHolds ==
    ASSUME NEW b, Neat(b), NEW i \in 1..Len(Suggestions)
    PROVE  Neat(insertQualifier(b, Suggestions[i])) /\ insertQualifier(b, Suggestions[i]).debounce
<1>1. Neat(focusInput(b))
  BY FocusHolds
<1>2. Append(b.input, [dash |-> FALSE, key |-> Suggestions[i], value |-> NoValue]) \in Seq(Words)
  BY InputsHold, AppendProperties DEF Neat, BoxType
<1> QED BY <1>1, <1>2, InputHolds DEF insertQualifier

(* A search leaves the input as it is and shows its result.                *)
LEMMA SearchedHolds ==
    ASSUME NEW b, Neat(b), NEW words \in Seq(Words)
    PROVE  /\ Neat(executeSearch(b, words).box) /\ Same(executeSearch(b, words).box, b)
           /\ executeSearch(b, words).shown = Result(words, KnownFiles(b))
<1> DEFINE q == parseSearchQuery(words)
           files == NeedsFiles(q)
           hinted == [b EXCEPT !.hint = q.errors > 0]
           asked == [hinted EXCEPT !.partial = @ /\ files, !.frame = TRUE,
                                   !.fetching = @ \/ (files /\ b.index = NoIndex)]
           found == [words |-> words, kept |-> createSearchMatcher(q, KnownFiles(b))]
<1>1. Neat(hinted) /\ Same(hinted, b)
  <2>1. (q.errors > 0) \in BOOLEAN
    OBVIOUS
  <2> HIDE DEF q
  <2> QED BY <2>1 DEF Neat, Same, BoxType, Options
<1>2. Neat(asked) /\ Same(asked, b)
  <2> HIDE DEF hinted
  <2>1. files \in BOOLEAN
    BY DEF NeedsFiles
  <2> HIDE DEF files
  <2>2. hinted \in BoxType
    BY <1>1 DEF Neat
  <2>3. /\ asked \in BoxType /\ Same(asked, hinted)
        /\ asked.active = hinted.active /\ Options(asked) = Options(hinted)
    BY <2>1, <2>2 DEF Same, BoxType, Options
  <2> QED BY <1>1, <2>3 DEF Neat, Same
<1>3. executeSearch(b, words) =
        IF IsEmpty(q) THEN [onSearch(hinted, NoSearch) EXCEPT !.box.badge = "hidden"]
        ELSE onSearch(saveRecentSearch(asked, words), found)
  BY DEF executeSearch
<1>4. found = [words |-> words, kept |-> {c \in Commit : Meant(words, KnownFiles(b), c)}]
  BY ResultHolds
<1> HIDE DEF hinted, asked, found, files
<1>5. CASE IsEmpty(q)
  <2> DEFINE badge == IF hinted.input = <<>> THEN "hidden" ELSE "count"
             r == [box |-> [hinted EXCEPT !.badge = badge], shown |-> NoSearch]
  <2>1. executeSearch(b, words) = [r EXCEPT !.box.badge = "hidden"]
    BY <1>3, <1>5 DEF onSearch
  <2>2. /\ [r EXCEPT !.box.badge = "hidden"].shown = NoSearch
        /\ [r EXCEPT !.box.badge = "hidden"].box = [[hinted EXCEPT !.badge = badge] EXCEPT !.badge = "hidden"]
    OBVIOUS
  <2>3. Neat([[hinted EXCEPT !.badge = badge] EXCEPT !.badge = "hidden"])
        /\ Same([[hinted EXCEPT !.badge = badge] EXCEPT !.badge = "hidden"], b)
    BY <1>1 DEF Neat, Same, BoxType, Options
  <2> HIDE DEF r, badge
  <2> QED BY <1>5, <2>1, <2>2, <2>3 DEF Result
<1>6. CASE ~IsEmpty(q)
  <2> DEFINE saved == saveRecentSearch(asked, words)
             badge == IF saved.input = <<>> THEN "hidden" ELSE "count"
  <2>1. Neat(saved) /\ Same(saved, b)
    BY <1>2, SavedHolds DEF Neat, Same, Options
  <2>2. executeSearch(b, words) = [box |-> [saved EXCEPT !.badge = badge], shown |-> found]
    BY <1>3, <1>6 DEF onSearch
  <2> HIDE DEF saved
  <2>3. Neat([saved EXCEPT !.badge = badge]) /\ Same([saved EXCEPT !.badge = badge], b)
    BY <2>1 DEF Neat, Same, BoxType, Options
  <2> QED BY <1>4, <1>6, <2>2, <2>3 DEF Result
<1> QED BY <1>5, <1>6

(* Clearing the box shows no search.                                       *)
LEMMA ClearHolds ==
    ASSUME NEW b, Neat(b)
    PROVE  /\ Neat(onClear(b).box) /\ onClear(b).box.input = <<>>
           /\ onClear(b).shown = NoSearch
<1> DEFINE emptied == [b EXCEPT !.input = <<>>, !.debounce = FALSE, !.hint = FALSE, !.badge = "hidden"]
<1>1. Neat(emptied) /\ emptied.input = <<>>
  <2>1. <<>> \in Seq(Words)
    BY EmptySeq
  <2>2. emptied \in BoxType /\ emptied.items = b.items /\ emptied.active = b.active /\ emptied.input = <<>>
    BY <2>1 DEF Neat, BoxType
  <2> HIDE DEF emptied
  <2> QED BY <2>2 DEF Neat, Options
<1>2. /\ onClear(b).box = focusInput(closeDropdown(emptied))
      /\ onClear(b).shown = NoSearch
  <2> DEFINE e == [b EXCEPT !.input = <<>>, !.debounce = FALSE, !.hint = FALSE]
             told == [box |-> [e EXCEPT !.badge = IF e.input = <<>> THEN "hidden" ELSE "count"], shown |-> NoSearch]
  <2>1. onClear(b) = [told EXCEPT !.box = focusInput(closeDropdown(@))]
    BY DEF onClear, onSearch
  <2>2. told.box = emptied /\ told.shown = NoSearch
    BY DEF Neat, BoxType
  <2>3. told = [box |-> told.box, shown |-> told.shown]
    OBVIOUS
  <2> HIDE DEF told, emptied
  <2> QED BY <2>1, <2>2, <2>3
<1> HIDE DEF emptied
<1> QED BY <1>1, <1>2, DrawnHolds, FocusHolds DEF Same

(* A click on an option, and Enter.                                        *)
LEMMA ActivateHolds ==
    ASSUME Neat(box), NEW i \in 1..Options(box)
    PROVE  Neat(activate(box, i).box) /\ Shows(activate(box, i).box, activate(box, i).shown)
<1>1. Len(Suggestions) \in Nat /\ Len(box.items) \in Nat /\ i \in Nat
  BY InputsHold, LenProperties DEF Neat, BoxType, Options
<1>2. CASE i <= Len(Suggestions)
  <2>1. activate(box, i) = [box |-> insertQualifier(box, Suggestions[i]), shown |-> shown]
    BY <1>2 DEF activate
  <2>2. i \in 1..Len(Suggestions)
    BY <1>1, <1>2
  <2> QED BY <2>1, <2>2, InsertHolds DEF Shows
<1>3. CASE i > Len(Suggestions)
  <2> DEFINE words == box.items[i - Len(Suggestions)]
             typed == [box EXCEPT !.input = words]
             b == closeDropdown(focusInput(typed))
  <2>1. words \in Seq(Words)
    <3>1. i - Len(Suggestions) \in 1..Len(box.items)
      BY <1>1, <1>3 DEF Options
    <3> QED BY <3>1, LenProperties DEF Neat, BoxType
  <2>2. Neat(typed) /\ typed.input = words
    <3> HIDE DEF words
    <3> QED BY <2>1 DEF Neat, BoxType, Options
  <2>3. Neat(b) /\ b.input = words
    <3> HIDE DEF typed, words
    <3> QED BY <2>2, FocusHolds, DrawnHolds DEF Same
  <2>4. activate(box, i) = executeSearch(b, words)
    BY <1>1, <1>3 DEF activate, applyRecentSearch
  <2> HIDE DEF b, words
  <2> QED BY <2>1, <2>3, <2>4, SearchedHolds DEF Shows, Same, KnownFiles
<1> QED BY <1>1, <1>2, <1>3

LEMMA EnterHolds ==
    ASSUME Neat(box), Shows(box, shown)
    PROVE  Neat(PressEnter(box).box) /\ Shows(PressEnter(box).box, PressEnter(box).shown)
<1>1. box.active \in Nat /\ box.active <= Options(box) /\ box.input \in Seq(Words) /\ box \in BoxType
  BY DEF Neat, BoxType
<1>2. CASE box.active > 0
  <2>1. box.active \in 1..Options(box)
    BY <1>1, <1>2, InputsHold, LenProperties DEF BoxType, Options
  <2>2. PressEnter(box) = activate(box, box.active)
    BY <1>2 DEF PressEnter
  <2> QED BY <2>1, <2>2, ActivateHolds
<1>3. CASE box.active = 0
  <2> DEFINE filed == IF box.input = <<>> THEN box ELSE saveRecentSearch(box, box.input)
  <2>1. PressEnter(box) = [box |-> closeDropdown(filed), shown |-> shown]
    BY <1>1, <1>3 DEF PressEnter
  <2>2. Neat(filed) /\ Same(filed, box)
    BY <1>1, SavedHolds DEF Neat, Same, Options
  <2> HIDE DEF filed
  <2>3. Neat(closeDropdown(filed)) /\ Same(closeDropdown(filed), box)
    BY <2>2, DrawnHolds DEF Same
  <2> QED BY <2>1, <2>3 DEF Shows, Same, KnownFiles
<1> QED BY <1>1, <1>2, <1>3

-----------------------------------------------------------------------------
(* A page that was disposed of stays so.                                   *)

LEMMA DestroyedHears ==
    ASSUME NEW c, c.destroyed, Sound(c)
    PROVE  /\ \A available \in BOOLEAN : setRepositoryAvailable(c, available).destroyed
           /\ scheduleReconnect(c) = c
           /\ \A made \in BOOLEAN : connect(c, made) = c
           /\ Responded(c).destroyed
           /\ \A recent \in Nat : trackFailure(c, recent).destroyed
<1>1. ASSUME NEW q \in ConnType, q.destroyed, NEW available \in BOOLEAN
      PROVE  setRepositoryAvailable(q, available).destroyed
  <2> DEFINE r == [q EXCEPT !.available = available]
  <2>1. r.destroyed
    BY <1>1 DEF ConnType
  <2>2. setRepositoryAvailable(q, available) = BannerHears(r)
    BY DEF setRepositoryAvailable
  <2> HIDE DEF r
  <2>3. BannerHears(r) = r
    BY <2>1 DEF BannerHears
  <2> QED BY <2>1, <2>2, <2>3
<1>2. ASSUME NEW recent \in Nat PROVE trackFailure(c, recent).destroyed
  <2> DEFINE q == [c EXCEPT !.failures = recent + 1]
  <2>1. q \in ConnType /\ q.destroyed
    BY DEF Sound, ConnType
  <2>2. trackFailure(c, recent) = IF q.failures >= Threshold THEN setRepositoryAvailable(q, FALSE) ELSE q
    BY DEF trackFailure
  <2> HIDE DEF q
  <2> QED BY <1>1, <2>1, <2>2
<1>3. scheduleReconnect(c) = c /\ \A made \in BOOLEAN : connect(c, made) = c
  BY DEF scheduleReconnect, connect
<1>4. Responded(c).destroyed
  BY DEF Responded, Sound, ConnType
<1> QED BY <1>1, <1>2, <1>3, <1>4 DEF Sound

LEMMA DestroyedStays ==
    ASSUME Sound(conn), conn.destroyed, Search \/ Connected
    PROVE  conn'.destroyed
<1>1. CASE Search
  <2>1. \A recent \in 0..conn.failures : recent \in Nat
    BY DEF Sound, ConnType
  <2>2. ASSUME Counted PROVE conn'.destroyed
    BY <2>1, <2>2, DestroyedHears DEF Counted
  <2>3. CASE DiffStatsArrive
    BY <2>3, DestroyedHears DEF DiffStatsArrive
  <2>4. CASE DiffStatsFail
    BY <2>2, <2>4 DEF DiffStatsFail
  <2>5. CASE DebounceFires \/ FrameFires
    BY <2>5 DEF DebounceFires, FrameFires
  <2>6. CASE Type \/ Focus \/ PointerDownOutside \/ ClearButton \/ ClickOption \/ updatePosition \/ onKeyDown
    BY <2>6 DEF Type, Focus, PointerDownOutside, ClearButton, ClickOption, updatePosition, onKeyDown, UserOfBox
  <2> QED BY <1>1, <2>3, <2>4, <2>5, <2>6 DEF Search
<1>2. CASE Connected
  <2>1. /\ conn.timers = 0 /\ conn \in ConnType
        /\ \A i \in DOMAIN conn.sockets : conn.sockets[i] = "closing"
    BY DEF Sound, Single, ConnType
  <2>2. CASE TimerFires
    BY <2>1, <2>2 DEF TimerFires
  <2>3. CASE SocketOpens
    BY <2>1, <2>3 DEF SocketOpens
  <2>4. CASE SocketCloses
    <3>1. PICK i \in DOMAIN conn.sockets : conn' = closed(conn, i)
      BY <2>4 DEF SocketCloses
    <3> DEFINE q == [conn EXCEPT !.sockets = RemoveAt(@, i)]
    <3>2. q.destroyed
      BY <2>1 DEF ConnType
    <3>3. closed(conn, i) = scheduleReconnect(q)
      BY DEF closed
    <3> HIDE DEF q
    <3> QED BY <3>1, <3>2, <3>3 DEF scheduleReconnect
  <2>5. CASE OnRepoMetadata
    BY <2>1, <2>5 DEF OnRepoMetadata
  <2>6. CASE OtherCallReturns
    BY <2>6 DEF OtherCallReturns, Here
  <2>7. CASE DismissBanner \/ BannerFades
    BY <2>1, <2>7 DEF DismissBanner, BannerFades, ConnType
  <2>8. CASE RetryConnection
    BY <2>8 DEF RetryConnection
  <2>9. CASE RetryReturns
    BY <2>9, DestroyedHears DEF RetryReturns
  <2> QED BY <1>2, <2>2, <2>3, <2>4, <2>5, <2>6, <2>7, <2>8, <2>9 DEF Connected
<1> QED BY <1>1, <1>2

-----------------------------------------------------------------------------
(* The box is well formed at any time, and the graph shows its input while *)
(* the page is there.                                                      *)
BoxInv == Neat(box) /\ (Here => Shows(box, shown))

LEMMA BoxStart == ASSUME Init PROVE BoxInv
<1>1. box = NewBox /\ shown = NoSearch
  BY DEF Init
<1>2. <<>> \in Seq(Words) /\ <<>> \in Seq(Seq(Words)) /\ Len(Suggestions) \in Nat
  BY EmptySeq, InputsHold
<1>3. NewBox \in BoxType /\ NewBox.active = 0 /\ NewBox.items = <<>> /\ NewBox.input = <<>>
  BY <1>2 DEF NewBox, BoxType
<1> HIDE DEF NewBox
<1>4. Neat(box)
  BY <1>1, <1>2, <1>3 DEF Neat, Options
<1>5. Shows(box, shown)
  BY <1>1, <1>3, NothingSearched DEF Shows
<1> QED BY <1>4, <1>5 DEF BoxInv

(* A step that finds the input, the files and the timer as they were, and  *)
(* one that searches.                                                      *)
LEMMA StillShows ==
    ASSUME NEW b, NEW d, NEW search, Shows(b, search), Same(d, b)
    PROVE  Shows(d, search)
<1>1. KnownFiles(d) = KnownFiles(b)
  BY DEF Same, KnownFiles
<1> QED BY <1>1 DEF Shows, Same

LEMMA Searched ==
    ASSUME NEW b, Neat(b), Becomes(executeSearch(b, b.input))
    PROVE  Neat(box') /\ Shows(box', shown')
<1>1. b.input \in Seq(Words)
  BY DEF Neat, BoxType
<1> QED BY <1>1, SearchedHolds DEF Becomes, Shows, Same, KnownFiles

LEMMA SearchSees ==
    ASSUME Neat(box), Here => Shows(box, shown), Search
    PROVE  Neat(box') /\ (Here => Shows(box', shown'))
<1>1. CASE Type
  <2>1. PICK words \in Inputs : BoxBecomes([onInputChange(focusInput(box), words) EXCEPT !.active = 0])
    BY <1>1 DEF Type
  <2> DEFINE typed == onInputChange(focusInput(box), words)
  <2>2. Neat(typed) /\ typed.debounce
    BY InputsHold, FocusHolds, InputHolds
  <2> HIDE DEF typed
  <2> DEFINE b == [typed EXCEPT !.active = 0]
  <2>3. b \in BoxType /\ b.active = 0 /\ b.items = typed.items /\ b.debounce
    BY <2>2 DEF Neat, BoxType
  <2>4. box' = b
    BY <2>1 DEF BoxBecomes, typed
  <2>5. Options(b) \in Nat
    BY <2>3, InputsHold, LenProperties DEF BoxType, Options
  <2> HIDE DEF b
  <2> QED BY <2>3, <2>4, <2>5 DEF Neat, Shows
<1>2. CASE Focus
  <2>1. Neat(box') /\ Same(box', box) /\ shown' = shown
    BY <1>2, FocusHolds DEF Focus, BoxBecomes
  <2> QED BY <2>1, StillShows
<1>3. CASE PointerDownOutside
  <2> DEFINE b == closeDropdown(box)
  <2>1. Neat(b) /\ Same(b, box)
    BY DrawnHolds
  <2>2. box' = [b EXCEPT !.focused = FALSE] /\ shown' = shown
    BY <1>3 DEF PointerDownOutside, BoxBecomes
  <2> HIDE DEF b
  <2>3. Neat(box') /\ Same(box', box)
    BY <2>1, <2>2 DEF Neat, Same, BoxType, Options
  <2> QED BY <2>2, <2>3, StillShows
<1>4. CASE ClearButton
  <2> DEFINE b == [box EXCEPT !.focused = FALSE]
  <2>1. Neat(b)
    BY DEF Neat, BoxType, Options
  <2>2. Becomes(onClear(b))
    BY <1>4 DEF ClearButton
  <2> HIDE DEF b
  <2> QED BY <2>1, <2>2, ClearHolds, NothingSearched DEF Becomes, Shows
<1>5. CASE ClickOption
  BY <1>5, ActivateHolds DEF ClickOption, Becomes
<1>6. CASE updatePosition
  <2>1. Neat(box') /\ Same(box', box) /\ shown' = shown
    BY <1>6 DEF updatePosition, BoxBecomes, Neat, Same, BoxType, Options
  <2> QED BY <2>1, StillShows
<1>7. CASE onKeyDown
  <2>1. Here
    BY <1>7 DEF onKeyDown, UserOfBox
  <2>2. box.active \in Nat /\ Options(box) \in Nat
    BY InputsHold, LenProperties DEF Neat, BoxType, Options
  <2>3. CASE BoxBecomes(openDropdown(box)) \/ BoxBecomes(closeDropdown(box))
    <3>1. Neat(box') /\ Same(box', box) /\ shown' = shown
      BY <2>3, DrawnHolds DEF BoxBecomes
    <3> QED BY <2>1, <3>1, StillShows
  <2>4. CASE BoxBecomes([box EXCEPT !.focused = FALSE])
    <3>1. Neat(box') /\ Same(box', box) /\ shown' = shown
      BY <2>4 DEF BoxBecomes, Neat, Same, BoxType, Options
    <3> QED BY <2>1, <3>1, StillShows
  <2>5. ASSUME NEW i \in Nat, BoxBecomes(setActiveDescendant(box, i))
        PROVE  Neat(box') /\ Shows(box', shown')
    <3>1. Neat(box') /\ Same(box', box) /\ shown' = shown
      BY <2>5, MarkedHolds DEF BoxBecomes
    <3> QED BY <2>1, <3>1, StillShows
  <2>6. CASE BoxBecomes(setActiveDescendant(box, box.active + 1))
    BY <2>2, <2>5, <2>6
  <2>7. CASE box.active > 0 /\ \E i \in {1, box.active - 1, Options(box)} : BoxBecomes(setActiveDescendant(box, i))
    <3>1. PICK i \in {1, box.active - 1, Options(box)} : BoxBecomes(setActiveDescendant(box, i))
      BY <2>7
    <3>2. i \in Nat
      BY <2>2, <2>7
    <3> QED BY <2>5, <3>1, <3>2
  <2>8. CASE Becomes(PressEnter(box))
    BY <2>1, <2>8, EnterHolds DEF Becomes
  <2> QED BY <1>7, <2>3, <2>4, <2>6, <2>7, <2>8 DEF onKeyDown
<1>8. CASE DebounceFires
  <2> DEFINE b == [box EXCEPT !.debounce = FALSE]
  <2>1. Neat(b) /\ b.input = box.input
    BY DEF Neat, BoxType, Options
  <2>2. Becomes(executeSearch(b, b.input))
    BY <1>8, <2>1 DEF DebounceFires
  <2> HIDE DEF b
  <2> QED BY <2>1, <2>2, Searched
<1>9. CASE FrameFires
  <2>1. Neat(box') /\ Same(box', box) /\ shown' = shown
    BY <1>9 DEF FrameFires, BoxBecomes, Neat, Same, BoxType, Options
  <2> QED BY <2>1, StillShows
<1>10. CASE DiffStatsArrive
  <2>1. PICK index \in Indexes, complete \in BOOLEAN :
          LET b == [box EXCEPT !.index = index, !.partial = ~complete, !.fetching = FALSE]
          IN Becomes(executeSearch(b, b.input))
    BY <1>10 DEF DiffStatsArrive
  <2> DEFINE b == [box EXCEPT !.index = index, !.partial = ~complete, !.fetching = FALSE]
  <2>2. Neat(b)
    BY DEF Neat, BoxType, Options
  <2>3. Becomes(executeSearch(b, b.input))
    BY <2>1
  <2> HIDE DEF b
  <2> QED BY <2>2, <2>3, Searched
<1>11. CASE DiffStatsFail
  <2> DEFINE b == [box EXCEPT !.partial = FALSE, !.fetching = FALSE]
  <2>1. Neat(b)
    BY DEF Neat, BoxType, Options
  <2>2. Becomes(executeSearch(b, b.input))
    BY <1>11 DEF DiffStatsFail
  <2> HIDE DEF b
  <2> QED BY <2>1, <2>2, Searched
<1> QED BY <1>1, <1>2, <1>3, <1>4, <1>5, <1>6, <1>7, <1>8, <1>9, <1>10, <1>11 DEF Search

THEOREM BoxInvariant == Spec => []BoxInv
<1>1. Init => BoxInv
  BY BoxStart
<1>2. ConnInv /\ BoxInv /\ [Next]_vars => BoxInv'
  <2> SUFFICES ASSUME Sound(conn), BoxInv, [Next]_vars PROVE BoxInv'
    BY DEF ConnInv
  <2>1. CASE Search
    <3>1. Here' => Here
      BY <2>1, DestroyedStays DEF Here, Sound, ConnType
    <3>2. Neat(box') /\ (Here => Shows(box', shown'))
      BY <2>1, SearchSees DEF BoxInv
    <3> QED BY <3>1, <3>2 DEF BoxInv
  <2>2. CASE Connected
    <3>1. Here' => Here
      BY <2>2, DestroyedStays DEF Here
    <3>2. box' = box /\ shown' = shown
      BY <2>2 DEF Connected, Quiet, TimerFires, SocketOpens, SocketCloses, OnRepoMetadata, OtherCallReturns,
                  DismissBanner, BannerFades, RetryConnection, RetryReturns
    <3> QED BY <3>1, <3>2 DEF BoxInv
  <2>3. CASE Dispose
    <3>1. ~Here'
      BY <2>3 DEF Dispose, destroy, Here, Sound, ConnType
    <3>2. Neat(box')
      BY <2>3 DEF Dispose, BoxBecomes, BoxInv, Neat, BoxType, Options
    <3> QED BY <3>1, <3>2 DEF BoxInv
  <2>4. CASE UNCHANGED vars
    BY <2>4 DEF vars, BoxInv, Here
  <2> QED BY <2>1, <2>2, <2>3, <2>4 DEF Next
<1> QED BY <1>1, <1>2, ConnectionInvariant, PTL DEF Spec

(* Once no change of the input waits for its timer, the graph shows the    *)
(* commits that the words of the input mean, with the files known by then, *)
(* and no search when they mean nothing (search.js: executeSearch, the     *)
(* answer for the files, clear; searchQuery.js: parse and match), for any  *)
(* inputs, recent searches, answers and order of them.                     *)
THEOREM SearchMeansInput == Spec => []SearchShowsInput
<1>1. BoxInv => SearchShowsInput
  BY DEF BoxInv, Shows, Result, SearchShowsInput
<1> QED BY <1>1, BoxInvariant, PTL
===============================================================================
