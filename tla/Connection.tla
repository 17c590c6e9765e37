------------------------------ MODULE Connection ------------------------------
(***************************************************************************)
(* The browser's connection (web/backend.js), what the page says of it     *)
(* (web/errorState.js, connectionBanner.js, repoUnavailableOverlay.js) and *)
(* the failures it counts (web/apiFetch.js), as operators on a record.     *)
(***************************************************************************)
EXTENDS Integers, SequencesExt

CONSTANTS InitialDelay, MaxDelay, \* RECONNECT_DELAY_INITIAL_MS, .._MAX_MS
          Threshold               \* ESCALATION_THRESHOLD

ASSUME DelayAssumption == /\ {InitialDelay, Threshold} \subseteq Nat \ {0}
                          /\ MaxDelay \in Nat /\ InitialDelay <= MaxDelay

\* A socket is "connecting", "open" or "closing"; one that has closed is gone.
\* greeted: the repoSummary of the socket opened last has come.
NewConnection == [sockets |-> <<>>, timers |-> 0, delay |-> InitialDelay, attempt |-> 0,
                  destroyed |-> FALSE, state |-> "connected", told |-> 0, available |-> TRUE,
                  banner |-> "hidden", dismissed |-> FALSE, wasDown |-> FALSE, fading |-> FALSE,
                  failures |-> 0, greeted |-> FALSE]

----------------------------------------------------------------------------
(* Every change of the error state reaches the banner.                     *)

BannerHears(c) ==
    LET q == [c EXCEPT !.fading = FALSE]
    IN CASE c.destroyed -> c
         [] ~c.destroyed /\ c.state = "connected" /\ c.wasDown ->
               [q EXCEPT !.banner = "success", !.dismissed = FALSE, !.fading = TRUE, !.wasDown = FALSE]
         [] ~c.destroyed /\ c.state = "connected" /\ ~c.wasDown -> [q EXCEPT !.banner = "hidden"]
         [] OTHER -> [q EXCEPT !.wasDown = TRUE, !.banner = IF c.dismissed THEN @ ELSE "warning"]

setConnectionState(c, state, attempt) == BannerHears([c EXCEPT !.state = state, !.told = attempt])

setRepositoryAvailable(c, available) == BannerHears([c EXCEPT !.available = available])

----------------------------------------------------------------------------
(* The socket.                                                             *)

\* Mutant: a socket closed by the page reconnects too.
ReconnectAlways(c) ==
    LET q == [c EXCEPT !.attempt = @ + 1, !.timers = @ + 1]
    IN setConnectionState(q, "reconnecting", q.attempt)

scheduleReconnect(c) ==
    IF c.destroyed THEN c
    ELSE LET q == [c EXCEPT !.attempt = @ + 1, !.timers = @ + 1,
                            !.delay = IF @ * 2 < MaxDelay THEN @ * 2 ELSE MaxDelay]
         IN setConnectionState(q, "reconnecting", q.attempt)

\* Mutant: a constructor that fails ends it.
ConnectOnce(c, made) == IF made /\ ~c.destroyed THEN [c EXCEPT !.sockets = Append(@, "connecting")] ELSE c

(* The constructor itself may fail.                                        *)
connect(c, made) ==
    CASE c.destroyed -> c
      [] ~c.destroyed /\ made -> [c EXCEPT !.sockets = Append(@, "connecting")]
      [] OTHER -> scheduleReconnect(c)

\* Mutant: the delay stays where the attempts took it.
OpenedDelayed(c, i) ==
    setConnectionState([c EXCEPT !.sockets[i] = "open", !.attempt = 0, !.greeted = FALSE], "connected", 0)

opened(c, i) ==
    setConnectionState([c EXCEPT !.sockets[i] = "open", !.delay = InitialDelay, !.attempt = 0,
                                 !.greeted = FALSE], "connected", 0)

(* The server's first message to a socket: whatever it was, the repository *)
(* is available, and a banner that still says "Reconnected" goes.          *)
onRepoMetadata(c) == setRepositoryAvailable([c EXCEPT !.greeted = TRUE], TRUE)

closed(c, i) == scheduleReconnect([c EXCEPT !.sockets = RemoveAt(@, i)])

destroy(c) ==
    [c EXCEPT !.destroyed = TRUE, !.timers = IF @ > 0 THEN @ - 1 ELSE 0,
              !.fading = FALSE, !.banner = "gone",
              !.sockets = [i \in DOMAIN @ |-> IF i = Len(@) THEN "closing" ELSE @[i]]]

----------------------------------------------------------------------------
(* Failures of API calls: those that left the window count no more, enough *)
(* of the others call the repository unavailable, a success clears all.    *)

trackFailure(c, recent) ==
    LET q == [c EXCEPT !.failures = recent + 1]
    IN IF q.failures >= Threshold THEN setRepositoryAvailable(q, FALSE) ELSE q

Responded(c) == [c EXCEPT !.failures = 0]
===============================================================================
