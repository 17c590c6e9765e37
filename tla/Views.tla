--------------------------------- MODULE Views ---------------------------------
(***************************************************************************)
(* Two views of the commits in the browser: the lanes of the graph and the *)
(* analytics beside it (web/gitvista/app.js).  Each lays out what it was   *)
(* given, no call of one reaches the other, and their steps commute: a     *)
(* behaviour of both is one of each, and here a behaviour is of one.       *)
(***************************************************************************)
EXTENDS LaneStrategy

CONSTANTS WeekLength, Now, RollingWindow, ChurnWindow, SizeLimits, TopAuthors,
          Histories, Lightweight, TooLarge, Unknown, Cutoffs, Ranges, HydrateChunk,
          MayFail, AnalyticsSteps

VARIABLES subject,              \* the view this behaviour is of
          server, panel, used   \* of AnalyticsView

Analytics == INSTANCE AnalyticsView WITH MaxSteps <- AnalyticsSteps

ASSUME AnalyticsAssumption == Analytics!StatisticsAssumption /\ Analytics!ViewAssumption

views == <<vars, server, panel, used, subject>>

ViewsInit ==
    /\ subject \in {"lanes", "analytics"} /\ Init /\ Analytics!Init
    /\ subject = "lanes" => server.history = CHOOSE history \in Histories : TRUE

OfLanes == subject = "lanes" /\ Next /\ UNCHANGED <<server, panel, used, subject>>

OfAnalytics == subject = "analytics" /\ UNCHANGED <<vars, subject>>

(* The steps of AnalyticsView, each a disjunct: a run counts them apart.   *)
ViewsNext ==
    \/ OfLanes
    \/ OfAnalytics /\ Analytics!ServerChanges
    \/ OfAnalytics /\ Analytics!OnBootstrapChunk
    \/ OfAnalytics /\ Analytics!OnBootstrapComplete
    \/ OfAnalytics /\ Analytics!OnDelta
    \/ OfAnalytics /\ Analytics!OnShow
    \/ OfAnalytics /\ Analytics!Hide
    \/ OfAnalytics /\ Analytics!ViewLoaded
    \/ OfAnalytics /\ Analytics!ViewFails
    \/ OfAnalytics /\ Analytics!FrameFires
    \/ OfAnalytics /\ Analytics!SelectPeriod
    \/ OfAnalytics /\ Analytics!ApplyCustom
    \/ OfAnalytics /\ Analytics!AnalyticsArrive
    \/ OfAnalytics /\ Analytics!AnalyticsFail
    \/ OfAnalytics /\ Analytics!StatsArrive
    \/ OfAnalytics /\ Analytics!StatsFail
    \/ OfAnalytics /\ Analytics!IdentitiesArrive
    \/ OfAnalytics /\ Analytics!IdentitiesFail

ViewsSpec == ViewsInit /\ [][ViewsNext]_views

----------------------------------------------------------------------------
(* Properties of the analytics view, stated in its module.                 *)

(* What says it is loading is on its way, once (analyticsView.js:434, 484, *)
(* 1651).                                                                  *)
RequestsAccounted == Analytics!RequestsAccounted

(* Charts drawn from the commits of the browser count them alike           *)
(* (analyticsView.js:86-413).                                              *)
ChartsMeanTheCommits == Analytics!ChartsMeanTheCommits

(* "Main update - re-reads commits and redraws everything"                 *)
(* (analyticsView.js:1650).                                                *)
RedrawsEverything == Analytics!RedrawsEverything

(* "failed hydration batches can retry on a later update"                  *)
(* (analyticsView.js:470).                                                 *)
FailedBatchesRetry == Analytics!FailedBatchesRetry
===============================================================================
