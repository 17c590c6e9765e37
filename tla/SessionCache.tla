---------------------------- MODULE SessionCache ----------------------------
(***************************************************************************)
(* The session's current repository and what is derived from it and kept:  *)
(* the diffCache shared by the HTTP handlers, and the goroutines that warm *)
(* it with analytics after every reload (scheduleAnalyticsPrewarm). A      *)
(* handler and a prewarm goroutine both read the repository, compute for a *)
(* long time without any lock, and store what they computed; a reload      *)
(* clears the cache at any point in between.                               *)
(***************************************************************************)
EXTENDS RepositoryDelta, Naturals, Sequences, FiniteSets

CONSTANTS Prewarmer,   \* slots for prewarm goroutines: a bound on how many are alive
          Reader,      \* threads that serve the handlers that fill diffCache
          Periods,     \* the sequence of analytics periods to warm
          cacheSize    \* entries diffCache holds

ASSUME CacheAssumption == cacheSize \in Nat \ {0} /\ Periods \in Seq(STRING)

VARIABLES cached,      \* rs.cached.repo
          diffCache,   \* rs.diffCache
          prewarm,     \* the prewarm goroutines
          reader       \* the handlers

cacheVars == <<cached, diffCache, prewarm, reader>>

LRU == INSTANCE LRUCache
         WITH Key <- {}, Value <- {}, maxSize <- cacheSize, MaxUses <- 0,
              cache <- diffCache, clock <- 0, lastUse <- <<>>

(* analytics.CacheKey: the query, the hash of HEAD and the commit count.   *)
CacheKey(repo, period) == <<"analytics", period, repo.head, Cardinality(repo.commits)>>

(* handleBulkDiffStats: the limit, which is one value here, and no more.   *)
BulkKey == <<"bulk-diffstats">>

(* Both responses are computed from all the commits of the repository.     *)
Response(repo) == repo.commits

Get(key) == diffCache' = LRU!GetCache(diffCache, key)
Put(key, val) == diffCache' = LRU!PutCache(diffCache, key, val)
Hit(key) == key \in DOMAIN diffCache.items

IdlePrewarmer == [pc |-> "idle", repo |-> EmptyRepository, next |-> 1, current |-> FALSE]
IdleReader == [pc |-> "idle", repo |-> EmptyRepository, key |-> <<>>, served |-> {}]

-----------------------------------------------------------------------------
(* Mutant: a new goroutine does not retire those before it. *)
prewarmKeepsEarlier(repo) ==
    IF Periods = <<>>
    THEN UNCHANGED prewarm
    ELSE \E new \in {w \in Prewarmer : prewarm[w].pc = "idle"} :
            prewarm' = [prewarm EXCEPT ![new] =
                          [pc |-> "check", repo |-> repo, next |-> 1, current |-> TRUE]]

(* scheduleAnalyticsPrewarm: gen := ++analyticsGen and a new goroutine.    *)
(* A goroutine's gen is compared for equality with the latest one only, so *)
(* that current, "my gen is the latest", stands for it.                    *)
scheduleAnalyticsPrewarm(repo) ==
    LET retired(w) == [prewarm[w] EXCEPT !.current = FALSE]
    IN  IF Periods = <<>>
        THEN prewarm' = [w \in Prewarmer |-> retired(w)]
        ELSE \E new \in {w \in Prewarmer : prewarm[w].pc = "idle"} :
                prewarm' = [w \in Prewarmer |->
                              IF w = new
                              THEN [pc |-> "check", repo |-> repo, next |-> 1, current |-> TRUE]
                              ELSE retired(w)]

Advance(w, pc) == prewarm' = [prewarm EXCEPT ![w].pc = pc]
Finish(w) == prewarm' = [prewarm EXCEPT ![w] = IdlePrewarmer]
NextPeriod(w) ==
    IF prewarm[w].next = Len(Periods) THEN Finish(w)
    ELSE prewarm' = [prewarm EXCEPT ![w].pc = "check", ![w].next = @ + 1]

PrewarmKey(w) == CacheKey(prewarm[w].repo, Periods[prewarm[w].next])

(* analyticsGenCurrent, before and after the long Build.                   *)
PrewarmCheck(w) ==
    /\ prewarm[w].pc \in {"check", "recheck"}
    /\ IF ~prewarm[w].current THEN Finish(w)
       ELSE Advance(w, IF prewarm[w].pc = "check" THEN "get" ELSE "put")
    /\ UNCHANGED <<cached, diffCache, reader>>

PrewarmGet(w) ==
    /\ prewarm[w].pc = "get"
    /\ Get(PrewarmKey(w))
    /\ IF Hit(PrewarmKey(w)) THEN NextPeriod(w) ELSE Advance(w, "build")
    /\ UNCHANGED <<cached, reader>>

PrewarmBuild(w) ==
    /\ prewarm[w].pc = "build"
    /\ Advance(w, "recheck") \/ NextPeriod(w)    \* or Build failed
    /\ UNCHANGED <<cached, diffCache, reader>>

PrewarmPut(w) ==
    /\ prewarm[w].pc = "put"
    /\ Put(PrewarmKey(w), Response(prewarm[w].repo))
    /\ NextPeriod(w)
    /\ UNCHANGED <<cached, reader>>

Prewarm(w) == PrewarmCheck(w) \/ PrewarmGet(w) \/ PrewarmBuild(w) \/ PrewarmPut(w)

-----------------------------------------------------------------------------
(* handleAnalytics and handleBulkDiffStats have one shape: Repo(), Get,    *)
(* and on a miss the computation and Put, with no look at what happened in *)
(* the meantime. served is the answer the client was given.                *)
ReaderKeys(repo) == {BulkKey} \cup {CacheKey(repo, Periods[i]) : i \in DOMAIN Periods}

ReadRepo(r) ==
    /\ reader[r].pc = "idle"
    /\ \E key \in ReaderKeys(cached) :
          reader' = [reader EXCEPT ![r] = [pc |-> "get", repo |-> cached,
                                           key |-> key, served |-> {}]]
    /\ UNCHANGED <<cached, diffCache, prewarm>>

ReaderGet(r) ==
    LET key == reader[r].key
    IN  /\ reader[r].pc = "get"
        /\ Get(key)
        /\ reader' = IF Hit(key)
                     THEN [reader EXCEPT ![r].pc = "done", ![r].served = diffCache.items[key]]
                     ELSE [reader EXCEPT ![r].pc = "put"]
        /\ UNCHANGED <<cached, prewarm>>

(* Mutant: the computation reads the session's repository again. *)
ReaderPutCurrent(r) ==
    /\ reader[r].pc = "put"
    /\ Put(reader[r].key, Response(cached))
    /\ reader' = [reader EXCEPT ![r].pc = "done", ![r].served = Response(cached)]
    /\ UNCHANGED <<cached, prewarm>>

ReaderPut(r) ==
    /\ reader[r].pc = "put"
    /\ Put(reader[r].key, Response(reader[r].repo))
    /\ reader' = [reader EXCEPT ![r].pc = "done", ![r].served = Response(reader[r].repo)]
    /\ UNCHANGED <<cached, prewarm>>

ReaderFail(r) ==       \* the computation failed: 500, nothing stored
    /\ reader[r].pc = "put"
    /\ reader' = [reader EXCEPT ![r] = IdleReader]
    /\ UNCHANGED <<cached, diffCache, prewarm>>

ReaderDone(r) ==
    /\ reader[r].pc = "done"
    /\ reader' = [reader EXCEPT ![r] = IdleReader]
    /\ UNCHANGED <<cached, diffCache, prewarm>>

Read(r) == \/ ReadRepo(r) \/ ReaderGet(r) \/ ReaderPut(r)
           \/ ReaderFail(r) \/ ReaderDone(r)

-----------------------------------------------------------------------------
(* NewRepoSession: the repository it is given, an empty cache, generation 1. *)
CacheInit(repo) ==
    /\ cached = repo
    /\ diffCache = LRU!NewLRUCache
    /\ IF Periods = <<>>
       THEN prewarm = [w \in Prewarmer |-> IdlePrewarmer]
       ELSE LET first == CHOOSE w \in Prewarmer : TRUE
            IN  prewarm = [w \in Prewarmer |->
                             IF w = first
                             THEN [pc |-> "check", repo |-> repo, next |-> 1, current |-> TRUE]
                             ELSE IdlePrewarmer]
    /\ reader = [r \in Reader |-> IdleReader]

CacheNext == \/ \E w \in Prewarmer : Prewarm(w)
             \/ \E r \in Reader : Read(r)
=============================================================================
