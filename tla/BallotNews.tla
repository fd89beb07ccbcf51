------------------------------ MODULE BallotNews -------------------------------
(***************************************************************************)
(* What the application tells the world of a recorded ballot, outside the  *)
(* transaction that records it: the cached statistics are dropped, the     *)
(* webhook is called and the dashboards get the new totals, while readers  *)
(* compute statistics and cache them.  None of it is ordered with the same *)
(* work of another ballot.                                                 *)
(*                                                                         *)
(* A total is the set of ballots it counts.  A ballot that comes through   *)
(* the API is told before it is committed: VoteCastView.post calls         *)
(* cast_votes inside a transaction of its own.                             *)
(***************************************************************************)
EXTENDS Integers, FiniteSets, Sequences

CONSTANTS
    Voter, Reader,
    Audiences,         \* who may be there: "reports", "webhook", "dashboard"
    MaxFailures,       \* MAX_FAILURES of the webhook service
    MaxRetries,        \* MAX_RETRIES of sse_client.js
    MaxReads,          \* bound: statistics computed
    MaxRefreshes,      \* bound: refreshes of the dashboard
    MaxIncidents,      \* bound: killed workers, lost streams, reactivations
    Nothing

ASSUME NewsAssumption ==
    /\ {MaxFailures, MaxRetries} \subseteq Nat \ {0}
    /\ {MaxReads, MaxRefreshes, MaxIncidents} \subseteq Nat
    /\ Audiences \subseteq SUBSET {"reports", "webhook", "dashboard"}
    /\ \A S \in SUBSET Voter : Nothing # S
    /\ Nothing \notin [active : BOOLEAN, failures : Nat, streak : Nat]

VARIABLES
    audience,
    voted,      \* ballots committed
    worker,     \* the request of each voter
    cache,      \* one of the four cached reports, or Nothing
    reader,     \* requests for it
    hook,       \* the committed row of the webhook
    dashboard,  \* a browser with the dashboard open
    reads, refreshes, incidents

bounds == <<audience, reads, refreshes, incidents>>
newsVars == <<voted, worker, cache, reader, hook, dashboard, bounds>>

(* row: the webhook as the open transaction of an API request has written   *)
(* it, Nothing otherwise.  streak: failures recorded since a success was or *)
(* the operator looked, which only the properties see.                      *)
NewsInit ==
    /\ audience \in Audiences
    /\ voted = {}
    /\ worker = [v \in Voter |->
          [pc |-> "idle", api |-> FALSE, copy |-> Nothing, row |-> Nothing,
           payload |-> {}]]
    /\ cache = Nothing
    /\ reader = [r \in Reader |-> [pc |-> "idle", voted |-> {}, votes |-> {},
                                   missed |-> {}]]
    /\ hook = [active |-> "webhook" \in audience, failures |-> 0, streak |-> 0]
    /\ dashboard = [stream |-> "off", retries |-> 0, inbox |-> <<>>,
                    answer |-> Nothing, shown |-> {}]
    /\ reads = 0 /\ refreshes = 0 /\ incidents = 0

-------------------------------------------------------------------------------
(* The request that records a ballot, from cast_votes on *)

At(v, pc) == worker[v].pc = pc
GoesTo(v, pc) == worker' = [worker EXCEPT ![v].pc = pc]

(* The transaction of an API request stays open to the end of the request. *)
Uncommitted(v) == ~At(v, "idle") /\ v \notin voted

\* Mutant of Recorded: the web view commits at the end as well.
Recorded_Late(v, api) == UNCHANGED voted

Recorded(v, api) == IF api THEN UNCHANGED voted ELSE voted' = voted \cup {v}

CastVotes(v) ==
    /\ At(v, "idle")
    /\ \E api \in BOOLEAN :
          /\ Recorded(v, api)
          /\ worker' = [worker EXCEPT ![v].pc = "recorded", ![v].api = api]
    /\ UNCHANGED <<cache, reader, hook, dashboard, bounds>>

\* Mutant of Dropped: a report other than the four keys.
Dropped_Missed(report) == report

(* cache.delete: what the entry was does not matter. *)
Dropped(report) == Nothing

(* The readers that are at work have read before. *)
Invalidate(v) ==
    /\ At(v, "recorded")
    /\ cache' = Dropped(cache)
    /\ reader' = [r \in Reader |-> IF reader[r].pc = "idle" THEN reader[r]
                     ELSE [reader[r] EXCEPT !.missed = @ \cup {v}]]
    /\ GoesTo(v, "invalidated")
    /\ UNCHANGED <<voted, hook, dashboard, bounds>>

(* The row this request sees, and how its writes show: at once, or when its *)
(* transaction commits.  A row written by an open transaction is locked.    *)
HookSeenBy(v) == IF worker[v].row # Nothing THEN worker[v].row ELSE hook

Writable(v) == \A w \in Voter \ {v} : worker[w].row = Nothing

WriteHook(v, row, pc) ==
    /\ Writable(v)
    /\ IF Uncommitted(v)
       THEN /\ worker' = [worker EXCEPT ![v].pc = pc, ![v].row = row]
            /\ UNCHANGED hook
       ELSE /\ GoesTo(v, pc)
            /\ hook' = row
    /\ UNCHANGED <<voted, cache, reader, dashboard, bounds>>

(* WebhookService.dispatch: no webhook is active, or its address is refused *)
(* (_is_url_safe), or the request goes out with the row it was read from.   *)
Dispatch(v) ==
    /\ At(v, "invalidated")
    /\ \/ GoesTo(v, "told")
       \/ /\ hook.active
          /\ worker' = [worker EXCEPT ![v].pc = "posting",
                                      ![v].copy = HookSeenBy(v)]
    /\ UNCHANGED <<voted, cache, reader, hook, dashboard, bounds>>

(* save(update_fields): the counter, whatever it has become, and not        *)
(* is_active.                                                               *)
Delivered(v) ==
    /\ At(v, "posting")
    /\ WriteHook(v, [HookSeenBy(v) EXCEPT !.failures = 0, !.streak = 0], "told")

\* Mutant of Failures: the counter of the object, before BE-53.
Failures_OfCopy(v) == worker[v].copy.failures + 1

(* failure_count=F('failure_count') + 1 *)
Failures(v) == HookSeenBy(v).failures + 1

(* A status that is not ok, or a RequestException. *)
DeliveryFails(v) ==
    /\ At(v, "posting")
    /\ WriteHook(v, [HookSeenBy(v) EXCEPT !.failures = Failures(v),
                                          !.streak = @ + 1], "failed")

(* refresh_from_db: with what other deliveries wrote since. *)
CheckFailures(v) ==
    /\ At(v, "failed")
    /\ GoesTo(v, IF HookSeenBy(v).failures >= MaxFailures
                 THEN "disabling" ELSE "told")
    /\ UNCHANGED <<voted, cache, reader, hook, dashboard, bounds>>

Disable(v) ==
    /\ At(v, "disabling")
    /\ WriteHook(v, [HookSeenBy(v) EXCEPT !.active = FALSE], "told")

(* build_stats_payload: inside the open transaction it counts the request's *)
(* own ballot as well.                                                      *)
Counts(v) == IF Uncommitted(v) THEN voted \cup {v} ELSE voted

BuildStatsPayload(v) ==
    /\ At(v, "told")
    /\ worker' = [worker EXCEPT ![v].pc = "emitting", ![v].payload = Counts(v)]
    /\ UNCHANGED <<voted, cache, reader, hook, dashboard, bounds>>

(* emit_event: nobody who has not subscribed ever sees it.                  *)
EmitEvent(v) ==
    /\ At(v, "emitting")
    /\ dashboard' = IF dashboard.stream = "on"
                    THEN [dashboard EXCEPT !.inbox = Append(@, worker[v].payload)]
                    ELSE dashboard
    /\ worker' = [worker EXCEPT ![v].pc = "emitted", ![v].payload = {}]
    /\ UNCHANGED <<voted, cache, reader, hook, bounds>>

(* The end of VoteCastView.post's transaction. *)
CommitRequest(v) ==
    /\ At(v, "emitted") /\ Uncommitted(v)
    /\ voted' = voted \cup {v}
    /\ hook' = HookSeenBy(v)
    /\ worker' = [worker EXCEPT ![v].row = Nothing]
    /\ UNCHANGED <<cache, reader, dashboard, bounds>>

(* The process dies and its open transaction with it; a request of the web  *)
(* view that dies is one that takes no further step.                        *)
WorkerKilled(v) ==
    /\ Uncommitted(v) /\ ~At(v, "lost")
    /\ incidents < MaxIncidents
    /\ incidents' = incidents + 1
    /\ worker' = [worker EXCEPT ![v].pc = "lost", ![v].row = Nothing,
                                ![v].payload = {}]
    /\ UNCHANGED <<audience, voted, cache, reader, hook, dashboard, reads,
                   refreshes>>

(* The operator ticks is_active in the admin site; failure_count is a       *)
(* read-only field there.                                                   *)
Reactivate ==
    /\ ~hook.active /\ "webhook" \in audience
    /\ \A v \in Voter : worker[v].row = Nothing
    /\ incidents < MaxIncidents
    /\ incidents' = incidents + 1
    /\ hook' = [hook EXCEPT !.active = TRUE, !.streak = 0]
    /\ UNCHANGED <<audience, voted, worker, cache, reader, dashboard, reads,
                   refreshes>>

-------------------------------------------------------------------------------
(* AnalyticsService.get_statistics and the chart reports: one key each      *)

GetReport(r) ==
    /\ reader[r].pc = "idle"
    /\ cache = Nothing   \* otherwise it is the answer and nothing changes
    /\ "reports" \in audience
    /\ reads < MaxReads
    /\ reads' = reads + 1
    /\ reader' = [reader EXCEPT ![r].pc = "first", ![r].missed = {}]
    /\ UNCHANGED <<audience, voted, worker, cache, hook, dashboard, refreshes,
                   incidents>>

(* voted_count is counted before the votes; abstentions are the difference, *)
(* where it is positive.                                                    *)
CountVoters(r) ==
    /\ reader[r].pc = "first"
    /\ reader' = [reader EXCEPT ![r].pc = "second", ![r].voted = voted]
    /\ UNCHANGED <<voted, worker, cache, hook, dashboard, bounds>>

CountVotes(r) ==
    /\ reader[r].pc = "second"
    /\ reader' = [reader EXCEPT ![r].pc = "caching", ![r].votes = voted]
    /\ UNCHANGED <<voted, worker, cache, hook, dashboard, bounds>>

CacheReport(r) ==
    /\ reader[r].pc = "caching"
    /\ cache' = [voted |-> reader[r].voted, votes |-> reader[r].votes,
                 missed |-> reader[r].missed]
    /\ reader' = [reader EXCEPT ![r].pc = "idle", ![r].voted = {},
                                ![r].votes = {}, ![r].missed = {}]
    /\ UNCHANGED <<voted, worker, hook, dashboard, bounds>>

(* CHART_CACHE_TTL *)
ReportExpires ==
    /\ cache # Nothing
    /\ cache' = Nothing
    /\ UNCHANGED <<voted, worker, reader, hook, dashboard, bounds>>

-------------------------------------------------------------------------------
(* The dashboard: sse_client.js and the stream behind it *)

DashboardStep(d) ==
    /\ dashboard' = d
    /\ UNCHANGED <<audience, voted, worker, cache, reader, hook, reads>>

(* _event_stream: subscribed from here on. *)
Subscribe ==
    /\ dashboard.stream = "off" /\ "dashboard" \in audience
    /\ DashboardStep([dashboard EXCEPT !.stream = "on", !.retries = 0])
    /\ UNCHANGED <<refreshes, incidents>>

(* onerror: what was in flight is lost, and after enough errors in a row    *)
(* the page polls instead.  The server ends a stream as well, after an hour *)
(* or when Redis goes away.                                                 *)
StreamError ==
    /\ dashboard.stream # "polling" /\ "dashboard" \in audience
    /\ incidents < MaxIncidents
    /\ incidents' = incidents + 1
    /\ DashboardStep([dashboard EXCEPT
          !.stream = IF dashboard.retries + 1 >= MaxRetries
                     THEN "polling" ELSE "off",
          !.retries = @ + 1, !.inbox = <<>>])
    /\ UNCHANGED refreshes

(* applyStatsData takes whatever comes. *)
Receive ==
    /\ dashboard.inbox # <<>>
    /\ DashboardStep([dashboard EXCEPT !.inbox = Tail(@),
                                       !.shown = Head(dashboard.inbox)])
    /\ UNCHANGED <<refreshes, incidents>>

(* refreshStats: three seconds after the page is loaded, on some events and *)
(* every half minute while it polls; ElectionStatsView answers with what is *)
(* committed.                                                               *)
AskStats ==
    /\ dashboard.answer = Nothing /\ "dashboard" \in audience
    /\ refreshes < MaxRefreshes
    /\ refreshes' = refreshes + 1
    /\ DashboardStep([dashboard EXCEPT !.answer = voted])
    /\ UNCHANGED incidents

ApplyStats ==
    /\ dashboard.answer # Nothing
    /\ DashboardStep([dashboard EXCEPT !.shown = dashboard.answer,
                                       !.answer = Nothing])
    /\ UNCHANGED <<refreshes, incidents>>

-------------------------------------------------------------------------------
NewsNext ==
    \/ \E v \in Voter :
          \/ CastVotes(v) \/ Invalidate(v) \/ Dispatch(v)
          \/ Delivered(v) \/ DeliveryFails(v) \/ CheckFailures(v) \/ Disable(v)
          \/ BuildStatsPayload(v) \/ EmitEvent(v)
          \/ CommitRequest(v) \/ WorkerKilled(v)
    \/ \E r \in Reader :
          GetReport(r) \/ CountVoters(r) \/ CountVotes(r) \/ CacheReport(r)
    \/ ReportExpires \/ Reactivate
    \/ Subscribe \/ StreamError \/ Receive \/ AskStats \/ ApplyStats

NewsSpec == NewsInit /\ [][NewsNext]_newsVars

-------------------------------------------------------------------------------
(* A ballot that a cached report leaves out is one whose request has not    *)
(* invalidated it yet, or invalidated it while the report was computed, or  *)
(* came through the API, whose invalidation precedes the commit.            *)
Excused(v, report) ==
    \/ worker[v].pc = "recorded"
    \/ worker[v].api
    \/ v \in report.missed

(* A cached report never counts an abstention that nobody made (a voter     *)
(* without a vote), never a ballot that is not recorded, and misses a       *)
(* recorded one only in a race with its invalidation                        *)
(* (AnalyticsService, VoteService.cast_votes OPT-03).                       *)
CachedReportsAreHonest ==
    cache # Nothing =>
        /\ cache.voted \subseteq cache.votes
        /\ cache.votes \subseteq voted
        /\ \A v \in voted \ cache.voted : Excused(v, cache)

(* The totals a dashboard shows, or is about to, are of recorded ballots:   *)
(* an event is built after the commit, but for ballots through the API,     *)
(* whose commit may still fail (build_stats_payload, emit_event).           *)
ShownBallots ==
    UNION ({dashboard.shown} \cup {worker[v].payload : v \in Voter}
             \cup {dashboard.inbox[i] : i \in 1..Len(dashboard.inbox)})

ShownIsRecorded == \A v \in ShownBallots \ voted : worker[v].api

(* A webhook that has failed MAX_FAILURES times without a success between   *)
(* is off, unless the worker that has to switch it off is about to or died  *)
(* there (WebhookService._send: "atomic increment to prevent race            *)
(* conditions").                                                             *)
FailingIsDisabled ==
    hook.streak >= MaxFailures =>
        ~hook.active \/ \E v \in Voter : worker[v].pc \in {"failed", "disabling"}
===============================================================================
