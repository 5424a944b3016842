------------------------------ MODULE MargSync ------------------------------
(***************************************************************************)
(* The synchronisation of one Marg ERP company (marg-ede.service.ts): the  *)
(* lock kept in two status columns of the config row, the run that pages   *)
(* through the feed, the replay of saved pages, and everybody else who     *)
(* writes those columns: heartbeats, the hourly sweep, the operator.       *)
(*                                                                         *)
(* The feed (external) is a set of keys, each with the time it last        *)
(* changed; Marg answers a cursor with the next change after it.  API 2    *)
(* gives stock batches, API 1 account bills (a posting and its outstanding *)
(* amount), one row to a page.  Index and date-time of a cursor are one    *)
(* position on the time axis; 0 is the empty cursor.                       *)
(*                                                                         *)
(* A step of a worker is the code between two points where anything else   *)
(* may happen to the rows it uses: no statement here runs in a transaction *)
(* with the next one.                                                      *)
(***************************************************************************)
EXTENDS Naturals, Sequences

CONSTANTS
    StockKeys,      \* keys of API 2
    BillKeys,       \* keys of API 1
    InitialFeed,    \* [key -> time of its last change] before the first run
    Workers,        \* processes that may run a sync or a resume
    Requests,       \* what a run may be asked: [scope, window, mode]
    FromTime,       \* the fromDate of a windowed request
    MaxTime,        \* bound: changes of the feed
    MaxLogs,        \* bound: runs
    MaxTroubles     \* bound: failures, deaths and interventions together

Keys == StockKeys \cup BillKeys
Api(k) == IF k \in StockKeys THEN 2 ELSE 1
Time == 0..MaxTime
LogIds == 1..MaxLogs
Scopes == {"FULL", "ACCOUNTING"}
Windows == {"open", "from", "bounded"}   \* no date, fromDate only, both dates

\* A page holds one row, so no two of the changes share a position.
ASSUME SyncAssumption ==
    /\ MaxTime \in Nat /\ MaxLogs \in Nat /\ MaxTroubles \in Nat
    /\ FromTime \in 1..MaxTime
    /\ Requests \subseteq [scope : Scopes, window : Windows, mode : {"FETCH", "REPROJECT"}]
    /\ StockKeys \cap BillKeys = {}
    /\ InitialFeed \in [Keys -> Time]
    /\ \A j, k \in Keys : InitialFeed[j] = InitialFeed[k] /\ j # k => InitialFeed[j] = 0

VARIABLES
    now,        \* time of the last change of the feed
    feed,       \* [key -> time of its last change, 0 if Marg does not have it]
    config,     \* the marg_sync_configs row; inv, acct: the column says RUNNING;
                \* fresh: updatedAt is younger than the stale threshold;
                \* was: the cursor before its last change
    logs,       \* the marg_sync_logs rows
    finished,   \* log ids in the order of their completions
    pages,      \* the marg_raw_sync_pages rows and their stored payloads
    staged,     \* the marg_stocks and bill staging rows
    projected,  \* [bill -> version its journal entry was made from]
    workers,    \* what each process is doing
    troubles,   \* failures, deaths and interventions so far
    causes      \* history: what happened that the code does not guard against:
                \* "overlap": two processes were past the lock together;
                \* "moved": a cursor was set past rows without reading them, or
                \* an old page was staged over a newer one; "recovered": the
                \* stock cursor came from a backfill's log or the accounts';
                \* "hidden": a partial snapshot was taken for a complete one,
                \* or staging was cleared;
                \* "unprojected": a projection failed and the run went on

vars == <<now, feed, config, logs, finished, pages, staged, projected, workers, causes, troubles>>

NoLog == [status |-> "NONE", failure |-> "none", scope |-> "FULL", window |-> "open",
          cursor |-> 0, beat |-> FALSE, ended |-> FALSE]
NoRequest == [scope |-> "FULL", window |-> "open", mode |-> "FETCH"]
Idle == [pc |-> "idle", log |-> 0, req |-> NoRequest, cursor |-> [a \in 1..2 |-> 0],
         clean |-> [a \in 1..2 |-> FALSE], api |-> 2, page |-> {}, got |-> FALSE,
         touched |-> {}, bad |-> FALSE]

Init ==
    /\ feed = InitialFeed
    /\ now = CHOOSE t \in Time : (\A k \in Keys : feed[k] <= t) /\ (t = 0 \/ \E k \in Keys : feed[k] = t)
    /\ config = [inv |-> FALSE, acct |-> FALSE, cursor |-> [a \in 1..2 |-> 0],
                  was |-> [a \in 1..2 |-> 0], fresh |-> TRUE]
    /\ logs = [l \in LogIds |-> NoLog]
    /\ finished = <<>>
    /\ pages = {}
    /\ staged = [k \in Keys |-> [version |-> 0, hidden |-> FALSE, seen |-> 0]]
    /\ projected = [k \in BillKeys |-> 0]
    /\ workers = [w \in Workers |-> Idle]
    /\ causes = {}
    /\ troubles = 0

\* Processes past the lock, and the runs among them whose log has started.
Live(w) == workers[w].pc # "idle"
Running(w) == Live(w) /\ workers[w].pc # "begin" /\ workers[w].req.mode = "FETCH"

\* Processes are alike: of those that are free, one takes the next job.
NextFree(w) == workers[w] = Idle /\ w = CHOOSE v \in Workers : workers[v] = Idle

Goto(w, pc) == workers' = [workers EXCEPT ![w].pc = pc]
\* On to the last writes, which need only the log, the request and the cursor.
Wind(ws, w, pc) ==
    workers' = [ws EXCEPT ![w] = [Idle EXCEPT !.pc = pc, !.log = ws[w].log,
                                              !.req = ws[w].req, !.cursor = ws[w].cursor]]
Rest(w) == workers' = [workers EXCEPT ![w] = Idle]

Trouble == troubles < MaxTroubles /\ troubles' = troubles + 1

\* A write of the two status columns, which matter only as RUNNING or not; it
\* also moves updatedAt.
SetStatus(scope, status) ==
    [config EXCEPT !.acct = (status = "RUNNING"), !.fresh = TRUE,
                   !.inv = IF scope = "FULL" THEN status = "RUNNING" ELSE @]

-----------------------------------------------------------------------------
(* The feed and time (external).                                           *)

Change(k) ==
    /\ now < MaxTime
    /\ now' = now + 1
    /\ feed' = [feed EXCEPT ![k] = now + 1]
    /\ UNCHANGED <<config, logs, finished, pages, staged, projected, workers, causes, troubles>>

Drop(k) ==
    /\ feed[k] # 0
    /\ feed' = [feed EXCEPT ![k] = 0]
    /\ Trouble
    /\ UNCHANGED <<now, config, logs, finished, pages, staged, projected, workers, causes>>

\* The stale threshold passes: whatever no live process keeps alive is stale.
TimePasses ==
    /\ config' = [config EXCEPT !.fresh = @ /\ (~config.inv \/ \E w \in Workers : Live(w))]
    /\ logs' = [l \in LogIds |-> [logs[l] EXCEPT !.beat =
                   @ /\ (logs[l].status # "RUNNING" \/ \E w \in Workers : Live(w) /\ workers[w].log = l)]]
    /\ config' # config \/ logs' # logs
    /\ UNCHANGED <<now, feed, finished, pages, staged, projected, workers, causes, troubles>>

-----------------------------------------------------------------------------
(* runSync: lock, log, pages, snapshot, projection, commit.                *)

\* Mutated: only the column of the scope is looked at.
LockIsFreeForScope(scope) ==
    IF scope = "FULL" THEN ~config.inv ELSE ~config.acct

\* The compare-and-set that every run and every resume must win.
LockIsFree(scope) == ~config.inv /\ ~config.acct

\* History: another process is past the lock and has not given it back.
Working(w) == Live(w) /\ workers[w].pc \notin {"finish", "faillog"}
OverlapCauses == IF \E w \in Workers : Working(w) THEN {"overlap"} ELSE {}

LogsLeft == \E l \in LogIds : /\ logs[l].status = "NONE"
                            /\ \A w \in Workers : workers[w].pc # "begin"

\* The config is read, then the lock taken: the cursor a run works with may be
\* the one before a commit or a reset that came in between.
StartRun(w, req) ==
    /\ NextFree(w) /\ LogsLeft
    /\ LockIsFree(req.scope)
    /\ config' = SetStatus(req.scope, "RUNNING")
    /\ causes' = causes \cup OverlapCauses
    /\ \E read \in {config.cursor, config.was} :
          workers' = [workers EXCEPT ![w] =
              [Idle EXCEPT !.pc = "begin", !.req = req, !.cursor = read,
                           !.clean = [a \in 1..2 |-> read[a] = 0]]]
    /\ UNCHANGED <<now, feed, logs, finished, pages, staged, projected, troubles>>

\* getLatestCompletedSyncLogCursor: of any scope and any window.
CompletedAt == {i \in 1..Len(finished) : /\ logs[finished[i]].status = "COMPLETED"
                                         /\ logs[finished[i]].cursor > 0}
LatestLog == logs[finished[CHOOSE i \in CompletedAt : \A j \in CompletedAt : j <= i]]

Recovers(req, cursor) ==
    /\ req.scope = "FULL" /\ req.window = "open" /\ req.mode = "FETCH"
    /\ cursor[2] = 0
    /\ CompletedAt # {}

\* Where a run starts: at its fromDate, where the config says, or, when that
\* is empty, where the last completed log ended.
StartCursor(req, cursor) ==
    IF req.mode = "FETCH" /\ req.window # "open" THEN <<FromTime - 1, FromTime - 1>>
    ELSE IF Recovers(req, cursor) THEN [cursor EXCEPT ![2] = LatestLog.cursor]
    ELSE cursor

ActiveCursor(req, cursor) == IF req.scope = "FULL" THEN cursor[2] ELSE cursor[1]

\* History: a recovered cursor is not the position of a finished snapshot, and
\* it may be the position of another feed or of a window.
RecoveryCauses(req, cursor) ==
    IF ~Recovers(req, cursor) THEN {}
    ELSE {"hidden"} \cup IF LatestLog.scope = "FULL" /\ LatestLog.window = "open"
                        THEN {} ELSE {"recovered"}

\* The sync log is created; a failure up to here is not caught (Die), and the
\* lock stays.  A FULL run pages API 2 first; a reprojection pages nothing.
Begin(w, l) ==
    /\ workers[w].pc = "begin"
    /\ logs[l].status = "NONE"
    /\ \A m \in LogIds : m < l => logs[m].status # "NONE"
    /\ LET req == workers[w].req
           start == StartCursor(req, workers[w].cursor)
       IN  /\ logs' = [logs EXCEPT ![l] =
                  [NoLog EXCEPT !.status = "RUNNING", !.scope = req.scope,
                                !.window = req.window, !.beat = TRUE,
                                !.cursor = ActiveCursor(req, start)]]
           /\ causes' = causes \cup RecoveryCauses(req, workers[w].cursor)
           /\ workers' = [workers EXCEPT ![w] =
                  [@ EXCEPT !.pc = IF req.mode = "FETCH" THEN "fetch" ELSE "close",
                            !.log = l, !.cursor = start,
                            !.api = IF req.scope = "FULL" THEN 2 ELSE 1]]
    /\ UNCHANGED <<now, feed, config, finished, pages, staged, projected, troubles>>

\* Marg's answer to a cursor (external): the next key that changed, if any.
NextChanges(api, cursor) ==
    {k \in Keys : /\ Api(k) = api /\ feed[k] > cursor
                  /\ \A j \in Keys : Api(j) = api /\ feed[j] > cursor => feed[k] <= feed[j]}
IsLastChange(k) == \A j \in Keys : Api(j) = Api(k) => feed[j] <= feed[k]

\* Both loops end when the answer says COMPLETE: API 2, then API 1, then on.
AfterApi(w) == IF workers[w].api = 2 THEN [workers[w] EXCEPT !.pc = "fetch", !.api = 1]
               ELSE [workers[w] EXCEPT !.pc = "close"]

FetchNothing(w) ==
    /\ workers[w].pc = "fetch"
    /\ NextChanges(workers[w].api, workers[w].cursor[workers[w].api]) = {}
    /\ workers' = [workers EXCEPT ![w] = AfterApi(w)]
    /\ UNCHANGED <<now, feed, config, logs, finished, pages, staged, projected, causes, troubles>>

\* The raw page a worker is on, unique by log, API and requested position.
PageId(w) == [log |-> workers[w].log, api |-> workers[w].api,
              at |-> workers[w].cursor[workers[w].api]]
IsPage(p, id) == p.log = id.log /\ p.api = id.api /\ p.at = id.at
MarkPage(w, status) ==
    {IF IsPage(p, PageId(w)) THEN [p EXCEPT !.status = status] ELSE p : p \in pages}

SavedPage(w, k) == [log |-> workers[w].log, api |-> workers[w].api,
                    at |-> workers[w].cursor[workers[w].api], key |-> k,
                    version |-> feed[k], status |-> "PENDING_STAGE"]

\* fetchData and persistMargRawPage: the page is saved before it is staged;
\* when storage fails the run goes on without it.
FetchPage(w) ==
    /\ workers[w].pc = "fetch"
    /\ \E k \in NextChanges(workers[w].api, workers[w].cursor[workers[w].api]) :
          /\ workers' = [workers EXCEPT ![w].pc = "stage",
                  ![w].page = {[key |-> k, version |-> feed[k], last |-> IsLastChange(k)]}]
          /\ \/ /\ pages' = {p \in pages : ~IsPage(p, PageId(w))} \cup {SavedPage(w, k)}
                /\ UNCHANGED troubles
             \/ UNCHANGED pages /\ Trouble
    /\ UNCHANGED <<now, feed, config, logs, finished, staged, projected, causes>>

\* Every staging handler is an upsert: it shows the row again, stamps it with
\* the log, and moves updatedAt, by which a projection finds what it touched.
Upsert(k, version, log) ==
    staged' = [staged EXCEPT ![k] = [version |-> version, hidden |-> FALSE, seen |-> log]]
Touch(k) == [v \in Workers |-> IF Running(v) /\ k \in BillKeys
                               THEN [workers[v] EXCEPT !.touched = @ \cup {k}]
                               ELSE workers[v]]

\* A bounded run stages no stock; a bill outside the window is filtered out.
MayStage(w, k) == workers[w].req.window # "bounded" \/ k \in BillKeys
MayFilter(w, k) == workers[w].req.window # "open" /\ (k \in StockKeys => ~MayStage(w, k))

\* The row of the page is staged, unless it is not this run's.
StageRow(w, page) ==
    \/ MayStage(w, page.key) /\ Upsert(page.key, page.version, workers[w].log)
    \/ MayFilter(w, page.key) /\ UNCHANGED staged

\* Once the page is staged it is marked (a failure to do so is swallowed), the
\* cursor moves past it, and touchSyncHeartbeat writes RUNNING without looking.
StagePage(w) ==
    /\ workers[w].pc = "stage"
    /\ \E page \in workers[w].page :
          /\ StageRow(w, page)
          /\ LET seen == IF staged' = staged THEN workers ELSE Touch(page.key)
                 next == IF page.last THEN AfterApi(w) ELSE [workers[w] EXCEPT !.pc = "fetch"]
             IN  workers' = [seen EXCEPT ![w] =
                    [next EXCEPT !.cursor = [workers[w].cursor EXCEPT ![workers[w].api] = page.version],
                                 !.page = {}, !.touched = seen[w].touched,
                                 !.got = workers[w].got \/ (page.key \in StockKeys /\ MayStage(w, page.key))]]
    /\ \/ pages' = MarkPage(w, "STAGED") /\ UNCHANGED troubles
       \/ UNCHANGED pages /\ Trouble
    /\ config' = SetStatus(workers[w].req.scope, "RUNNING")
    /\ UNCHANGED <<now, feed, logs, finished, projected, causes>>

\* The catch block of runSync and of resumeSync writes the config row first,
\* then the log (FailLog).
Failing(w) ==
    /\ Trouble
    /\ config' = SetStatus(workers[w].req.scope, "FAILED")

\* Staging fails, before or after the row was written, and the page is marked.
FailStaging(w) ==
    /\ workers[w].pc = "stage"
    /\ \E page \in workers[w].page :
          \/ UNCHANGED staged /\ Wind(workers, w, "faillog")
          \/ /\ MayStage(w, page.key)
             /\ Upsert(page.key, page.version, workers[w].log)
             /\ Wind(Touch(page.key), w, "faillog")
    /\ pages' = MarkPage(w, "STAGING_FAILED")
    /\ Failing(w)
    /\ UNCHANGED <<now, feed, logs, finished, projected, causes>>

\* Mutated: any run whose cursor started empty counts, windowed or not.
AuthoritativeInAnyWindow(w, api) ==
    /\ workers[w].req.mode = "FETCH"
    /\ api = 2 => workers[w].req.scope = "FULL" /\ workers[w].got
    /\ workers[w].clean[api]

\* stockSnapshotIsAuthoritative and outstandingSnapshotIsAuthoritative: the
\* config's own cursor was empty, wherever the run really started.
Authoritative(w, api) ==
    /\ workers[w].req.mode = "FETCH" /\ workers[w].req.window = "open"
    /\ api = 2 => workers[w].req.scope = "FULL" /\ workers[w].got
    /\ workers[w].clean[api]

\* closeUnseenMargOutstandings and markMissingStockAsDeleted.
CloseUnseen(w) ==
    /\ workers[w].pc = "close"
    /\ staged' = [k \in Keys |->
            IF Authoritative(w, Api(k)) /\ staged[k].version > 0 /\ staged[k].seen # workers[w].log
            THEN [staged[k] EXCEPT !.hidden = TRUE] ELSE staged[k]]
    /\ Goto(w, "commit")
    /\ UNCHANGED <<now, feed, config, logs, finished, pages, projected, causes, troubles>>

\* Mutated: only a complete snapshot is projected.
ChangedSinceSnapshot(w) == IF workers[w].clean[1] THEN workers[w].touched ELSE {}

\* buildMargChangedSinceWhere: the rows touched since the run started, or all.
ChangedSince(w) == IF workers[w].req.mode = "FETCH" THEN workers[w].touched ELSE BillKeys

\* Mutated: a bounded run commits its cursor as well.
CommitsAnyWindow(req) == req.mode = "FETCH"

\* shouldCommitCursor: "No upper bound means Marg can advance us".
CommitsCursor(req) == req.mode = "FETCH" /\ req.window # "bounded"

\* Mutated: the cursor is moved past the row that comes next.
CommittedNext(w, api) == workers[w].cursor[api] + 1

\* A run that saw no date-time at all commits the present.
Committed(w, api) == IF workers[w].cursor[api] = 0 THEN now ELSE workers[w].cursor[api]
CommittedApis(w) == IF ~CommitsCursor(workers[w].req) THEN {}
                    ELSE IF workers[w].req.scope = "FULL" THEN {1, 2} ELSE {1}

\* History: a windowed run passes what lies before its window, and the present
\* passes whatever changed since the feed was read.
CommitCauses(w) ==
    IF \E a \in CommittedApis(w) :
          workers[w].req.window = "from" \/ (workers[w].cursor[a] = 0 /\ now > 0)
    THEN {"moved"} ELSE {}

\* transformAccountPostingsToJournalEntries, whose failure is recorded and
\* passed over, and then the config: COMPLETED, with the cursor.
ProjectAndCommit(w) ==
    /\ workers[w].pc = "commit"
    /\ \/ /\ projected' = [k \in BillKeys |->
                IF k \in ChangedSince(w) THEN staged[k].version ELSE projected[k]]
          /\ causes' = causes \cup CommitCauses(w)
          /\ UNCHANGED troubles
       \/ /\ UNCHANGED projected
          /\ causes' = causes \cup CommitCauses(w) \cup {"unprojected"}
          /\ Trouble
    /\ config' = [SetStatus(workers[w].req.scope, "COMPLETED") EXCEPT
            !.was = config.cursor,
            !.cursor = [a \in 1..2 |-> IF a \in CommittedApis(w) THEN Committed(w, a) ELSE @[a]]]
    /\ Wind(workers, w, "finish")
    /\ UNCHANGED <<now, feed, logs, finished, pages, staged>>

Complete(l) == finished' = Append(finished, l)

FinishLog(w) ==
    /\ workers[w].pc = "finish"
    /\ logs' = [logs EXCEPT ![workers[w].log] =
            [@ EXCEPT !.status = "COMPLETED", !.failure = "none", !.beat = TRUE,
                      !.ended = TRUE,
                      !.cursor = ActiveCursor(workers[w].req, workers[w].cursor)]]
    /\ Complete(workers[w].log)
    /\ Rest(w)
    /\ UNCHANGED <<now, feed, config, pages, staged, projected, causes, troubles>>

\* Any statement inside the try block throws.
Fail(w) ==
    /\ workers[w].pc \in {"fetch", "close", "commit", "finish", "replay", "rconfig"}
    /\ Failing(w)
    /\ Wind(workers, w, "faillog")
    /\ UNCHANGED <<now, feed, logs, finished, pages, staged, projected, causes>>

FailLog(w, failure) ==
    /\ workers[w].pc = "faillog"
    /\ LET log == logs[workers[w].log]
           resumed == workers[w].req.mode = "RESUME"
       IN  logs' = [logs EXCEPT ![workers[w].log] =
              [log EXCEPT !.status = "FAILED", !.failure = failure, !.beat = TRUE,
                          !.ended = log.ended \/ ~resumed,
                          !.cursor = IF resumed THEN log.cursor
                                     ELSE ActiveCursor(workers[w].req, workers[w].cursor)]]
    /\ Rest(w)
    /\ UNCHANGED <<now, feed, config, finished, pages, staged, projected, causes, troubles>>

-----------------------------------------------------------------------------
(* resumeSync: the saved pages of a failed run are staged again.           *)

\* Failed, but not FATAL, or RUNNING without a heartbeat.
Resumable(l) ==
    \/ logs[l].status = "FAILED" /\ logs[l].failure # "FATAL"
    \/ logs[l].status = "RUNNING" /\ ~logs[l].beat

StartResume(w, l) ==
    /\ NextFree(w)
    /\ Resumable(l)
    /\ LockIsFree("FULL")
    /\ config' = SetStatus("FULL", "RUNNING")
    /\ causes' = causes \cup OverlapCauses
    /\ workers' = [workers EXCEPT ![w] =
            [Idle EXCEPT !.pc = "rbegin", !.log = l, !.req = [NoRequest EXCEPT !.mode = "RESUME"]]]
    /\ UNCHANGED <<now, feed, logs, finished, pages, staged, projected, troubles>>

\* Mutated: a page that failed once is not tried again.
UnstagedPending(l) == {p \in pages : p.log = l /\ p.status = "PENDING_STAGE"}

\* The pages of a log that a resume has to replay.
Unstaged(l) == {p \in pages : p.log = l /\ p.status # "STAGED"}

\* The log runs again and its pages are read.
BeginResume(w) ==
    /\ workers[w].pc = "rbegin"
    /\ LET l == workers[w].log
       IN  /\ logs' = [logs EXCEPT ![l] =
                  [@ EXCEPT !.status = "RUNNING", !.failure = "none", !.beat = TRUE]]
           /\ workers' = [workers EXCEPT ![w] =
                  [@ EXCEPT !.pc = IF \E p \in pages : p.log = l THEN "replay" ELSE "nopages",
                            !.page = Unstaged(l)]]
    /\ UNCHANGED <<now, feed, config, finished, pages, staged, projected, causes, troubles>>

\* With no page saved there is nothing to replay, and the resume fails.
NothingToResume(w) ==
    /\ workers[w].pc = "nopages"
    /\ config' = SetStatus("FULL", "FAILED")
    /\ Wind(workers, w, "faillog")
    /\ UNCHANGED <<now, feed, logs, finished, pages, staged, projected, causes, troubles>>

Mark(p, status) == {IF q = p THEN [q EXCEPT !.status = status] ELSE q : q \in pages}

\* API 1 first, then by position.
FirstPage(ps) == CHOOSE p \in ps : \A q \in ps : p.api < q.api \/ (p.api = q.api /\ p.at <= q.at)

\* replayStagingForPage: the payload as it was when it was saved; stock of a
\* bounded run too, unlike the run itself.  A page that fails is counted and
\* the next one is taken; touchSyncHeartbeat follows either way.
ReplayPage(w) ==
    /\ workers[w].pc = "replay" /\ workers[w].page # {}
    /\ LET p == FirstPage(workers[w].page)
           rest == [workers EXCEPT ![w].page = @ \ {p}]
       IN  \/ /\ Upsert(p.key, p.version, p.log)
              /\ workers' = [Touch(p.key) EXCEPT ![w].page = @ \ {p}]
              /\ pages' = Mark(p, "STAGED")
              /\ causes' = IF staged[p.key].version > p.version
                           THEN causes \cup {"moved"} ELSE causes
              /\ UNCHANGED troubles
           \/ /\ logs[p.log].window # "open" /\ p.key \in BillKeys
              /\ workers' = rest
              /\ pages' = Mark(p, "STAGED")
              /\ UNCHANGED <<staged, causes, troubles>>
           \/ /\ workers' = [rest EXCEPT ![w].bad = TRUE]
              /\ pages' = Mark(p, "STAGING_FAILED")
              /\ Trouble
              /\ UNCHANGED <<staged, causes>>
    /\ config' = SetStatus("FULL", "RUNNING")
    /\ UNCHANGED <<now, feed, logs, finished, projected>>

ResumeOutcome(w) == IF workers[w].bad THEN "FAILED" ELSE "COMPLETED"

\* The log ends first ...
FinishResumeLog(w) ==
    /\ workers[w].pc = "replay" /\ workers[w].page = {}
    /\ logs' = [logs EXCEPT ![workers[w].log] =
            [@ EXCEPT !.status = ResumeOutcome(w), !.beat = TRUE, !.ended = TRUE,
                      !.failure = IF workers[w].bad THEN "RETRYABLE" ELSE "none"]]
    /\ IF ResumeOutcome(w) = "COMPLETED" THEN Complete(workers[w].log) ELSE UNCHANGED finished
    /\ Goto(w, "rconfig")
    /\ UNCHANGED <<now, feed, config, pages, staged, projected, causes, troubles>>

\* ... then the lock is released; no cursor is committed.
FinishResumeConfig(w) ==
    /\ workers[w].pc = "rconfig"
    /\ config' = SetStatus("FULL", ResumeOutcome(w))
    /\ Rest(w)
    /\ UNCHANGED <<now, feed, logs, finished, pages, staged, projected, causes, troubles>>

-----------------------------------------------------------------------------
(* Whoever else writes the rows.                                           *)

\* The heartbeat timer writes RUNNING without looking, also after the commit.
Heartbeat(w) ==
    /\ workers[w].log # 0 /\ workers[w].pc # "begin"
    /\ config' = SetStatus(workers[w].req.scope, "RUNNING")
    /\ config' # config
    /\ UNCHANGED <<now, feed, logs, finished, pages, staged, projected, workers, causes, troubles>>

\* The process dies, or the code before the try block throws: nothing more is
\* written.
Die(w) ==
    /\ Live(w)
    /\ Rest(w)
    /\ Trouble
    /\ UNCHANGED <<now, feed, config, logs, finished, pages, staged, projected, causes>>

\* Mutated: the sweep takes the accounting column for the lock.
StaleConfigByAccounting == config.acct /\ ~config.inv /\ ~config.fresh

\* The hourly sweep looks at the inventory column only ...
StaleConfig == config.inv /\ ~config.fresh

\* ... and at logs that never ended; it does not say RETRYABLE.
StaleLog(l) == logs[l].status = "RUNNING" /\ ~logs[l].ended /\ ~logs[l].beat

RecoverStaleConfigsAndLogs ==
    /\ StaleConfig \/ \E l \in LogIds : StaleLog(l)
    /\ config' = IF StaleConfig THEN SetStatus("FULL", "FAILED") ELSE config
    /\ logs' = [l \in LogIds |-> IF StaleLog(l)
                                 THEN [logs[l] EXCEPT !.status = "FAILED", !.ended = TRUE]
                                 ELSE logs[l]]
    /\ UNCHANGED <<now, feed, finished, pages, staged, projected, workers, causes, troubles>>

FailedLog(log) == [log EXCEPT !.status = "FAILED", !.failure = "RETRYABLE",
                              !.ended = TRUE, !.beat = TRUE]

\* recoverStaleSyncLog: one log, and the lock with it.
RecoverStaleSyncLog(l) ==
    /\ logs[l].status = "RUNNING" /\ ~logs[l].beat
    /\ logs' = [logs EXCEPT ![l] = FailedLog(@)]
    /\ config' = SetStatus("FULL", "FAILED")
    /\ UNCHANGED <<now, feed, finished, pages, staged, projected, workers, causes, troubles>>

RunningLogs == {l \in LogIds : logs[l].status = "RUNNING"}

\* forceUnlockConfig, by an operator or before any sync that a user starts:
\* refused without force while the latest running log beats.
ForceUnlockConfig(force) ==
    /\ config.inv \/ config.acct
    /\ \/ force
       \/ RunningLogs = {}
       \/ \E l \in RunningLogs : ~logs[l].beat /\ \A m \in RunningLogs : m <= l
    /\ logs' = [l \in LogIds |-> IF l \in RunningLogs THEN FailedLog(logs[l]) ELSE logs[l]]
    /\ config' = SetStatus("FULL", "FAILED")
    /\ Trouble
    /\ UNCHANGED <<now, feed, finished, pages, staged, projected, workers, causes>>

\* resetSyncCursor, which may also hide every staged batch until the next
\* complete snapshot shows it again.  (A reset with nothing to reset only
\* moves updatedAt; it is left out.)
ResetSyncCursor(scope, clearStaging) ==
    /\ config' = [config EXCEPT !.fresh = TRUE, !.was = config.cursor,
                     !.cursor = [a \in 1..2 |-> IF a = 2 /\ scope = "ACCOUNTING" THEN @[a] ELSE 0]]
    /\ staged' = [k \in Keys |-> IF clearStaging /\ k \in StockKeys /\ staged[k].version > 0
                                 THEN [staged[k] EXCEPT !.hidden = TRUE] ELSE staged[k]]
    /\ causes' = IF staged' # staged THEN causes \cup {"hidden"} ELSE causes
    /\ config'.cursor # config.cursor \/ staged' # staged
    /\ Trouble
    /\ UNCHANGED <<now, feed, logs, finished, pages, projected, workers>>

-----------------------------------------------------------------------------
Step(w) ==
    \/ (\E l \in LogIds : Begin(w, l))
    \/ FetchNothing(w) \/ FetchPage(w) \/ StagePage(w) \/ FailStaging(w)
    \/ CloseUnseen(w) \/ ProjectAndCommit(w) \/ FinishLog(w)
    \/ BeginResume(w) \/ NothingToResume(w) \/ ReplayPage(w)
    \/ FinishResumeLog(w) \/ FinishResumeConfig(w)
    \/ Fail(w) \/ (\E failure \in {"RETRYABLE", "FATAL"} : FailLog(w, failure))
    \/ Die(w)

Next ==
    \/ \E k \in Keys : Change(k) \/ Drop(k)
    \/ TimePasses \/ RecoverStaleConfigsAndLogs
    \/ \E l \in LogIds : RecoverStaleSyncLog(l)
    \/ \E force \in BOOLEAN : ForceUnlockConfig(force)
    \/ \E scope \in Scopes, clear \in BOOLEAN : ResetSyncCursor(scope, clear)
    \/ \E w \in Workers :
          \/ \E req \in Requests : StartRun(w, req)
          \/ \E l \in LogIds : StartResume(w, l)
          \/ Step(w)
          \/ Heartbeat(w)

\* A process that runs goes on or dies, time passes, and the sweep is hourly.
Fairness ==
    /\ \A w \in Workers : WF_vars(Step(w))
    /\ WF_vars(TimePasses) /\ WF_vars(RecoverStaleConfigsAndLogs)

MargSpec == Init /\ [][Next]_vars /\ Fairness

-----------------------------------------------------------------------------
(* Properties.                                                             *)

\* Type invariant of the rows and of the work in flight.
MargTypeOK ==
    /\ now \in Time /\ feed \in [Keys -> Time]
    /\ config \in [inv : BOOLEAN, acct : BOOLEAN, cursor : [1..2 -> Time],
                  was : [1..2 -> Time], fresh : BOOLEAN]
    /\ logs \in [LogIds -> [status : {"NONE", "RUNNING", "COMPLETED", "FAILED"}, failure : {"none", "RETRYABLE", "FATAL"},
                            scope : Scopes, window : Windows, cursor : Time,
                            beat : BOOLEAN, ended : BOOLEAN]]
    /\ staged \in [Keys -> [version : Time, hidden : BOOLEAN, seen : 0..MaxLogs]]
    /\ projected \in [BillKeys -> Time]
    /\ \A w \in Workers : /\ workers[w].cursor \in [1..2 -> Time]
                          /\ workers[w].log \in 0..MaxLogs
                          /\ workers[w].touched \subseteq BillKeys
    /\ troubles \in 0..MaxTroubles
    /\ causes \subseteq {"overlap", "moved", "recovered", "hidden", "unprojected"}

\* "Sync is already running for this configuration" (runSync, resumeSync): two
\* processes work past the lock together only after a failure, a death or an
\* intervention, although heartbeats write the lock without looking at it.
\* autoHealStuckLock counts as an intervention: it comes before every sync a
\* user starts and may hit a run that has no log yet.
RunsExclude == "overlap" \in causes => troubles > 0

\* What the cursor of a key's API has passed is staged as Marg last sent it.
PassedIsStaged(k) ==
    0 < feed[k] /\ feed[k] <= config.cursor[Api(k)] => staged[k].version >= feed[k]

\* What the saved cursors have passed is staged as Marg last sent it, through
\* failures, deaths, resumes and resets, unless two runs overlapped, an old page
\* was replayed, a run with a fromDate or with nothing to read moved the cursor;
\* for stock also a cursor recovered from a backfill or the accounts, which the
\* comment on shouldCommitCursor rules out (StockIsWhole).
CursorIsCovered ==
    \A k \in Keys :
        \/ PassedIsStaged(k)
        \/ causes \cap {"overlap", "moved"} # {}
        \/ k \in StockKeys /\ "recovered" \in causes

\* The journal is made only from rows touched by the run, so what the saved
\* cursor has passed must have been projected when it was committed.
PassedBillsAreProjected ==
    \A k \in BillKeys : 0 < feed[k] /\ feed[k] <= config.cursor[1] =>
        projected[k] >= feed[k] \/ causes \cap {"overlap", "moved", "unprojected"} # {}

\* A row that Marg still has as it was staged is hidden only after two runs
\* overlapped or, if it is stock, an operator cleared staging or a cursor was
\* recovered from a log: the run then is incremental and taken for complete,
\* which the comment on startedFromCleanCursor rules out (StockIsWhole).
HiddenRowsAreGone ==
    \A k \in Keys : staged[k].hidden /\ feed[k] = staged[k].version =>
        causes \cap ({"overlap"} \cup IF k \in StockKeys THEN {"hidden"} ELSE {}) # {}

\* "Called only after every staging method for that page has returned"
\* (markRawPageStaged): what a page marked STAGED holds, and every page of a
\* log that ended COMPLETED, by the run or by its resumes, is staged.
CompletedLogsAreStaged ==
    \A p \in pages :
        /\ logs[p.log].window = "open"
        /\ p.status = "STAGED" \/ logs[p.log].status = "COMPLETED"
        => staged[p.key].version >= p.version \/ causes \cap {"overlap", "moved"} # {}

\* "only the ABSENCE of recent heartbeat indicates a crashed worker": whoever
\* died holding the inventory lock, the sweep releases it.
InventoryLockIsReleased == config.inv ~> ~config.inv

\* "Date-window backfills with an endDate remain non-committing so old bounded
\* replays cannot move the saved incremental cursor past skipped rows", and an
\* incremental fetch must not be taken for a complete one, "zeroing the rest would
\* silently delete genuine on-hand stock" (runSync): stock that the saved cursor
\* has passed is staged as Marg last sent it, and shown.
StockIsWhole ==
    \A k \in StockKeys : 0 < feed[k] /\ feed[k] <= config.cursor[2] =>
        \/ staged[k].version >= feed[k] /\ ~staged[k].hidden
        \/ causes \cap {"overlap", "moved"} # {}
=============================================================================
