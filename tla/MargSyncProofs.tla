--------------------------- MODULE MargSyncProofs ---------------------------
(***************************************************************************)
(* Proofs about the Marg synchronisation: its type invariant and all its   *)
(* safety invariants, for any keys, changes of the feed, processes, runs   *)
(* and failures.                                                           *)
(***************************************************************************)
EXTENDS MargSync, TLAPS, WellFoundedInduction, SequenceTheorems

-----------------------------------------------------------------------------
(* The invariant.                                                          *)

\* Where a run is, and where a resume is.
RunPlaces == {"begin", "fetch", "stage", "close", "commit", "finish"}
ResumePlaces == {"rbegin", "nopages", "replay", "rconfig"}
RunRequest == [scope : Scopes, window : Windows, mode : {"FETCH", "REPROJECT", "RESUME"}]
Fetched == [key : Keys, version : Time, last : BOOLEAN]
Page == [log : LogIds, api : 1..2, at : Time, key : Keys, version : Time,
         status : {"PENDING_STAGE", "STAGED", "STAGING_FAILED"}]
Worker == [pc : RunPlaces \cup ResumePlaces \cup {"idle", "faillog"}, log : {0} \cup LogIds,
           req : RunRequest, cursor : [1..2 -> Time], clean : [1..2 -> BOOLEAN],
           api : 1..2, page : SUBSET (Fetched \cup Page), got : BOOLEAN,
           touched : SUBSET BillKeys, bad : BOOLEAN]

\* What a process does at each place, and whose log it writes.
Place(w) ==
    /\ workers[w].page \subseteq IF workers[w].pc = "stage" THEN Fetched ELSE Page
    /\ workers[w].pc \in RunPlaces => workers[w].req.mode # "RESUME"
    /\ workers[w].pc \in {"fetch", "stage"} => workers[w].req.mode = "FETCH"
    /\ workers[w].pc \in ResumePlaces => workers[w].req.mode = "RESUME"
    /\ workers[w].log = 0 <=> workers[w].pc \in {"idle", "begin"}

TypesInv ==
    /\ MargTypeOK
    /\ workers \in [Workers -> Worker]
    /\ pages \subseteq Page
    /\ finished \in Seq(LogIds)
    /\ \A w \in Workers : Place(w)

\* Nothing is newer than the feed, and no two rows changed at once.
FeedInv ==
    /\ \A k \in Keys : feed[k] <= now
    /\ \A j, k \in Keys : feed[j] = feed[k] /\ j # k => feed[j] = 0

\* What is staged, saved or fetched is something Marg sent.
Known(p) == /\ 0 < p.version /\ p.version <= now
            /\ feed[p.key] # 0 => p.version <= feed[p.key]

KnownInv ==
    /\ \A k \in Keys : /\ staged[k].version <= now
                       /\ feed[k] # 0 => staged[k].version <= feed[k]
                       /\ staged[k].hidden => staged[k].version > 0
    /\ \A p \in pages : Known(p)
    /\ \A w \in Workers : \A p \in workers[w].page : Known(p)

\* A log that something points at was created, and a run has a log of its own.
LogsInv ==
    /\ \A l \in LogIds : logs[l].status = "NONE" => logs[l] = NoLog
    /\ \A k \in Keys : staged[k].seen # 0 => logs[staged[k].seen].status # "NONE"
    /\ \A p \in pages : logs[p.log].status # "NONE"
    /\ \A w \in Workers : workers[w].log # 0 =>
          /\ logs[workers[w].log].status # "NONE"
          /\ workers[w].req.mode # "RESUME" =>
                /\ logs[workers[w].log].scope = workers[w].req.scope
                /\ logs[workers[w].log].window = workers[w].req.window
                /\ \A v \in Workers \ {w} :
                      workers[v].req.mode # "RESUME" => workers[v].log # workers[w].log
          /\ workers[w].pc = "replay" => \A p \in workers[w].page : p.log = workers[w].log

\* A row gone stale is the lock of nobody who lives.
StaleInv == ~config.fresh => config.inv /\ \A w \in Workers : ~Live(w)

\* Without an overlap one process works at a time ...
AloneInv == "overlap" \notin causes =>
    \A v, w \in Workers : Working(v) /\ Working(w) => v = w

\* ... and without any trouble it has the lock, and nothing looks abandoned.
QuietInv == troubles = 0 =>
    /\ "overlap" \notin causes
    /\ \A w \in Workers : /\ workers[w].pc \in RunPlaces \cup {"idle"}
                          /\ Working(w) => config.inv \/ config.acct
    /\ \A l \in LogIds :
          /\ logs[l].status # "FAILED"
          /\ logs[l].status = "RUNNING" =>
                logs[l].beat /\ \E w \in Workers : Live(w) /\ workers[w].log = l

\* The page at hand is the next change after the cursor.
StagingInv ==
    \A w \in Workers : workers[w].pc = "stage" => \E q \in workers[w].page :
        /\ workers[w].page = {q}
        /\ Api(q.key) = workers[w].api
        /\ workers[w].cursor[workers[w].api] < q.version
        /\ \A j \in Keys \ {q.key} :
              Api(j) = workers[w].api /\ workers[w].cursor[workers[w].api] < feed[j]
                  => q.version < feed[j]
        /\ "overlap" \notin causes =>
              /\ staged[q.key].version <= q.version
              /\ q.last => \A j \in Keys :
                    Api(j) = workers[w].api /\ q.version < feed[j]
                        => staged[j].version < feed[j]

\* What Marg has up to a cursor is staged.
Covered(api, cursor) ==
    /\ cursor <= now
    /\ \A k \in Keys : Api(k) = api /\ 0 < feed[k] /\ feed[k] <= cursor =>
          staged[k].version >= feed[k]

Open(w) == workers[w].req.window = "open" /\ workers[w].req.mode # "RESUME"
Clean == causes \cap {"overlap", "moved"} = {}

\* The cursors of an API come from the runs that page it; only the stock cursor
\* is ever recovered from another log.
Followed(api) == api = 2 => "recovered" \notin causes

CursorInv == Clean =>
    /\ \A a \in 1..2 : Followed(a) =>
          /\ Covered(a, config.cursor[a]) /\ Covered(a, config.was[a])
          /\ \A w \in Workers : Open(w) => Covered(a, workers[w].cursor[a])
    /\ Followed(2) => \A l \in LogIds : logs[l].scope = "FULL" /\ logs[l].window = "open" =>
          Covered(2, logs[l].cursor)

\* What Marg has up to a cursor is in the journal, but for what a run is yet
\* to project.
Journaled(cursor, touched) ==
    \A k \in BillKeys : 0 < feed[k] /\ feed[k] <= cursor =>
        projected[k] >= feed[k] \/ k \in touched
Fetching(w) == /\ workers[w].req.mode = "FETCH"
               /\ workers[w].pc \in {"fetch", "stage", "close", "commit"}

JournalInv ==
    /\ "overlap" \notin causes => \A w \in Workers : Fetching(w) =>
          \A k \in BillKeys : staged[k].seen = workers[w].log => k \in workers[w].touched
    /\ Clean /\ "unprojected" \notin causes =>
          /\ Journaled(config.cursor[1], {}) /\ Journaled(config.was[1], {})
          /\ \A w \in Workers : Open(w) /\ (Fetching(w) \/ workers[w].pc = "begin") =>
                Journaled(workers[w].cursor[1], workers[w].touched)

\* A snapshot in progress has seen every row that Marg still has as staged, up
\* to its cursor, or everywhere when the API is through.
Snapshot(w, api) ==
    /\ Open(w) /\ workers[w].req.mode = "FETCH" /\ workers[w].clean[api]
    /\ api = 2 => workers[w].req.scope = "FULL" /\ "hidden" \notin causes
Through(w, api) == workers[w].pc = "close" \/ (api = 2 /\ workers[w].api = 1)

Missed(w, k) ==
    /\ feed[k] = staged[k].version /\ staged[k].version > 0
    /\ staged[k].seen # workers[w].log

SnapshotInv == "overlap" \notin causes =>
    \A w \in Workers : \A a \in 1..2 :
        /\ Snapshot(w, a) /\ workers[w].pc = "begin" => workers[w].cursor[a] = 0
        /\ Snapshot(w, a) /\ workers[w].pc \in {"fetch", "stage", "close"} =>
              \A k \in Keys : Api(k) = a /\ Missed(w, k) =>
                  ~Through(w, a) /\ workers[w].cursor[a] < feed[k]

\* The saved pages.
IsStaged(p) == staged[p.key].version >= p.version

Begun(w) == workers[w].pc \in RunPlaces \ {"begin"}

\* A run has not been where it is going ...
Positioned(w, p) ==
    /\ workers[w].pc \in {"fetch", "stage"} => p.api >= workers[w].api
    /\ workers[w].pc = "fetch" /\ p.api = workers[w].api => p.at < workers[w].cursor[p.api]
    /\ workers[w].pc = "stage" /\ p.api = workers[w].api =>
          /\ p.at <= workers[w].cursor[p.api]
          /\ p.at = workers[w].cursor[p.api] =>
                \A q \in workers[w].page : p.key = q.key /\ p.version = q.version

PositionsInv ==
    \A w \in Workers : \A p \in pages : p.log = workers[w].log => Positioned(w, p)

\* ... its log does not end before it does ...
UnfinishedInv == "overlap" \notin causes =>
    \A w \in Workers : Begun(w) /\ workers[w].pc # "finish" =>
        logs[workers[w].log].status # "COMPLETED"

\* ... its pages are staged, but for the one at hand ...
RunPagesInv == Clean =>
    \A w \in Workers : Open(w) /\ Begun(w) =>
        \A p \in pages : p.log = workers[w].log =>
            IsStaged(p) \/ (workers[w].pc = "stage" /\ IsPage(p, PageId(w)))

\* ... those of a log under replay are staged or still to come ...
ReplayPagesInv == Clean =>
    \A w \in Workers : workers[w].pc = "replay" /\ ~workers[w].bad =>
        \A p \in pages : p.log = workers[w].log /\ logs[p.log].window = "open" =>
            IsStaged(p) \/ p \in workers[w].page

\* ... and a page that is marked, or whose log is complete, is staged.
StagedPagesInv == Clean =>
    \A p \in pages :
        /\ logs[p.log].window = "open"
        /\ p.status = "STAGED" \/ logs[p.log].status = "COMPLETED"
        => IsStaged(p)

PagesInv ==
    PositionsInv /\ UnfinishedInv /\ RunPagesInv /\ ReplayPagesInv /\ StagedPagesInv

MargInv ==
    /\ TypesInv /\ FeedInv /\ KnownInv /\ LogsInv /\ StaleInv /\ AloneInv /\ QuietInv
    /\ StagingInv /\ CursorInv /\ JournalInv /\ SnapshotInv /\ PagesInv
    /\ HiddenRowsAreGone

-----------------------------------------------------------------------------
(* What the steps do to the rows of the processes.                         *)

ConfigRow == [inv : BOOLEAN, acct : BOOLEAN, cursor : [1..2 -> Time],
              was : [1..2 -> Time], fresh : BOOLEAN]
LogRow == [status : {"NONE", "RUNNING", "COMPLETED", "FAILED"},
           failure : {"none", "RETRYABLE", "FATAL"}, scope : Scopes, window : Windows,
           cursor : Time, beat : BOOLEAN, ended : BOOLEAN]
StagedRow == [version : Time, hidden : BOOLEAN, seen : 0..MaxLogs]

\* Times and log ids are natural numbers.
LEMMA Numbers ==
    /\ \A t \in Time : t \in Nat /\ t <= MaxTime
    /\ \A l \in LogIds : l \in Nat /\ l # 0 /\ l <= MaxLogs
    /\ 0 \in Time /\ MaxTime \in Nat
    /\ \A t \in Nat : t <= MaxTime => t \in Time
  BY SyncAssumption DEF Time, LogIds

\* The rows, typed one by one.
LEMMA Rows ==
    ASSUME TypesInv
    PROVE  /\ now \in Time /\ config \in ConfigRow /\ pages \subseteq Page
           /\ \A k \in Keys : feed[k] \in Time /\ staged[k] \in StagedRow
           /\ \A k \in BillKeys : projected[k] \in Time
           /\ \A l \in LogIds : logs[l] \in LogRow
           /\ \A w \in Workers : workers[w] \in Worker
           /\ troubles \in Nat
  BY SyncAssumption DEF TypesInv, MargTypeOK, ConfigRow, LogRow, StagedRow

LEMMA IdleRow ==
    /\ Idle \in Worker /\ Idle.pc = "idle" /\ Idle.log = 0 /\ Idle.req = NoRequest
    /\ Idle.cursor = [i \in 1..2 |-> 0] /\ Idle.page = {} /\ Idle.touched = {} /\ ~Idle.bad
    /\ Idle.clean = [i \in 1..2 |-> FALSE]
    /\ NoRequest.mode = "FETCH" /\ NoRequest.window = "open" /\ NoRequest.scope = "FULL"
    /\ NoRequest \in RunRequest
<1>1. [i \in 1..2 |-> 0] \in [1..2 -> Time] /\ [i \in 1..2 |-> FALSE] \in [1..2 -> BOOLEAN]
  BY Numbers
<1> QED BY <1>1 DEF Idle, Worker, NoRequest, RunRequest, Scopes, Windows

LEMMA StatusRow ==
    ASSUME config \in ConfigRow, NEW scope, NEW status
    PROVE  /\ SetStatus(scope, status) \in ConfigRow
           /\ SetStatus(scope, status).fresh
           /\ SetStatus(scope, status).cursor = config.cursor
           /\ SetStatus(scope, status).was = config.was
           /\ SetStatus(scope, status).acct = (status = "RUNNING")
           /\ SetStatus(scope, status).inv
                  = IF scope = "FULL" THEN status = "RUNNING" ELSE config.inv
  BY DEF SetStatus, ConfigRow

\* Another process notices at most that rows were touched.
Kept(v) ==
    /\ workers'[v].pc = workers[v].pc /\ workers'[v].log = workers[v].log
    /\ workers'[v].req = workers[v].req /\ workers'[v].cursor = workers[v].cursor
    /\ workers'[v].clean = workers[v].clean /\ workers'[v].api = workers[v].api
    /\ workers'[v].page = workers[v].page /\ workers'[v].got = workers[v].got
    /\ workers'[v].bad = workers[v].bad
    /\ workers[v].touched \subseteq workers'[v].touched

\* Only the row of w changes; it becomes another.
Only(w) ==
    /\ workers' \in [Workers -> Worker]
    /\ \A v \in Workers \ {w} : Kept(v)
Becomes(w, row) == Only(w) /\ row \in Worker /\ workers'[w] = row

LEMMA OneBecomes ==
    ASSUME TypesInv, NEW w \in Workers, NEW row \in Worker,
           workers' = [workers EXCEPT ![w] = row]
    PROVE  Becomes(w, row)
  BY DEF TypesInv, Becomes, Only, Kept

\* The rows of the processes after a row of the feed was touched.
LEMMA TouchRows ==
    ASSUME TypesInv, NEW k \in Keys
    PROVE  /\ Touch(k) \in [Workers -> Worker]
           /\ \A v \in Workers :
                 /\ Touch(k)[v].pc = workers[v].pc /\ Touch(k)[v].log = workers[v].log
                 /\ Touch(k)[v].req = workers[v].req
                 /\ Touch(k)[v].cursor = workers[v].cursor
                 /\ Touch(k)[v].clean = workers[v].clean
                 /\ Touch(k)[v].api = workers[v].api
                 /\ Touch(k)[v].page = workers[v].page /\ Touch(k)[v].got = workers[v].got
                 /\ Touch(k)[v].bad = workers[v].bad
                 /\ workers[v].touched \subseteq Touch(k)[v].touched
                 /\ Running(v) /\ k \in BillKeys => k \in Touch(k)[v].touched
<1> SUFFICES ASSUME NEW v \in Workers
             PROVE  /\ Touch(k)[v] \in Worker
                    /\ Touch(k)[v].pc = workers[v].pc /\ Touch(k)[v].log = workers[v].log
                    /\ Touch(k)[v].req = workers[v].req
                    /\ Touch(k)[v].cursor = workers[v].cursor
                    /\ Touch(k)[v].clean = workers[v].clean
                    /\ Touch(k)[v].api = workers[v].api
                    /\ Touch(k)[v].page = workers[v].page
                    /\ Touch(k)[v].got = workers[v].got
                    /\ Touch(k)[v].bad = workers[v].bad
                    /\ workers[v].touched \subseteq Touch(k)[v].touched
                    /\ Running(v) /\ k \in BillKeys => k \in Touch(k)[v].touched
  BY DEF Touch
<1>1. workers[v] \in Worker
  BY Rows
<1>2. CASE ~(Running(v) /\ k \in BillKeys)
  BY <1>1, <1>2 DEF Touch
<1>3. CASE Running(v) /\ k \in BillKeys
  <2>1. Touch(k)[v] = [workers[v] EXCEPT !.touched = workers[v].touched \cup {k}]
    BY <1>3 DEF Touch
  <2> QED BY <1>1, <1>3, <2>1 DEF Worker
<1> QED BY <1>2, <1>3

LEMMA TouchBecomes ==
    ASSUME TypesInv, NEW w \in Workers, NEW k \in Keys, NEW row \in Worker,
           workers' = [Touch(k) EXCEPT ![w] = row]
    PROVE  Becomes(w, row)
  BY TouchRows DEF Becomes, Only, Kept

\* Winding down keeps the log, the request and the cursor.
WindRow(w, pc) == [Idle EXCEPT !.pc = pc, !.log = workers[w].log, !.req = workers[w].req,
                               !.cursor = workers[w].cursor]

LEMMA WindRowFields ==
    ASSUME TypesInv, NEW w \in Workers, NEW pc \in {"finish", "faillog"}
    PROVE  /\ WindRow(w, pc) \in Worker /\ WindRow(w, pc).pc = pc
           /\ WindRow(w, pc).log = workers[w].log /\ WindRow(w, pc).req = workers[w].req
           /\ WindRow(w, pc).cursor = workers[w].cursor
           /\ WindRow(w, pc).page = {} /\ WindRow(w, pc).touched = {}
<1>1. workers[w] \in Worker
  BY Rows
<1> QED BY <1>1, IdleRow, ZenonT(60) DEF WindRow, Worker, RunPlaces

LEMMA WindBecomes ==
    ASSUME TypesInv, NEW w \in Workers, NEW pc \in {"finish", "faillog"},
           \/ Wind(workers, w, pc)
           \/ \E k \in Keys : Wind(Touch(k), w, pc)
    PROVE  Becomes(w, WindRow(w, pc))
<1>1. WindRow(w, pc) \in Worker
  BY WindRowFields
<1>2. CASE Wind(workers, w, pc)
  <2>1. workers' = [workers EXCEPT ![w] = WindRow(w, pc)]
    BY <1>2 DEF Wind, WindRow
  <2> QED BY <1>1, <2>1, OneBecomes
<1>3. ASSUME NEW k \in Keys, Wind(Touch(k), w, pc) PROVE Becomes(w, WindRow(w, pc))
  <2>1. /\ Touch(k)[w].log = workers[w].log /\ Touch(k)[w].req = workers[w].req
        /\ Touch(k)[w].cursor = workers[w].cursor
    BY TouchRows
  <2>2. workers' = [Touch(k) EXCEPT ![w] = WindRow(w, pc)]
    BY <1>3, <2>1 DEF Wind, WindRow
  <2> QED BY <1>1, <2>2, TouchBecomes
<1> QED BY <1>2, <1>3

LEMMA RestBecomes ==
    ASSUME TypesInv, NEW w \in Workers, Rest(w)
    PROVE  Becomes(w, Idle)
  BY IdleRow, OneBecomes DEF Rest

-----------------------------------------------------------------------------
(* The row of the process that acts, one action at a time.                 *)

LEMMA StartRunRow ==
    ASSUME TypesInv, NEW w \in Workers, NEW req \in Requests, StartRun(w, req)
    PROVE  /\ Only(w) /\ workers[w] = Idle
           /\ workers'[w].pc = "begin" /\ workers'[w].log = 0 /\ workers'[w].req = req
           /\ req \in RunRequest /\ req.mode # "RESUME"
           /\ workers'[w].cursor \in {config.cursor, config.was}
           /\ \A a \in 1..2 : workers'[w].clean[a] = (workers'[w].cursor[a] = 0)
           /\ workers'[w].page = {} /\ workers'[w].touched = {}
<1>1. PICK read \in {config.cursor, config.was} :
         workers' = [workers EXCEPT ![w] =
              [Idle EXCEPT !.pc = "begin", !.req = req, !.cursor = read,
                           !.clean = [a \in 1..2 |-> read[a] = 0]]]
  BY DEF StartRun
<1> DEFINE row == [Idle EXCEPT !.pc = "begin", !.req = req, !.cursor = read,
                               !.clean = [a \in 1..2 |-> read[a] = 0]]
<1>2. read \in [1..2 -> Time] /\ [a \in 1..2 |-> read[a] = 0] \in [1..2 -> BOOLEAN]
  BY Rows DEF ConfigRow
<1>3. req \in RunRequest /\ req.mode # "RESUME"
  BY SyncAssumption DEF RunRequest
<1>4. /\ row \in Worker /\ row.pc = "begin" /\ row.log = 0 /\ row.req = req
      /\ row.cursor = read /\ row.clean = [a \in 1..2 |-> read[a] = 0]
      /\ row.page = {} /\ row.touched = {}
  BY <1>2, <1>3, IdleRow DEF Idle, Worker, RunPlaces
<1>5. Becomes(w, row)
  BY <1>1, <1>4, OneBecomes
<1>6. workers[w] = Idle
  BY DEF StartRun, NextFree
<1> HIDE DEF row
<1> QED BY <1>3, <1>4, <1>5, <1>6 DEF Becomes

LEMMA StartResumeRow ==
    ASSUME TypesInv, NEW w \in Workers, NEW l \in LogIds, StartResume(w, l)
    PROVE  /\ Only(w) /\ workers[w] = Idle
           /\ workers'[w].pc = "rbegin" /\ workers'[w].log = l
           /\ workers'[w].req.mode = "RESUME"
           /\ workers'[w].page = {} /\ workers'[w].touched = {}
<1> DEFINE row == [Idle EXCEPT !.pc = "rbegin", !.log = l,
                               !.req = [NoRequest EXCEPT !.mode = "RESUME"]]
<1>1. /\ [NoRequest EXCEPT !.mode = "RESUME"] \in RunRequest
      /\ [NoRequest EXCEPT !.mode = "RESUME"].mode = "RESUME"
  BY DEF NoRequest, RunRequest, Scopes, Windows
<1>2. /\ row \in Worker /\ row.pc = "rbegin" /\ row.log = l /\ row.req.mode = "RESUME"
      /\ row.page = {} /\ row.touched = {}
  BY <1>1, IdleRow DEF Idle, Worker, ResumePlaces
<1>3. workers' = [workers EXCEPT ![w] = row] /\ workers[w] = Idle
  BY DEF StartResume, NextFree
<1> HIDE DEF row
<1>4. Becomes(w, row)
  BY <1>2, <1>3, OneBecomes
<1> QED BY <1>2, <1>3, <1>4 DEF Becomes

\* What the request and the clean bits of w are stays; so does its log.
SameRun(w) ==
    /\ workers'[w].log = workers[w].log /\ workers'[w].req = workers[w].req
    /\ workers'[w].clean = workers[w].clean /\ workers'[w].bad = workers[w].bad

\* The row after an API is through: the next API, or on.
LEMMA AfterApiRow ==
    ASSUME TypesInv, NEW w \in Workers
    PROVE  /\ AfterApi(w) \in Worker
           /\ AfterApi(w).log = workers[w].log /\ AfterApi(w).req = workers[w].req
           /\ AfterApi(w).clean = workers[w].clean /\ AfterApi(w).bad = workers[w].bad
           /\ AfterApi(w).cursor = workers[w].cursor /\ AfterApi(w).page = workers[w].page
           /\ AfterApi(w).touched = workers[w].touched /\ AfterApi(w).api = 1
           /\ workers[w].api = 2 => AfterApi(w).pc = "fetch"
           /\ workers[w].api = 1 => AfterApi(w).pc = "close"
<1>1. workers[w] \in Worker /\ workers[w].api \in 1..2
  BY Rows DEF Worker
<1>2. CASE workers[w].api = 2
  <2> DEFINE mid == [workers[w] EXCEPT !.pc = "fetch"]
  <2>1. AfterApi(w) = [mid EXCEPT !.api = 1]
    BY <1>2 DEF AfterApi
  <2>2. "fetch" \in RunPlaces /\ 1 \in 1..2
    BY DEF RunPlaces
  <2>3. /\ mid \in Worker /\ mid.log = workers[w].log /\ mid.req = workers[w].req
        /\ mid.clean = workers[w].clean /\ mid.bad = workers[w].bad
        /\ mid.cursor = workers[w].cursor /\ mid.page = workers[w].page
        /\ mid.touched = workers[w].touched /\ mid.pc = "fetch"
    BY <1>1, <2>2 DEF Worker
  <2> HIDE DEF mid
  <2> QED BY <1>2, <2>1, <2>2, <2>3 DEF Worker
<1>3. CASE workers[w].api = 1
  <2>1. AfterApi(w) = [workers[w] EXCEPT !.pc = "close"]
    BY <1>3 DEF AfterApi
  <2>2. "close" \in RunPlaces
    BY DEF RunPlaces
  <2> QED BY <1>1, <1>3, <2>1, <2>2 DEF Worker
<1> QED BY <1>1, <1>2, <1>3

LEMMA FetchNothingRow ==
    ASSUME TypesInv, NEW w \in Workers, FetchNothing(w)
    PROVE  /\ Only(w) /\ SameRun(w) /\ workers[w].pc = "fetch"
           /\ workers'[w].cursor = workers[w].cursor
           /\ workers'[w].page = workers[w].page /\ workers'[w].touched = workers[w].touched
           /\ workers[w].api = 2 => workers'[w].pc = "fetch" /\ workers'[w].api = 1
           /\ workers[w].api = 1 => workers'[w].pc = "close" /\ workers'[w].api = 1
<1>1. workers[w] \in Worker /\ workers[w].api \in 1..2
  BY Rows DEF Worker
<1>2. Becomes(w, AfterApi(w))
  BY AfterApiRow, OneBecomes DEF FetchNothing
<1> QED BY <1>1, <1>2, AfterApiRow DEF Becomes, SameRun, FetchNothing

\* The least-number principle for a set of natural numbers.
LEMMA LeastElement ==
    ASSUME NEW S \in SUBSET Nat, S # {}
    PROVE  \E m \in S : \A k \in S : m <= k
<1>1. IsWellFoundedOn(OpToRel(<, Nat), Nat)
  BY NatLessThanWellFounded
<1>2. PICK m \in S : \A k \in S : ~(<<k, m>> \in OpToRel(<, Nat))
  BY <1>1, WFMin
<1>3. \A k \in S : ~(k < m)
  BY <1>2 DEF OpToRel
<1> QED
  BY <1>3

\* The log that a cursor is recovered from is one of the completed ones.
LEMMA LatestIsALog ==
    ASSUME TypesInv, CompletedAt # {}
    PROVE  \E l \in LogIds : LatestLog = logs[l]
<1> DEFINE S == {Len(finished) - i : i \in CompletedAt}
<1>1. finished \in Seq(LogIds) /\ Len(finished) \in Nat /\ DOMAIN finished = 1..Len(finished)
  BY LenProperties DEF TypesInv
<1>2. S \in SUBSET Nat /\ S # {}
  BY <1>1 DEF CompletedAt
<1>3. PICK m \in S : \A k \in S : m <= k
  BY <1>2, LeastElement
<1>4. PICK top \in CompletedAt : m = Len(finished) - top
  OBVIOUS
<1>5. \A j \in CompletedAt : j <= top
  <2> SUFFICES ASSUME NEW j \in CompletedAt PROVE j <= top
    OBVIOUS
  <2>1. m <= Len(finished) - j
    BY <1>3
  <2> QED BY <1>1, <1>4, <2>1 DEF CompletedAt
<1> DEFINE latest == CHOOSE i \in CompletedAt : \A j \in CompletedAt : j <= i
<1>6. latest \in CompletedAt
  BY <1>5
<1>7. LatestLog = logs[finished[latest]]
  BY DEF LatestLog
<1> HIDE DEF latest
<1>8. finished[latest] \in LogIds
  <2>1. latest \in DOMAIN finished
    BY <1>1, <1>6 DEF CompletedAt
  <2> QED BY <1>1, <2>1
<1> QED BY <1>7, <1>8

\* Where a run starts.
LEMMA StartCursors ==
    ASSUME TypesInv, NEW req \in RunRequest, NEW cursor \in [1..2 -> Time]
    PROVE  /\ StartCursor(req, cursor) \in [1..2 -> Time]
           /\ ActiveCursor(req, StartCursor(req, cursor)) \in Time
           /\ req.window = "open" => StartCursor(req, cursor)[1] = cursor[1]
           /\ req.window = "open" /\ ~Recovers(req, cursor) =>
                  StartCursor(req, cursor) = cursor
           /\ req.window = "open" /\ Recovers(req, cursor) =>
                  StartCursor(req, cursor)[2] = LatestLog.cursor
<1>1. FromTime - 1 \in Time /\ FromTime - 1 \in Nat
  BY SyncAssumption DEF Time
<1>2. Recovers(req, cursor) => LatestLog.cursor \in Time
  BY LatestIsALog, Rows DEF Recovers, LogRow
<1>3. CASE req.mode = "FETCH" /\ req.window # "open"
  <2>1. StartCursor(req, cursor) = <<FromTime - 1, FromTime - 1>>
    BY <1>3 DEF StartCursor
  <2>2. <<FromTime - 1, FromTime - 1>> = [a \in 1..2 |-> FromTime - 1]
    OBVIOUS
  <2> QED BY <1>1, <1>3, <2>1, <2>2 DEF ActiveCursor, Recovers
<1>4. CASE ~(req.mode = "FETCH" /\ req.window # "open") /\ Recovers(req, cursor)
  BY <1>2, <1>4 DEF StartCursor, ActiveCursor
<1>5. CASE ~(req.mode = "FETCH" /\ req.window # "open") /\ ~Recovers(req, cursor)
  BY <1>5 DEF StartCursor, ActiveCursor
<1>6. Recovers(req, cursor) => req.mode = "FETCH" /\ req.window = "open"
  BY DEF Recovers
<1> QED BY <1>3, <1>4, <1>5, <1>6

LEMMA BeginRow ==
    ASSUME TypesInv, NEW w \in Workers, NEW l \in LogIds, Begin(w, l)
    PROVE  /\ Only(w) /\ workers[w].pc = "begin" /\ workers[w].log = 0
           /\ workers[w].req.mode \in {"FETCH", "REPROJECT"}
           /\ workers'[w].log = l /\ workers'[w].req = workers[w].req
           /\ workers'[w].clean = workers[w].clean
           /\ workers'[w].cursor = StartCursor(workers[w].req, workers[w].cursor)
           /\ workers'[w].page = workers[w].page /\ workers'[w].touched = workers[w].touched
           /\ workers'[w].pc = IF workers[w].req.mode = "FETCH" THEN "fetch" ELSE "close"
           /\ workers'[w].api = IF workers[w].req.scope = "FULL" THEN 2 ELSE 1
<1> DEFINE req == workers[w].req
           start == StartCursor(req, workers[w].cursor)
           pc == IF req.mode = "FETCH" THEN "fetch" ELSE "close"
           api == IF req.scope = "FULL" THEN 2 ELSE 1
           row == [workers[w] EXCEPT !.pc = pc, !.log = l, !.cursor = start, !.api = api]
<1>1. /\ workers[w] \in Worker /\ workers[w].pc = "begin"
      /\ req \in RunRequest /\ start \in [1..2 -> Time]
  BY Rows, StartCursors DEF Worker, Begin
<1>2. req.mode # "RESUME" /\ workers[w].log = 0
  BY <1>1 DEF TypesInv, Place, RunPlaces
<1>3. workers' = [workers EXCEPT ![w] = row]
  BY DEF Begin
<1>4. pc \in RunPlaces /\ api \in 1..2
  BY DEF RunPlaces
<1> HIDE DEF req, start, pc, api
<1>5. /\ row \in Worker /\ row.pc = pc /\ row.log = l /\ row.cursor = start /\ row.api = api
      /\ row.req = workers[w].req /\ row.clean = workers[w].clean
      /\ row.page = workers[w].page /\ row.touched = workers[w].touched
  BY <1>1, <1>4 DEF Worker
<1> HIDE DEF row
<1>6. Becomes(w, row)
  BY <1>3, <1>5, OneBecomes
<1>7. req.mode \in {"FETCH", "REPROJECT"}
  BY <1>1, <1>2 DEF RunRequest
<1> QED BY <1>1, <1>2, <1>5, <1>6, <1>7 DEF Becomes, req, start, pc, api

\* The page that a fetch saves is of the key that changed next.
LEMMA FetchPageRow ==
    ASSUME TypesInv, NEW w \in Workers, FetchPage(w)
    PROVE  /\ Only(w) /\ SameRun(w) /\ workers[w].pc = "fetch" /\ workers'[w].pc = "stage"
           /\ workers'[w].cursor = workers[w].cursor /\ workers'[w].api = workers[w].api
           /\ workers'[w].touched = workers[w].touched
           /\ \E k \in NextChanges(workers[w].api, workers[w].cursor[workers[w].api]) :
                 /\ workers'[w].page
                        = {[key |-> k, version |-> feed[k], last |-> IsLastChange(k)]}
                 /\ workers'[w].page \subseteq Fetched
                 /\ \/ /\ pages' = {p \in pages : ~IsPage(p, PageId(w))} \cup {SavedPage(w, k)}
                       /\ UNCHANGED troubles
                    \/ UNCHANGED pages /\ Trouble
<1>1. PICK k \in NextChanges(workers[w].api, workers[w].cursor[workers[w].api]) :
          /\ workers' = [workers EXCEPT ![w].pc = "stage",
                  ![w].page = {[key |-> k, version |-> feed[k], last |-> IsLastChange(k)]}]
          /\ \/ /\ pages' = {p \in pages : ~IsPage(p, PageId(w))} \cup {SavedPage(w, k)}
                /\ UNCHANGED troubles
             \/ UNCHANGED pages /\ Trouble
  BY DEF FetchPage
<1> DEFINE page == {[key |-> k, version |-> feed[k], last |-> IsLastChange(k)]}
           row == [workers[w] EXCEPT !.pc = "stage", !.page = page]
<1>2. workers[w] \in Worker /\ workers[w].pc = "fetch"
  BY Rows DEF FetchPage
<1>3. page \subseteq Fetched
  <2>1. k \in Keys /\ feed[k] \in Time /\ IsLastChange(k) \in BOOLEAN
    BY Rows DEF NextChanges, IsLastChange
  <2> HIDE <1>1
  <2> QED BY <2>1 DEF Fetched
<1>4. workers' = [workers EXCEPT ![w] = row]
  BY <1>1, <1>2
<1>5. page \in SUBSET (Fetched \cup Page) /\ "stage" \in RunPlaces
  BY <1>3 DEF RunPlaces
<1> HIDE DEF page
<1>6. /\ row \in Worker /\ row.pc = "stage" /\ row.page = page
      /\ row.log = workers[w].log /\ row.req = workers[w].req /\ row.clean = workers[w].clean
      /\ row.cursor = workers[w].cursor /\ row.api = workers[w].api
      /\ row.touched = workers[w].touched /\ row.bad = workers[w].bad
  BY <1>2, <1>5 DEF Worker
<1> HIDE DEF row
<1>7. Becomes(w, row)
  BY <1>4, <1>6, OneBecomes
<1> QED BY <1>1, <1>2, <1>3, <1>6, <1>7 DEF Becomes, SameRun, page

LEMMA UpsertRow ==
    ASSUME TypesInv, NEW k \in Keys, NEW version \in Time, NEW log \in LogIds \cup {0},
           Upsert(k, version, log)
    PROVE  /\ staged' \in [Keys -> StagedRow]
           /\ staged'[k].version = version /\ ~staged'[k].hidden /\ staged'[k].seen = log
           /\ \A j \in Keys \ {k} : staged'[j] = staged[j]
<1> DEFINE row == [version |-> version, hidden |-> FALSE, seen |-> log]
<1>1. row \in StagedRow /\ row.version = version /\ ~row.hidden /\ row.seen = log
  BY SyncAssumption DEF StagedRow, LogIds
<1>2. staged \in [Keys -> StagedRow]
  BY DEF TypesInv, MargTypeOK, StagedRow
<1>3. staged' = [staged EXCEPT ![k] = row]
  BY DEF Upsert
<1> HIDE DEF row
<1> QED BY <1>1, <1>2, <1>3

\* The page at hand is staged, or filtered out, and the cursor moves past it.
LEMMA StagePageRow ==
    ASSUME TypesInv, NEW w \in Workers, StagePage(w)
    PROVE  /\ Only(w) /\ SameRun(w) /\ workers[w].pc = "stage" /\ workers[w].req.mode = "FETCH"
           /\ workers[w].log \in LogIds
           /\ workers'[w].page = {} /\ workers[w].touched \subseteq workers'[w].touched
           /\ \E q \in workers[w].page :
                 /\ q \in Fetched
                 /\ StageRow(w, q)
                 /\ workers'[w].cursor
                        = [workers[w].cursor EXCEPT ![workers[w].api] = q.version]
                 /\ staged' # staged /\ q.key \in BillKeys => q.key \in workers'[w].touched
                 /\ workers'[w].pc = IF q.last THEN AfterApi(w).pc ELSE "fetch"
                 /\ workers'[w].api = IF q.last THEN 1 ELSE workers[w].api
<1>1. PICK q \in workers[w].page :
          /\ StageRow(w, q)
          /\ LET seen == IF staged' = staged THEN workers ELSE Touch(q.key)
                 next == IF q.last THEN AfterApi(w) ELSE [workers[w] EXCEPT !.pc = "fetch"]
             IN  workers' = [seen EXCEPT ![w] =
                    [next EXCEPT !.cursor = [workers[w].cursor EXCEPT ![workers[w].api] = q.version],
                                 !.page = {}, !.touched = seen[w].touched,
                                 !.got = workers[w].got \/ (q.key \in StockKeys /\ MayStage(w, q.key))]]
  BY DEF StagePage
<1>2. /\ workers[w] \in Worker /\ workers[w].pc = "stage" /\ workers[w].req.mode = "FETCH"
      /\ workers[w].log \in LogIds /\ workers[w].api \in 1..2
      /\ workers[w].cursor \in [1..2 -> Time] /\ workers[w].page \subseteq Fetched
  BY Rows DEF StagePage, TypesInv, Place, Worker
<1>3. q \in Fetched /\ q.key \in Keys /\ q.version \in Time /\ q.last \in BOOLEAN
  BY <1>2 DEF Fetched
<1> DEFINE seen == IF staged' = staged THEN workers ELSE Touch(q.key)
           next == IF q.last THEN AfterApi(w) ELSE [workers[w] EXCEPT !.pc = "fetch"]
           cursor == [workers[w].cursor EXCEPT ![workers[w].api] = q.version]
           got == workers[w].got \/ (q.key \in StockKeys /\ MayStage(w, q.key))
           moved == [next EXCEPT !.cursor = cursor, !.page = {}, !.touched = seen[w].touched]
           row == [moved EXCEPT !.got = got]
<1>4. /\ seen \in [Workers -> Worker] /\ seen[w].cursor = workers[w].cursor
      /\ seen[w].log = workers[w].log /\ seen[w].req = workers[w].req
      /\ seen[w].clean = workers[w].clean /\ seen[w].bad = workers[w].bad
      /\ seen[w].api = workers[w].api /\ workers[w].touched \subseteq seen[w].touched
      /\ staged' # staged /\ q.key \in BillKeys => q.key \in seen[w].touched
  <2>1. CASE staged' = staged
    BY <2>1 DEF TypesInv
  <2>2. CASE staged' # staged
    <3>1. Running(w)
      BY <1>2 DEF Running, Live
    <3> QED BY <1>3, <2>2, <3>1, TouchRows
  <2> QED BY <2>1, <2>2
<1>5. workers' = [seen EXCEPT ![w] = row]
  BY <1>1
<1>6. /\ next \in Worker /\ next.pc = IF q.last THEN AfterApi(w).pc ELSE "fetch"
      /\ next.api = IF q.last THEN 1 ELSE workers[w].api
      /\ next.log = workers[w].log /\ next.req = workers[w].req
      /\ next.clean = workers[w].clean /\ next.bad = workers[w].bad
  <2>1. CASE q.last
    BY <2>1, AfterApiRow
  <2>2. CASE ~q.last
    <3>1. "fetch" \in RunPlaces
      BY DEF RunPlaces
    <3> QED BY <1>2, <2>2, <3>1 DEF Worker
  <2> QED BY <2>1, <2>2
<1>7. /\ row \in Worker /\ row.page = {} /\ row.cursor = cursor /\ row.pc = next.pc
      /\ row.api = next.api /\ row.log = next.log /\ row.req = next.req
      /\ row.clean = next.clean /\ row.bad = next.bad /\ row.touched = seen[w].touched
  <2>1. cursor \in [1..2 -> Time] /\ seen[w].touched \in SUBSET BillKeys
    BY <1>2, <1>3, <1>4 DEF Worker
  <2>2. got \in BOOLEAN
    BY <1>2 DEF Worker
  <2> HIDE DEF next, cursor, seen, got
  <2>3. /\ moved \in Worker /\ moved.page = {} /\ moved.cursor = cursor
        /\ moved.pc = next.pc /\ moved.api = next.api /\ moved.log = next.log
        /\ moved.req = next.req /\ moved.clean = next.clean /\ moved.bad = next.bad
        /\ moved.touched = seen[w].touched
    BY <1>6, <2>1 DEF Worker
  <2> HIDE DEF moved
  <2> QED BY <2>2, <2>3 DEF Worker
<1>8. Becomes(w, row)
  <2> HIDE DEF row
  <2>1. CASE staged' = staged
    BY <1>5, <1>7, <2>1, OneBecomes
  <2>2. CASE staged' # staged
    BY <1>3, <1>5, <1>7, <2>2, TouchBecomes
  <2> QED BY <2>1, <2>2
<1> HIDE DEF row, seen, next
<1>9. StageRow(w, q)
  BY <1>1
<1> HIDE <1>1
<1>10. Only(w) /\ SameRun(w) /\ workers'[w] = row
  BY <1>4, <1>6, <1>7, <1>8 DEF Becomes, SameRun
<1>11. /\ workers'[w].page = {} /\ workers[w].touched \subseteq workers'[w].touched
       /\ workers'[w].cursor = cursor
       /\ staged' # staged /\ q.key \in BillKeys => q.key \in workers'[w].touched
       /\ workers'[w].pc = IF q.last THEN AfterApi(w).pc ELSE "fetch"
       /\ workers'[w].api = IF q.last THEN 1 ELSE workers[w].api
  BY <1>4, <1>6, <1>7, <1>10
<1> QED BY <1>2, <1>3, <1>9, <1>10, <1>11

LEMMA GotoRow ==
    ASSUME TypesInv, NEW w \in Workers,
           NEW pc \in RunPlaces \cup ResumePlaces, Goto(w, pc)
    PROVE  /\ Only(w) /\ SameRun(w) /\ workers'[w].pc = pc
           /\ workers'[w].cursor = workers[w].cursor /\ workers'[w].api = workers[w].api
           /\ workers'[w].page = workers[w].page /\ workers'[w].touched = workers[w].touched
<1> DEFINE row == [workers[w] EXCEPT !.pc = pc]
<1>1. workers[w] \in Worker
  BY Rows
<1>2. workers' = [workers EXCEPT ![w] = row]
  BY <1>1 DEF Goto
<1>3. /\ row \in Worker /\ row.pc = pc /\ row.log = workers[w].log /\ row.req = workers[w].req
      /\ row.clean = workers[w].clean /\ row.bad = workers[w].bad
      /\ row.cursor = workers[w].cursor /\ row.api = workers[w].api
      /\ row.page = workers[w].page /\ row.touched = workers[w].touched
  BY <1>1 DEF Worker
<1> HIDE DEF row
<1> QED BY <1>2, <1>3, OneBecomes DEF Becomes, SameRun

LEMMA WindsDown ==
    ASSUME TypesInv, NEW w \in Workers, NEW pc \in {"finish", "faillog"},
           \/ Wind(workers, w, pc)
           \/ \E k \in Keys : Wind(Touch(k), w, pc)
    PROVE  /\ Only(w) /\ workers'[w].pc = pc
           /\ workers'[w].log = workers[w].log /\ workers'[w].req = workers[w].req
           /\ workers'[w].cursor = workers[w].cursor
           /\ workers'[w].page = {} /\ workers'[w].touched = {}
  BY WindBecomes, WindRowFields DEF Becomes

LEMMA Rests ==
    ASSUME TypesInv, NEW w \in Workers, Rest(w)
    PROVE  /\ Only(w) /\ workers'[w] = Idle /\ workers'[w].pc = "idle" /\ workers'[w].log = 0
           /\ workers'[w].req = NoRequest /\ workers'[w].page = {} /\ workers'[w].touched = {}
           /\ \A a \in 1..2 : workers'[w].cursor[a] = 0
<1>1. Becomes(w, Idle)
  BY RestBecomes
<1> QED BY <1>1, IdleRow DEF Becomes

\* The page that a replay takes next is one of those to come.
LEMMA FirstPageIsOne ==
    ASSUME NEW ps \in SUBSET Page, ps # {}
    PROVE  FirstPage(ps) \in ps
<1> DEFINE apis == {p.api : p \in ps}
<1>1. apis \in SUBSET Nat /\ apis # {} /\ \A p \in ps : p.api \in Nat /\ p.at \in Nat
  BY Numbers DEF Page
<1>2. PICK api \in apis : \A a \in apis : api <= a
  BY <1>1, LeastElement
<1> DEFINE first == {p \in ps : p.api = api}
           positions == {p.at : p \in first}
<1>3. positions \in SUBSET Nat /\ positions # {}
  BY <1>1
<1>4. PICK at \in positions : \A a \in positions : at <= a
  BY <1>3, LeastElement
<1>5. PICK p \in first : p.at = at
  OBVIOUS
<1>6. ASSUME NEW q \in ps PROVE p.api < q.api \/ (p.api = q.api /\ p.at <= q.at)
  <2>1. api <= q.api /\ p.api = api
    BY <1>2
  <2>2. CASE q.api = api
    BY <1>4, <1>5, <2>1, <2>2
  <2>3. CASE q.api # api
    BY <1>1, <2>1, <2>3
  <2> QED BY <2>2, <2>3
<1>7. p \in ps
  OBVIOUS
<1> HIDE DEF first, positions, apis
<1>8. \E r \in ps : \A q \in ps : r.api < q.api \/ (r.api = q.api /\ r.at <= q.at)
  BY <1>6, <1>7
<1> QED BY <1>8 DEF FirstPage

LEMMA BeginResumeRow ==
    ASSUME TypesInv, NEW w \in Workers, BeginResume(w)
    PROVE  /\ Only(w) /\ SameRun(w) /\ workers[w].pc = "rbegin"
           /\ workers[w].req.mode = "RESUME" /\ workers[w].log \in LogIds
           /\ workers'[w].pc \in {"replay", "nopages"}
           /\ workers'[w].touched = workers[w].touched
           /\ workers'[w].page = Unstaged(workers[w].log)
           /\ workers'[w].page \subseteq Page
<1> DEFINE l == workers[w].log
           pc == IF \E p \in pages : p.log = l THEN "replay" ELSE "nopages"
           row == [workers[w] EXCEPT !.pc = pc, !.page = Unstaged(l)]
<1>1. /\ workers[w] \in Worker /\ workers[w].pc = "rbegin" /\ workers[w].req.mode = "RESUME"
      /\ l \in LogIds
  BY Rows DEF BeginResume, TypesInv, Place, ResumePlaces, Worker
<1>2. pc \in ResumePlaces /\ pc \in {"replay", "nopages"}
  BY DEF ResumePlaces
<1>3. Unstaged(l) \subseteq Page
  BY DEF TypesInv, Unstaged
<1>4. workers' = [workers EXCEPT ![w] = row]
  BY DEF BeginResume
<1> HIDE DEF pc
<1>5. /\ row \in Worker /\ row.pc = pc /\ row.page = Unstaged(l) /\ row.log = workers[w].log
      /\ row.req = workers[w].req /\ row.clean = workers[w].clean /\ row.bad = workers[w].bad
      /\ row.touched = workers[w].touched
  BY <1>1, <1>2, <1>3 DEF Worker
<1> HIDE DEF row
<1>6. Becomes(w, row)
  BY <1>4, <1>5, OneBecomes
<1> QED BY <1>1, <1>2, <1>3, <1>5, <1>6 DEF Becomes, SameRun

\* One page of a replay: staged, filtered out, or failed and counted.
LEMMA ReplayPageRow ==
    ASSUME TypesInv, NEW w \in Workers, ReplayPage(w)
    PROVE  /\ Only(w) /\ workers[w].pc = "replay" /\ workers'[w].pc = "replay"
           /\ workers[w].req.mode = "RESUME" /\ workers[w].log \in LogIds
           /\ workers'[w].log = workers[w].log /\ workers'[w].req = workers[w].req
           /\ workers[w].touched \subseteq workers'[w].touched
           /\ \E p \in workers[w].page :
                 /\ p \in Page /\ workers'[w].page = workers[w].page \ {p}
                 /\ \/ /\ Upsert(p.key, p.version, p.log)
                       /\ pages' = Mark(p, "STAGED") /\ workers'[w].bad = workers[w].bad
                       /\ causes' = IF staged[p.key].version > p.version
                                    THEN causes \cup {"moved"} ELSE causes
                       /\ UNCHANGED troubles
                    \/ /\ logs[p.log].window # "open"
                       /\ pages' = Mark(p, "STAGED") /\ workers'[w].bad = workers[w].bad
                       /\ UNCHANGED <<staged, causes, troubles>>
                    \/ /\ workers'[w].bad
                       /\ pages' = Mark(p, "STAGING_FAILED")
                       /\ Trouble
                       /\ UNCHANGED <<staged, causes>>
<1> DEFINE p == FirstPage(workers[w].page)
           rest == [workers EXCEPT ![w].page = @ \ {p}]
           row == [workers[w] EXCEPT !.page = workers[w].page \ {p}]
<1>1. /\ workers[w] \in Worker /\ workers[w].pc = "replay" /\ workers[w].req.mode = "RESUME"
      /\ workers[w].log \in LogIds /\ workers[w].page \in SUBSET Page
  BY Rows DEF ReplayPage, TypesInv, Place, ResumePlaces, Worker
<1>2. p \in workers[w].page /\ p \in Page /\ p.key \in Keys
  <2>1. p \in workers[w].page
    BY <1>1, FirstPageIsOne DEF ReplayPage
  <2> QED BY <1>1, <2>1 DEF Page
<1>3. \/ /\ Upsert(p.key, p.version, p.log)
         /\ workers' = [Touch(p.key) EXCEPT ![w].page = @ \ {p}]
         /\ pages' = Mark(p, "STAGED")
         /\ causes' = IF staged[p.key].version > p.version THEN causes \cup {"moved"} ELSE causes
         /\ UNCHANGED troubles
      \/ /\ logs[p.log].window # "open"
         /\ workers' = rest
         /\ pages' = Mark(p, "STAGED")
         /\ UNCHANGED <<staged, causes, troubles>>
      \/ /\ workers' = [rest EXCEPT ![w].bad = TRUE]
         /\ pages' = Mark(p, "STAGING_FAILED")
         /\ Trouble
         /\ UNCHANGED <<staged, causes>>
  BY DEF ReplayPage
<1> HIDE DEF p
<1>4. rest = [workers EXCEPT ![w] = row]
  BY <1>1
<1>5. /\ row \in Worker /\ row.page = workers[w].page \ {p} /\ row.pc = "replay"
      /\ row.log = workers[w].log /\ row.req = workers[w].req
      /\ row.touched = workers[w].touched /\ row.bad = workers[w].bad
  BY <1>1 DEF Worker
<1>6. CASE /\ Upsert(p.key, p.version, p.log)
           /\ workers' = [Touch(p.key) EXCEPT ![w].page = @ \ {p}]
           /\ pages' = Mark(p, "STAGED")
           /\ causes' = IF staged[p.key].version > p.version
                        THEN causes \cup {"moved"} ELSE causes
           /\ UNCHANGED troubles
  <2> DEFINE seen == Touch(p.key)[w]
             new == [seen EXCEPT !.page = workers[w].page \ {p}]
  <2>1. /\ seen \in Worker /\ seen.page = workers[w].page /\ seen.pc = "replay"
        /\ seen.log = workers[w].log /\ seen.req = workers[w].req
        /\ workers[w].touched \subseteq seen.touched /\ seen.bad = workers[w].bad
    BY <1>1, <1>2, TouchRows
  <2>2. workers' = [Touch(p.key) EXCEPT ![w] = [seen EXCEPT !.page = seen.page \ {p}]]
    BY <1>6
  <2>3. workers' = [Touch(p.key) EXCEPT ![w] = new]
    BY <2>1, <2>2
  <2> HIDE DEF seen
  <2>4. /\ new \in Worker /\ new.page = workers[w].page \ {p} /\ new.pc = "replay"
        /\ new.log = workers[w].log /\ new.req = workers[w].req
        /\ workers[w].touched \subseteq new.touched /\ new.bad = workers[w].bad
    BY <1>1, <2>1 DEF Worker
  <2> HIDE DEF new
  <2>5. Becomes(w, new)
    BY <1>2, <2>3, <2>4, TouchBecomes
  <2> QED BY <1>1, <1>2, <1>6, <2>4, <2>5 DEF Becomes
<1>7. CASE /\ logs[p.log].window # "open"
           /\ workers' = rest
           /\ pages' = Mark(p, "STAGED")
           /\ UNCHANGED <<staged, causes, troubles>>
  <2> HIDE DEF row
  <2>1. Becomes(w, row)
    BY <1>4, <1>5, <1>7, OneBecomes
  <2> QED BY <1>1, <1>2, <1>5, <1>7, <2>1 DEF Becomes
<1>8. CASE /\ workers' = [rest EXCEPT ![w].bad = TRUE]
           /\ pages' = Mark(p, "STAGING_FAILED")
           /\ Trouble
           /\ UNCHANGED <<staged, causes>>
  <2> DEFINE new == [row EXCEPT !.bad = TRUE]
  <2> HIDE DEF row
  <2>1. /\ new \in Worker /\ new.page = workers[w].page \ {p} /\ new.pc = "replay"
        /\ new.log = workers[w].log /\ new.req = workers[w].req
        /\ workers[w].touched = new.touched /\ new.bad
    BY <1>5 DEF Worker
  <2>2. rest[w] = row /\ rest = [workers EXCEPT ![w] = row]
    BY <1>4 DEF TypesInv
  <2> HIDE DEF rest
  <2>3. workers' = [rest EXCEPT ![w] = [rest[w] EXCEPT !.bad = TRUE]]
    BY <1>8
  <2>4. workers' = [rest EXCEPT ![w] = new]
    BY <2>2, <2>3
  <2> HIDE DEF new
  <2>5. workers' = [workers EXCEPT ![w] = new]
    BY <2>2, <2>4
  <2>6. Becomes(w, new)
    BY <2>1, <2>5, OneBecomes
  <2> QED BY <1>1, <1>2, <1>8, <2>1, <2>6 DEF Becomes
<1> QED BY <1>3, <1>6, <1>7, <1>8

-----------------------------------------------------------------------------
(* What the steps do to the logs and to the config.                        *)

\* A log keeps its run, and ends only if it runs.
LogKept(l) ==
    /\ logs'[l].scope = logs[l].scope /\ logs'[l].window = logs[l].window
    /\ logs'[l].cursor = logs[l].cursor
    /\ logs'[l].status = logs[l].status \/ (logs[l].status = "RUNNING" /\ logs'[l].status = "FAILED")
    /\ logs[l].status = "NONE" => logs'[l] = logs[l]

\* Whoever writes the status columns and ends logs from outside of a run.
Sweep ==
    \/ TimePasses \/ RecoverStaleConfigsAndLogs
    \/ \E l \in LogIds : RecoverStaleSyncLog(l)
    \/ \E force \in BOOLEAN : ForceUnlockConfig(force)
    \/ \E w \in Workers : Heartbeat(w)

LEMMA TroubleCounts ==
    ASSUME TypesInv, Trouble
    PROVE  troubles' \in 0..MaxTroubles /\ troubles' # 0
  BY SyncAssumption DEF TypesInv, MargTypeOK, Trouble

LEMMA SilentLogs ==
    ASSUME TypesInv, LogsInv, TimePasses, NEW l \in LogIds
    PROVE  /\ logs'[l] \in LogRow /\ LogKept(l) /\ logs'[l].status = logs[l].status
           /\ logs[l].beat /\ (\E w \in Workers : Live(w) /\ workers[w].log = l) =>
                logs'[l].beat
<1> DEFINE beat == logs[l].beat /\ (logs[l].status # "RUNNING"
                        \/ \E w \in Workers : Live(w) /\ workers[w].log = l)
           row == [logs[l] EXCEPT !.beat = beat]
<1>1. logs'[l] = row
  BY DEF TimePasses
<1>2. logs[l] \in LogRow
  BY Rows
<1>3. beat \in BOOLEAN
  BY <1>2 DEF LogRow
<1>4. logs[l].beat /\ (\E w \in Workers : Live(w) /\ workers[w].log = l) => beat
  OBVIOUS
<1>5. logs[l].status = "NONE" => logs[l] = NoLog
  BY DEF LogsInv
<1>6. ~NoLog.beat
  BY DEF NoLog
<1>7. logs[l].status = "NONE" => ~beat
  BY <1>5, <1>6
<1> HIDE DEF beat
<1>8. /\ row \in LogRow /\ row.scope = logs[l].scope /\ row.window = logs[l].window
      /\ row.cursor = logs[l].cursor /\ row.status = logs[l].status /\ row.beat = beat
  BY <1>2, <1>3 DEF LogRow
<1>9. logs[l].status = "NONE" => row = logs[l]
  <2> SUFFICES ASSUME logs[l].status = "NONE" PROVE row = logs[l]
    OBVIOUS
  <2>1. beat = FALSE
    BY <1>3, <1>7
  <2>2. logs[l].beat = FALSE
    BY <1>5 DEF NoLog
  <2> QED BY <1>2, <2>1, <2>2 DEF LogRow
<1> HIDE DEF row
<1> QED BY <1>1, <1>4, <1>8, <1>9 DEF LogKept

LEMMA FailedLogRow ==
    ASSUME NEW log \in LogRow
    PROVE  /\ FailedLog(log) \in LogRow /\ FailedLog(log).status = "FAILED"
           /\ FailedLog(log).scope = log.scope /\ FailedLog(log).window = log.window
           /\ FailedLog(log).cursor = log.cursor
<1> DEFINE failed == [log EXCEPT !.status = "FAILED", !.failure = "RETRYABLE"]
           ended == [failed EXCEPT !.ended = TRUE]
<1>1. /\ failed \in LogRow /\ failed.status = "FAILED" /\ failed.scope = log.scope
      /\ failed.window = log.window /\ failed.cursor = log.cursor
  BY DEF LogRow
<1>2. FailedLog(log) = [ended EXCEPT !.beat = TRUE]
  BY DEF FailedLog
<1> HIDE DEF failed
<1>3. /\ ended \in LogRow /\ ended.status = "FAILED" /\ ended.scope = log.scope
      /\ ended.window = log.window /\ ended.cursor = log.cursor
  BY <1>1 DEF LogRow
<1> HIDE DEF ended
<1> QED BY <1>2, <1>3 DEF LogRow

LEMMA SweptLogs ==
    ASSUME TypesInv, LogsInv, NEW l \in LogIds,
           \/ RecoverStaleConfigsAndLogs
           \/ \E m \in LogIds : RecoverStaleSyncLog(m)
           \/ \E force \in BOOLEAN : ForceUnlockConfig(force)
    PROVE  /\ logs'[l] \in LogRow /\ LogKept(l)
           /\ logs'[l].status = "RUNNING" => logs'[l] = logs[l]
           /\ logs'[l].status # logs[l].status => troubles' # 0 \/ ~logs[l].beat
<1>1. logs[l] \in LogRow /\ logs \in [LogIds -> LogRow]
  BY Rows DEF TypesInv, MargTypeOK, LogRow
<1>2. CASE RecoverStaleConfigsAndLogs
  <2> DEFINE stale == [logs[l] EXCEPT !.status = "FAILED"]
             ended == [logs[l] EXCEPT !.status = "FAILED", !.ended = TRUE]
  <2>1. /\ stale \in LogRow /\ stale.status = "FAILED" /\ stale.scope = logs[l].scope
        /\ stale.window = logs[l].window /\ stale.cursor = logs[l].cursor
    BY <1>1 DEF LogRow
  <2>2. ended = [stale EXCEPT !.ended = TRUE]
    OBVIOUS
  <2> HIDE DEF stale, ended
  <2>3. /\ ended \in LogRow /\ ended.status = "FAILED" /\ ended.scope = logs[l].scope
        /\ ended.window = logs[l].window /\ ended.cursor = logs[l].cursor
    BY <2>1, <2>2 DEF LogRow
  <2>4. logs'[l] = IF StaleLog(l) THEN ended ELSE logs[l]
    BY <1>2 DEF RecoverStaleConfigsAndLogs, ended
  <2> QED BY <1>1, <2>3, <2>4 DEF LogKept, StaleLog
<1>3. ASSUME NEW m \in LogIds, RecoverStaleSyncLog(m)
      PROVE  /\ logs'[l] \in LogRow /\ LogKept(l)
             /\ logs'[l].status = "RUNNING" => logs'[l] = logs[l]
             /\ logs'[l].status # logs[l].status => troubles' # 0 \/ ~logs[l].beat
  <2>1. logs' = [logs EXCEPT ![m] = FailedLog(logs[m])]
    BY <1>3 DEF RecoverStaleSyncLog
  <2>2. logs[m].status = "RUNNING" /\ ~logs[m].beat
    BY <1>3 DEF RecoverStaleSyncLog
  <2> QED BY <1>1, <2>1, <2>2, FailedLogRow DEF LogKept
<1>4. ASSUME NEW force \in BOOLEAN, ForceUnlockConfig(force)
      PROVE  /\ logs'[l] \in LogRow /\ LogKept(l)
             /\ logs'[l].status = "RUNNING" => logs'[l] = logs[l]
             /\ logs'[l].status # logs[l].status => troubles' # 0 \/ ~logs[l].beat
  <2>1. logs'[l] = IF l \in RunningLogs THEN FailedLog(logs[l]) ELSE logs[l]
    BY <1>4 DEF ForceUnlockConfig
  <2>2. troubles' # 0
    BY <1>4, TroubleCounts DEF ForceUnlockConfig
  <2> QED BY <1>1, <2>1, <2>2, FailedLogRow DEF LogKept, RunningLogs
<1> QED BY <1>2, <1>3, <1>4

LEMMA SweepShape ==
    ASSUME TypesInv, LogsInv, Sweep
    PROVE  /\ UNCHANGED <<now, feed, finished, pages, staged, projected, workers, causes>>
           /\ config' \in ConfigRow /\ config'.cursor = config.cursor /\ config'.was = config.was
           /\ logs' \in [LogIds -> LogRow] /\ \A l \in LogIds : LogKept(l)
           /\ troubles' \in 0..MaxTroubles /\ (troubles' = 0 => troubles = 0)
<1>1. config \in ConfigRow /\ logs \in [LogIds -> LogRow] /\ troubles \in 0..MaxTroubles
  BY DEF TypesInv, MargTypeOK, ConfigRow, LogRow
<1>2. \A l \in LogIds : logs[l] \in LogRow /\ (logs' = logs => LogKept(l))
  BY <1>1 DEF LogKept
<1>3. CASE TimePasses
  <2> DEFINE fresh == config.fresh /\ (~config.inv \/ \E w \in Workers : Live(w))
  <2>1. config' = [config EXCEPT !.fresh = fresh]
    BY <1>3 DEF TimePasses
  <2>2. fresh \in BOOLEAN
    BY <1>1 DEF ConfigRow
  <2> HIDE DEF fresh
  <2>3. config' \in ConfigRow /\ config'.cursor = config.cursor /\ config'.was = config.was
    BY <1>1, <2>1, <2>2 DEF ConfigRow
  <2>4. logs' \in [LogIds -> LogRow] /\ \A l \in LogIds : LogKept(l)
    <3>1. \E f : logs' = [l \in LogIds |-> f[l]]
      <4> DEFINE f == [l \in LogIds |-> [logs[l] EXCEPT !.beat = @ /\ (logs[l].status # "RUNNING"
                              \/ \E w \in Workers : Live(w) /\ workers[w].log = l)]]
      <4>1. logs' = f
        BY <1>3 DEF TimePasses
      <4>2. f = [l \in LogIds |-> f[l]]
        OBVIOUS
      <4> HIDE DEF f
      <4> QED BY <4>1, <4>2
    <3>2. \A l \in LogIds : logs'[l] \in LogRow /\ LogKept(l)
      BY <1>3, SilentLogs
    <3> QED BY <3>1, <3>2
  <2> QED BY <1>1, <1>3, <2>3, <2>4 DEF TimePasses
<1>4. CASE \E w \in Workers : Heartbeat(w)
  <2>1. PICK w \in Workers : Heartbeat(w)
    BY <1>4
  <2>2. config' \in ConfigRow /\ config'.cursor = config.cursor /\ config'.was = config.was
    BY <1>1, <2>1, StatusRow DEF Heartbeat
  <2> QED BY <1>1, <1>2, <2>1, <2>2 DEF Heartbeat
<1>5. CASE \/ RecoverStaleConfigsAndLogs
           \/ \E l \in LogIds : RecoverStaleSyncLog(l)
           \/ \E force \in BOOLEAN : ForceUnlockConfig(force)
  <2>1. config' = config \/ config' = SetStatus("FULL", "FAILED")
    BY <1>5 DEF RecoverStaleConfigsAndLogs, RecoverStaleSyncLog, ForceUnlockConfig
  <2>2. config' \in ConfigRow /\ config'.cursor = config.cursor /\ config'.was = config.was
    BY <1>1, <2>1, StatusRow
  <2>3. troubles' \in 0..MaxTroubles /\ (troubles' = 0 => troubles = 0)
    BY <1>1, <1>5, TroubleCounts DEF RecoverStaleConfigsAndLogs, RecoverStaleSyncLog, ForceUnlockConfig
  <2>4. \E f : logs' = [l \in LogIds |-> f[l]]
    <3>1. CASE RecoverStaleConfigsAndLogs
      <4> DEFINE f == [l \in LogIds |-> IF StaleLog(l)
                               THEN [logs[l] EXCEPT !.status = "FAILED", !.ended = TRUE]
                               ELSE logs[l]]
      <4>1. logs' = f
        BY <3>1 DEF RecoverStaleConfigsAndLogs
      <4>2. f = [l \in LogIds |-> f[l]]
        OBVIOUS
      <4> HIDE DEF f
      <4> QED BY <4>1, <4>2
    <3>2. CASE \E m \in LogIds : RecoverStaleSyncLog(m)
      <4>1. PICK m \in LogIds : logs' = [logs EXCEPT ![m] = FailedLog(logs[m])]
        BY <3>2 DEF RecoverStaleSyncLog
      <4>2. logs' = [l \in LogIds |-> logs'[l]]
        BY <1>1, <4>1
      <4> QED BY <4>2
    <3>3. CASE \E force \in BOOLEAN : ForceUnlockConfig(force)
      <4> DEFINE f == [l \in LogIds |-> IF l \in RunningLogs THEN FailedLog(logs[l]) ELSE logs[l]]
      <4>1. logs' = f
        BY <3>3 DEF ForceUnlockConfig
      <4>2. f = [l \in LogIds |-> f[l]]
        OBVIOUS
      <4> HIDE DEF f
      <4> QED BY <4>1, <4>2
    <3> QED BY <1>5, <3>1, <3>2, <3>3
  <2>5. \A l \in LogIds : logs'[l] \in LogRow /\ LogKept(l)
    BY <1>5, SweptLogs
  <2>6. logs' \in [LogIds -> LogRow]
    BY <2>4, <2>5
  <2>7. UNCHANGED <<now, feed, finished, pages, staged, projected, workers, causes>>
    BY <1>5 DEF RecoverStaleConfigsAndLogs, RecoverStaleSyncLog, ForceUnlockConfig
  <2> QED BY <2>2, <2>3, <2>5, <2>6, <2>7
<1> QED BY <1>3, <1>4, <1>5 DEF Sweep

\* A new log.
LEMMA BeginLog ==
    ASSUME TypesInv, NEW w \in Workers, NEW l \in LogIds, Begin(w, l)
    PROVE  /\ logs' \in [LogIds -> LogRow] /\ \A m \in LogIds \ {l} : logs'[m] = logs[m]
           /\ logs[l].status = "NONE"
           /\ logs'[l].status = "RUNNING" /\ logs'[l].beat
           /\ logs'[l].scope = workers[w].req.scope /\ logs'[l].window = workers[w].req.window
           /\ logs'[l].cursor = ActiveCursor(workers[w].req,
                                    StartCursor(workers[w].req, workers[w].cursor))
<1> DEFINE req == workers[w].req
           active == ActiveCursor(req, StartCursor(req, workers[w].cursor))
           named == [NoLog EXCEPT !.status = "RUNNING", !.scope = req.scope, !.window = req.window]
           beating == [named EXCEPT !.beat = TRUE]
           row == [beating EXCEPT !.cursor = active]
<1>1. req \in RunRequest /\ active \in Time /\ logs \in [LogIds -> LogRow]
  BY Rows, StartCursors DEF Worker, TypesInv, MargTypeOK, LogRow
<1>2. logs' = [logs EXCEPT ![l] = row] /\ logs[l].status = "NONE"
  BY DEF Begin
<1> HIDE DEF active
<1>3. NoLog \in LogRow
  BY Numbers DEF NoLog, LogRow, Scopes, Windows
<1>4. /\ named \in LogRow /\ named.status = "RUNNING" /\ named.scope = req.scope
      /\ named.window = req.window
  BY <1>1, <1>3 DEF LogRow, RunRequest
<1> HIDE DEF named
<1>5. /\ beating \in LogRow /\ beating.status = "RUNNING" /\ beating.scope = req.scope
      /\ beating.window = req.window /\ beating.beat
  BY <1>4 DEF LogRow
<1> HIDE DEF beating
<1>6. /\ row \in LogRow /\ row.status = "RUNNING" /\ row.scope = req.scope
      /\ row.window = req.window /\ row.beat /\ row.cursor = active
  BY <1>1, <1>5 DEF LogRow
<1> HIDE DEF row
<1> QED BY <1>1, <1>2, <1>6 DEF active

\* A log that is written by its run, or by its resume.
Wrote(w, status) ==
    /\ workers[w].log \in LogIds
    /\ logs' \in [LogIds -> LogRow]
    /\ \A m \in LogIds : m # workers[w].log => logs'[m] = logs[m]
    /\ logs'[workers[w].log].status = status /\ logs'[workers[w].log].beat
    /\ logs'[workers[w].log].scope = logs[workers[w].log].scope
    /\ logs'[workers[w].log].window = logs[workers[w].log].window
    /\ \/ logs'[workers[w].log].cursor = logs[workers[w].log].cursor
       \/ /\ workers[w].req.mode # "RESUME"
          /\ logs'[workers[w].log].cursor = ActiveCursor(workers[w].req, workers[w].cursor)

Written(r, status, failure) ==
    [r EXCEPT !.status = status, !.failure = failure, !.beat = TRUE]

LEMMA WrittenLog ==
    ASSUME NEW r \in LogRow, NEW status \in {"NONE", "RUNNING", "COMPLETED", "FAILED"},
           NEW failure \in {"none", "RETRYABLE", "FATAL"}
    PROVE  /\ Written(r, status, failure) \in LogRow
           /\ Written(r, status, failure).status = status /\ Written(r, status, failure).beat
           /\ Written(r, status, failure).scope = r.scope
           /\ Written(r, status, failure).window = r.window
           /\ Written(r, status, failure).cursor = r.cursor
<1> DEFINE m == [r EXCEPT !.status = status, !.failure = failure]
           n == [m EXCEPT !.beat = TRUE]
<1>1. /\ m \in LogRow /\ m.status = status
      /\ m.scope = r.scope /\ m.window = r.window /\ m.cursor = r.cursor
  BY DEF LogRow
<1> HIDE DEF m
<1>2. /\ n \in LogRow /\ n.status = status /\ n.beat
      /\ n.scope = r.scope /\ n.window = r.window /\ n.cursor = r.cursor
  BY <1>1 DEF LogRow
<1>3. Written(r, status, failure) = n
  BY DEF Written, m
<1> QED BY <1>2, <1>3

\* A process past the lock has the log it started or resumes, but while it begins.
LEMMA HasALog ==
    ASSUME TypesInv, NEW w \in Workers
    PROVE  /\ workers[w].log \in LogIds \cup {0}
           /\ workers[w].pc \notin {"idle", "begin"} => workers[w].log \in LogIds
           /\ ActiveCursor(workers[w].req, workers[w].cursor) \in Time
           /\ logs \in [LogIds -> LogRow] /\ config \in ConfigRow
           /\ troubles \in 0..MaxTroubles
<1>1. workers[w].log \in LogIds \cup {0} /\ workers[w].cursor \in [1..2 -> Time]
  BY Rows DEF Worker
<1>2. workers[w].log = 0 => workers[w].pc \in {"idle", "begin"}
  BY DEF TypesInv, Place
<1>3. /\ logs \in [LogIds -> LogRow] /\ config \in ConfigRow
      /\ troubles \in 0..MaxTroubles
  BY DEF TypesInv, MargTypeOK, LogRow, ConfigRow
<1> QED BY <1>1, <1>2, <1>3 DEF ActiveCursor

LEMMA EndedLog ==
    ASSUME NEW r \in LogRow, NEW ended \in BOOLEAN
    PROVE  LET n == [r EXCEPT !.ended = ended]
           IN  /\ n \in LogRow /\ n.status = r.status /\ n.beat = r.beat
               /\ n.scope = r.scope /\ n.window = r.window /\ n.cursor = r.cursor
  BY DEF LogRow

LEMMA MovedLog ==
    ASSUME NEW r \in LogRow, NEW cursor \in Time
    PROVE  LET n == [r EXCEPT !.cursor = cursor]
           IN  /\ n \in LogRow /\ n.status = r.status /\ n.beat = r.beat
               /\ n.scope = r.scope /\ n.window = r.window /\ n.cursor = cursor
  BY DEF LogRow

LEMMA FinishLogWrote ==
    ASSUME TypesInv, NEW w \in Workers, FinishLog(w)
    PROVE  /\ Wrote(w, "COMPLETED") /\ workers[w].req.mode # "RESUME"
           /\ finished' = Append(finished, workers[w].log)
           /\ finished' \in Seq(LogIds)
<1> DEFINE l == workers[w].log
           active == ActiveCursor(workers[w].req, workers[w].cursor)
           r == Written(logs[l], "COMPLETED", "none")
           e == [r EXCEPT !.ended = TRUE]
           row == [e EXCEPT !.cursor = active]
<1>1. /\ l \in LogIds /\ workers[w].req.mode # "RESUME" /\ active \in Time
      /\ logs \in [LogIds -> LogRow] /\ finished \in Seq(LogIds)
  BY Rows, HasALog DEF FinishLog, TypesInv, Place, RunPlaces
<1>2. logs' = [logs EXCEPT ![l] = row] /\ finished' = Append(finished, l)
  BY DEF FinishLog, Complete, Written
<1>3. /\ r \in LogRow /\ r.status = "COMPLETED" /\ r.beat
      /\ r.scope = logs[l].scope /\ r.window = logs[l].window
  BY <1>1, WrittenLog
<1> HIDE DEF r
<1>4. /\ e \in LogRow /\ e.status = "COMPLETED" /\ e.beat
      /\ e.scope = logs[l].scope /\ e.window = logs[l].window
  BY <1>3, EndedLog
<1> HIDE DEF e, active
<1>5. /\ row \in LogRow /\ row.status = "COMPLETED" /\ row.beat /\ row.cursor = active
      /\ row.scope = logs[l].scope /\ row.window = logs[l].window
  BY <1>1, <1>4, MovedLog
<1> HIDE DEF row
<1> QED BY <1>1, <1>2, <1>5 DEF Wrote, active

LEMMA FailLogWrote ==
    ASSUME TypesInv, NEW w \in Workers, NEW failure \in {"RETRYABLE", "FATAL"},
           FailLog(w, failure)
    PROVE  Wrote(w, "FAILED")
<1> DEFINE l == workers[w].log
           old == logs[l]
           active == ActiveCursor(workers[w].req, workers[w].cursor)
           r == Written(old, "FAILED", failure)
           ended == old.ended \/ workers[w].req.mode # "RESUME"
           cursor == IF workers[w].req.mode = "RESUME" THEN old.cursor ELSE active
           e == [r EXCEPT !.ended = ended]
           row == [e EXCEPT !.cursor = cursor]
<1>1. /\ l \in LogIds /\ active \in Time /\ logs \in [LogIds -> LogRow] /\ old \in LogRow
  BY HasALog DEF FailLog
<1>2. cursor \in Time /\ ended \in BOOLEAN
  BY <1>1 DEF LogRow
<1>3. logs' = [logs EXCEPT ![l] = row]
  BY DEF FailLog, Written
<1>4. /\ r \in LogRow /\ r.status = "FAILED" /\ r.beat
      /\ r.scope = old.scope /\ r.window = old.window
  BY <1>1, WrittenLog
<1> HIDE DEF r, ended
<1>5. /\ e \in LogRow /\ e.status = "FAILED" /\ e.beat
      /\ e.scope = old.scope /\ e.window = old.window
  BY <1>2, <1>4, EndedLog
<1> HIDE DEF e, cursor
<1>6. /\ row \in LogRow /\ row.status = "FAILED" /\ row.beat /\ row.cursor = cursor
      /\ row.scope = old.scope /\ row.window = old.window
  BY <1>2, <1>5, MovedLog
<1> HIDE DEF row
<1> QED BY <1>1, <1>3, <1>6 DEF Wrote, cursor

LEMMA FinishResumeLogWrote ==
    ASSUME TypesInv, NEW w \in Workers, FinishResumeLog(w)
    PROVE  /\ Wrote(w, ResumeOutcome(w))
           /\ finished' \in Seq(LogIds)
           /\ logs'[workers[w].log].cursor = logs[workers[w].log].cursor
<1> DEFINE l == workers[w].log
           old == logs[l]
           status == ResumeOutcome(w)
           failure == IF workers[w].bad THEN "RETRYABLE" ELSE "none"
           row == [old EXCEPT !.status = status, !.beat = TRUE, !.ended = TRUE,
                              !.failure = failure]
           s == [old EXCEPT !.status = status]
           b == [s EXCEPT !.beat = TRUE]
           e == [b EXCEPT !.ended = TRUE]
<1>1. /\ l \in LogIds /\ logs \in [LogIds -> LogRow] /\ old \in LogRow
      /\ finished \in Seq(LogIds)
  BY Rows, HasALog DEF FinishResumeLog, TypesInv
<1>2. status \in {"COMPLETED", "FAILED"} /\ failure \in {"none", "RETRYABLE", "FATAL"}
  BY DEF ResumeOutcome
<1>3. logs' = [logs EXCEPT ![l] = row]
  BY DEF FinishResumeLog
<1>4. finished' \in Seq(LogIds)
  <2>1. finished' = Append(finished, l) \/ finished' = finished
    BY DEF FinishResumeLog, Complete
  <2> HIDE DEF l
  <2> QED BY <1>1, <2>1
<1> HIDE DEF status, failure
<1>5. /\ s \in LogRow /\ s.status = status
      /\ s.scope = old.scope /\ s.window = old.window /\ s.cursor = old.cursor
  BY <1>1, <1>2 DEF LogRow
<1>6. row = [e EXCEPT !.failure = failure]
  OBVIOUS
<1> HIDE DEF s, row
<1>7. /\ b \in LogRow /\ b.status = status /\ b.beat
      /\ b.scope = old.scope /\ b.window = old.window /\ b.cursor = old.cursor
  BY <1>5 DEF LogRow
<1> HIDE DEF b
<1>8. /\ e \in LogRow /\ e.status = status /\ e.beat
      /\ e.scope = old.scope /\ e.window = old.window /\ e.cursor = old.cursor
  BY <1>7, EndedLog
<1> HIDE DEF e
<1>9. /\ row \in LogRow /\ row.status = status /\ row.beat
      /\ row.scope = old.scope /\ row.window = old.window /\ row.cursor = old.cursor
  BY <1>2, <1>6, <1>8 DEF LogRow
<1> QED BY <1>1, <1>3, <1>4, <1>9 DEF Wrote, status

LEMMA BeginResumeWrote ==
    ASSUME TypesInv, NEW w \in Workers, BeginResume(w)
    PROVE  /\ Wrote(w, "RUNNING")
           /\ logs'[workers[w].log].cursor = logs[workers[w].log].cursor
<1> DEFINE l == workers[w].log
           row == Written(logs[l], "RUNNING", "none")
<1>1. /\ l \in LogIds /\ logs \in [LogIds -> LogRow]
  BY BeginResumeRow DEF TypesInv, MargTypeOK, LogRow
<1>2. logs' = [logs EXCEPT ![l] = row]
  BY DEF BeginResume, Written
<1>3. /\ row \in LogRow /\ row.status = "RUNNING" /\ row.beat /\ row.cursor = logs[l].cursor
      /\ row.scope = logs[l].scope /\ row.window = logs[l].window
  BY <1>1, WrittenLog
<1> HIDE DEF row
<1> QED BY <1>1, <1>2, <1>3 DEF Wrote

-----------------------------------------------------------------------------
(* The steps, by what they do.                                             *)

\* A process gives the lock back, or dies.
Leaves(w) == NothingToResume(w) \/ Fail(w) \/ FinishResumeConfig(w) \/ Die(w)

LEMMA LeavesShape ==
    ASSUME TypesInv, NEW w \in Workers, Leaves(w)
    PROVE  /\ UNCHANGED <<now, feed, logs, finished, pages, staged, projected, causes>>
           /\ config' \in ConfigRow /\ config'.cursor = config.cursor /\ config'.was = config.was
           /\ config'.fresh \/ config' = config
           /\ troubles' \in 0..MaxTroubles /\ (troubles' = 0 => troubles = 0)
           /\ Only(w) /\ workers'[w].page = {} /\ workers'[w].touched = {} /\ Live(w)
           /\ \/ /\ workers'[w].pc = "faillog" /\ workers'[w].log = workers[w].log
                 /\ workers'[w].req = workers[w].req /\ workers'[w].cursor = workers[w].cursor
                 /\ workers[w].pc \notin {"idle", "begin"}
              \/ /\ workers'[w].pc = "idle" /\ workers'[w].log = 0
                 /\ workers'[w].req = NoRequest
                 /\ \A a \in 1..2 : workers'[w].cursor[a] = 0
<1>1. config \in ConfigRow /\ troubles \in 0..MaxTroubles
  BY HasALog
<1>2. CASE NothingToResume(w)
  <2>1. config' = SetStatus("FULL", "FAILED") /\ Wind(workers, w, "faillog")
    BY <1>2 DEF NothingToResume
  <2> QED BY <1>1, <1>2, <2>1, StatusRow, WindsDown DEF NothingToResume, Live
<1>3. CASE Fail(w)
  <2>1. /\ config' = SetStatus(workers[w].req.scope, "FAILED")
        /\ Wind(workers, w, "faillog") /\ Trouble
    BY <1>3 DEF Fail, Failing
  <2> QED BY <1>1, <1>3, <2>1, StatusRow, WindsDown, TroubleCounts DEF Fail, Live
<1>4. CASE FinishResumeConfig(w)
  <2>1. config' = SetStatus("FULL", ResumeOutcome(w)) /\ Rest(w)
    BY <1>4 DEF FinishResumeConfig
  <2> QED BY <1>1, <1>4, <2>1, StatusRow, Rests DEF FinishResumeConfig, Live
<1>5. CASE Die(w)
  <2>1. Rest(w) /\ Trouble
    BY <1>5 DEF Die
  <2> QED BY <1>1, <1>5, <2>1, Rests, TroubleCounts DEF Die
<1> QED BY <1>2, <1>3, <1>4, <1>5 DEF Leaves

LEMMA Steps ==
    ASSUME Next
    PROVE  \/ \E k \in Keys : Change(k) \/ Drop(k)
           \/ Sweep
           \/ \E scope \in Scopes, clear \in BOOLEAN : ResetSyncCursor(scope, clear)
           \/ \E w \in Workers :
                 \/ \E req \in Requests : StartRun(w, req)
                 \/ \E l \in LogIds : StartResume(w, l) \/ Begin(w, l)
                 \/ FetchNothing(w) \/ FetchPage(w) \/ StagePage(w) \/ FailStaging(w)
                 \/ CloseUnseen(w) \/ ProjectAndCommit(w) \/ FinishLog(w)
                 \/ \E failure \in {"RETRYABLE", "FATAL"} : FailLog(w, failure)
                 \/ BeginResume(w) \/ ReplayPage(w) \/ FinishResumeLog(w) \/ Leaves(w)
  BY DEF Next, Step, Sweep, Leaves

-----------------------------------------------------------------------------
(* The types.                                                              *)

LEMMA TypesOf ==
    ASSUME now' \in Time, feed' \in [Keys -> Time], config' \in ConfigRow,
           logs' \in [LogIds -> LogRow], staged' \in [Keys -> StagedRow],
           projected' \in [BillKeys -> Time], troubles' \in 0..MaxTroubles,
           causes' \subseteq {"overlap", "moved", "recovered", "hidden", "unprojected"},
           workers' \in [Workers -> Worker], pages' \subseteq Page, finished' \in Seq(LogIds),
           \A w \in Workers : Place(w)'
    PROVE  TypesInv'
<1>1. \A w \in Workers : /\ workers'[w].cursor \in [1..2 -> Time]
                         /\ workers'[w].log \in 0..MaxLogs
                         /\ workers'[w].touched \subseteq BillKeys
  BY SyncAssumption DEF Worker, LogIds
<1>2. MargTypeOK'
  BY <1>1 DEF MargTypeOK, ConfigRow, LogRow, StagedRow
<1> QED BY <1>2 DEF TypesInv

\* The types, one by one.
LEMMA Typed ==
    ASSUME TypesInv
    PROVE  /\ now \in Time /\ feed \in [Keys -> Time] /\ config \in ConfigRow
           /\ logs \in [LogIds -> LogRow] /\ staged \in [Keys -> StagedRow]
           /\ projected \in [BillKeys -> Time] /\ troubles \in 0..MaxTroubles
           /\ causes \subseteq {"overlap", "moved", "recovered", "hidden", "unprojected"}
           /\ workers \in [Workers -> Worker] /\ pages \subseteq Page
           /\ finished \in Seq(LogIds)
           /\ \A w \in Workers : Place(w)
  BY DEF TypesInv, MargTypeOK, ConfigRow, LogRow, StagedRow

LEMMA OnlyPlaces ==
    ASSUME TypesInv, NEW w \in Workers, Only(w), Place(w)'
    PROVE  \A v \in Workers : Place(v)'
<1> SUFFICES ASSUME NEW v \in Workers, v # w PROVE Place(v)'
  OBVIOUS
<1> QED BY Typed DEF Only, Kept, Place

\* Marking a page leaves everything but its status.
LEMMA MarkedPages ==
    ASSUME TypesInv, NEW status \in {"PENDING_STAGE", "STAGED", "STAGING_FAILED"},
           \/ \E w \in Workers : pages' = MarkPage(w, status)
           \/ \E p \in Page : pages' = Mark(p, status)
    PROVE  pages' \subseteq Page
<1>1. \A p \in pages : [p EXCEPT !.status = status] \in Page
  BY DEF TypesInv, Page
<1> QED BY <1>1, Typed DEF MarkPage, Mark

\* A commit saves the cursor; a reset empties it and may hide the stock.
LEMMA CommitShape ==
    ASSUME TypesInv, NEW w \in Workers, ProjectAndCommit(w)
    PROVE  /\ config' \in ConfigRow /\ config'.was = config.cursor /\ config'.fresh
           /\ \A a \in 1..2 : config'.cursor[a]
                  = IF a \in CommittedApis(w) THEN Committed(w, a) ELSE config.cursor[a]
           /\ config'.acct = FALSE
           /\ config'.inv = IF workers[w].req.scope = "FULL" THEN FALSE ELSE config.inv
           /\ Only(w) /\ workers[w].pc = "commit" /\ workers'[w].pc = "finish"
           /\ workers'[w].log = workers[w].log /\ workers'[w].req = workers[w].req
           /\ workers'[w].cursor = workers[w].cursor
           /\ workers'[w].page = {} /\ workers'[w].touched = {}
           /\ projected' \in [BillKeys -> Time]
           /\ troubles' \in 0..MaxTroubles /\ (troubles' = 0 => troubles = 0)
           /\ causes \cup CommitCauses(w) \subseteq causes'
           /\ causes' \subseteq causes \cup CommitCauses(w) \cup {"unprojected"}
           /\ \/ projected' = [k \in BillKeys |->
                    IF k \in ChangedSince(w) THEN staged[k].version ELSE projected[k]]
              \/ projected' = projected /\ "unprojected" \in causes'
<1> DEFINE cursor == [a \in 1..2 |-> IF a \in CommittedApis(w) THEN Committed(w, a)
                                     ELSE config.cursor[a]]
           row == SetStatus(workers[w].req.scope, "COMPLETED")
<1>1. /\ config \in ConfigRow /\ workers[w] \in Worker /\ now \in Time
      /\ projected \in [BillKeys -> Time] /\ staged \in [Keys -> StagedRow]
      /\ troubles \in 0..MaxTroubles
  BY Typed, Rows
<1>2. /\ row \in ConfigRow /\ row.fresh /\ row.cursor = config.cursor
      /\ row.acct = FALSE /\ row.inv = IF workers[w].req.scope = "FULL" THEN FALSE ELSE config.inv
  <2>1. row.acct = ("COMPLETED" = "RUNNING")
        /\ row.inv = IF workers[w].req.scope = "FULL" THEN "COMPLETED" = "RUNNING" ELSE config.inv
    BY <1>1, StatusRow
  <2> QED BY <1>1, <2>1, StatusRow
<1>3. cursor \in [1..2 -> Time]
  BY <1>1 DEF Committed, Worker, ConfigRow
<1>4. config' = [row EXCEPT !.was = config.cursor, !.cursor = cursor]
  <2>1. config' = [row EXCEPT !.was = config.cursor, !.cursor = [a \in 1..2 |->
                IF a \in CommittedApis(w) THEN Committed(w, a) ELSE row.cursor[a]]]
    BY DEF ProjectAndCommit
  <2>2. [a \in 1..2 |-> IF a \in CommittedApis(w) THEN Committed(w, a) ELSE row.cursor[a]]
            = cursor
    BY <1>2
  <2> QED BY <2>1, <2>2
<1>5. /\ config' \in ConfigRow /\ config'.was = config.cursor /\ config'.fresh
      /\ config'.cursor = cursor /\ config'.acct = row.acct /\ config'.inv = row.inv
  <2> HIDE DEF cursor, row
  <2> QED BY <1>1, <1>2, <1>3, <1>4 DEF ConfigRow
<1>6. projected' \in [BillKeys -> Time]
  <2>1. [k \in BillKeys |-> IF k \in ChangedSince(w) THEN staged[k].version ELSE projected[k]]
            \in [BillKeys -> Time]
    BY <1>1 DEF StagedRow, Keys
  <2> QED BY <1>1, <2>1 DEF ProjectAndCommit
<1>7. /\ Only(w) /\ workers'[w].pc = "finish"
      /\ workers'[w].log = workers[w].log /\ workers'[w].req = workers[w].req
      /\ workers'[w].cursor = workers[w].cursor
      /\ workers'[w].page = {} /\ workers'[w].touched = {}
  BY WindsDown DEF ProjectAndCommit
<1>8. troubles' \in 0..MaxTroubles /\ (troubles' = 0 => troubles = 0)
  BY <1>1, TroubleCounts DEF ProjectAndCommit
<1>9. /\ causes \cup CommitCauses(w) \subseteq causes'
      /\ causes' \subseteq causes \cup CommitCauses(w) \cup {"unprojected"}
      /\ \/ projected' = [k \in BillKeys |->
               IF k \in ChangedSince(w) THEN staged[k].version ELSE projected[k]]
         \/ projected' = projected /\ "unprojected" \in causes'
      /\ workers[w].pc = "commit"
  BY DEF ProjectAndCommit
<1>10. \A a \in 1..2 : cursor[a] = IF a \in CommittedApis(w) THEN Committed(w, a)
                                   ELSE config.cursor[a]
  OBVIOUS
<1> HIDE DEF cursor, row
<1> QED BY <1>2, <1>5, <1>6, <1>7, <1>8, <1>9, <1>10

\* A row that is hidden keeps its version and its log.
LEMMA HiddenRow ==
    ASSUME NEW r \in StagedRow
    PROVE  LET n == [r EXCEPT !.hidden = TRUE]
           IN  n \in StagedRow /\ n.version = r.version /\ n.seen = r.seen /\ n.hidden
  BY DEF StagedRow

LEMMA ResetShape ==
    ASSUME TypesInv, NEW scope \in Scopes, NEW clear \in BOOLEAN, ResetSyncCursor(scope, clear)
    PROVE  /\ config' \in ConfigRow /\ config'.was = config.cursor /\ config'.fresh
           /\ \A a \in 1..2 : config'.cursor[a] \in {config.cursor[a], 0}
           /\ config'.inv = config.inv /\ config'.acct = config.acct
           /\ staged' \in [Keys -> StagedRow]
           /\ \A k \in Keys : /\ staged'[k].version = staged[k].version
                              /\ staged'[k].seen = staged[k].seen
                              /\ \/ staged'[k] = staged[k]
                                 \/ /\ k \in StockKeys /\ staged[k].version > 0
                                    /\ "hidden" \in causes'
           /\ causes \subseteq causes' /\ causes' \subseteq causes \cup {"hidden"}
           /\ troubles' \in 0..MaxTroubles /\ troubles' # 0
           /\ UNCHANGED <<now, feed, logs, finished, pages, projected, workers>>
<1> DEFINE cursor == [a \in 1..2 |-> IF a = 2 /\ scope = "ACCOUNTING" THEN config.cursor[a] ELSE 0]
           fresh == [config EXCEPT !.fresh = TRUE]
<1>1. config \in ConfigRow /\ staged \in [Keys -> StagedRow]
  BY Typed
<1>2. cursor \in [1..2 -> Time]
  BY <1>1, Numbers DEF ConfigRow
<1>3. config' = [fresh EXCEPT !.was = config.cursor, !.cursor = cursor]
  BY DEF ResetSyncCursor
<1>4. /\ fresh \in ConfigRow /\ fresh.fresh /\ fresh.inv = config.inv /\ fresh.acct = config.acct
  BY <1>1 DEF ConfigRow
<1>5. /\ config' \in ConfigRow /\ config'.was = config.cursor /\ config'.fresh
      /\ config'.cursor = cursor /\ config'.acct = config.acct /\ config'.inv = config.inv
  <2> HIDE DEF cursor, fresh
  <2> QED BY <1>1, <1>2, <1>3, <1>4 DEF ConfigRow
<1>6. \A a \in 1..2 : cursor[a] \in {config.cursor[a], 0}
  OBVIOUS
<1>7. troubles' \in 0..MaxTroubles /\ troubles' # 0
  BY TroubleCounts DEF ResetSyncCursor
<1> DEFINE rows == [k \in Keys |-> IF clear /\ k \in StockKeys /\ staged[k].version > 0
                                   THEN [staged[k] EXCEPT !.hidden = TRUE] ELSE staged[k]]
<1>8. staged' = rows
  BY DEF ResetSyncCursor
<1>9. /\ rows \in [Keys -> StagedRow]
      /\ \A k \in Keys : /\ rows[k].version = staged[k].version
                         /\ rows[k].seen = staged[k].seen
                         /\ rows[k] = staged[k] \/ (k \in StockKeys /\ staged[k].version > 0)
  BY <1>1, HiddenRow
<1> HIDE DEF rows, cursor
<1>10. causes' = IF staged' # staged THEN causes \cup {"hidden"} ELSE causes
  BY DEF ResetSyncCursor
<1>11. UNCHANGED <<now, feed, logs, finished, pages, projected, workers>>
  BY DEF ResetSyncCursor
<1> QED BY <1>5, <1>6, <1>7, <1>8, <1>9, <1>10, <1>11

LEMMA CloseShape ==
    ASSUME TypesInv, NEW w \in Workers, CloseUnseen(w)
    PROVE  /\ staged' \in [Keys -> StagedRow]
           /\ \A k \in Keys : /\ staged'[k].version = staged[k].version
                              /\ staged'[k].seen = staged[k].seen
                              /\ \/ staged'[k] = staged[k]
                                 \/ /\ Authoritative(w, Api(k)) /\ staged[k].version > 0
                                    /\ staged[k].seen # workers[w].log
           /\ Only(w) /\ SameRun(w) /\ workers[w].pc = "close" /\ workers'[w].pc = "commit"
           /\ workers'[w].cursor = workers[w].cursor /\ workers'[w].api = workers[w].api
           /\ workers'[w].page = workers[w].page /\ workers'[w].touched = workers[w].touched
           /\ UNCHANGED <<now, feed, config, logs, finished, pages, projected, causes, troubles>>
<1>1. staged \in [Keys -> StagedRow]
  BY Typed
<1> DEFINE rows == [k \in Keys |->
            IF Authoritative(w, Api(k)) /\ staged[k].version > 0 /\ staged[k].seen # workers[w].log
            THEN [staged[k] EXCEPT !.hidden = TRUE] ELSE staged[k]]
<1>2. staged' = rows
  BY DEF CloseUnseen
<1>3. /\ rows \in [Keys -> StagedRow]
      /\ \A k \in Keys : /\ rows[k].version = staged[k].version
                         /\ rows[k].seen = staged[k].seen
                         /\ \/ rows[k] = staged[k]
                            \/ /\ Authoritative(w, Api(k)) /\ staged[k].version > 0
                               /\ staged[k].seen # workers[w].log
  BY <1>1, HiddenRow
<1> HIDE DEF rows
<1>4. "commit" \in RunPlaces \cup ResumePlaces /\ Goto(w, "commit")
  BY DEF RunPlaces, CloseUnseen
<1> QED BY <1>2, <1>3, <1>4, GotoRow DEF CloseUnseen

LEMMA FailStagingShape ==
    ASSUME TypesInv, NEW w \in Workers, FailStaging(w)
    PROVE  /\ Only(w) /\ workers[w].pc = "stage" /\ workers'[w].pc = "faillog"
           /\ workers[w].req.mode = "FETCH" /\ workers[w].log \in LogIds
           /\ workers'[w].log = workers[w].log /\ workers'[w].req = workers[w].req
           /\ workers'[w].cursor = workers[w].cursor
           /\ workers'[w].page = {} /\ workers'[w].touched = {}
           /\ \E q \in workers[w].page :
                 /\ q \in Fetched
                 /\ staged' = staged \/ Upsert(q.key, q.version, workers[w].log)
           /\ pages' = MarkPage(w, "STAGING_FAILED")
           /\ config' \in ConfigRow /\ config'.cursor = config.cursor /\ config'.was = config.was
           /\ config'.fresh
           /\ troubles' \in 0..MaxTroubles /\ troubles' # 0
           /\ UNCHANGED <<now, feed, logs, finished, projected, causes>>
<1>1. /\ workers[w].pc = "stage" /\ Trouble
      /\ config' = SetStatus(workers[w].req.scope, "FAILED")
      /\ pages' = MarkPage(w, "STAGING_FAILED")
      /\ UNCHANGED <<now, feed, logs, finished, projected, causes>>
  BY DEF FailStaging, Failing
<1>2. workers[w].req.mode = "FETCH" /\ workers[w].log \in LogIds /\ workers[w].page \subseteq Fetched
  BY <1>1, HasALog DEF TypesInv, Place
<1>3. PICK q \in workers[w].page :
          \/ UNCHANGED staged /\ Wind(workers, w, "faillog")
          \/ /\ MayStage(w, q.key)
             /\ Upsert(q.key, q.version, workers[w].log)
             /\ Wind(Touch(q.key), w, "faillog")
  BY DEF FailStaging
<1>4. q \in Fetched /\ q.key \in Keys
  BY <1>2 DEF Fetched
<1>5. /\ Only(w) /\ workers'[w].pc = "faillog"
      /\ workers'[w].log = workers[w].log /\ workers'[w].req = workers[w].req
      /\ workers'[w].cursor = workers[w].cursor
      /\ workers'[w].page = {} /\ workers'[w].touched = {}
  BY <1>3, <1>4, WindsDown
<1> QED BY <1>1, <1>2, <1>3, <1>4, <1>5, HasALog, StatusRow, TroubleCounts

\* What a page holds can be staged.
LEMMA UpsertTyped ==
    ASSUME TypesInv, NEW q, q \in Fetched \cup Page, NEW log \in LogIds,
           Upsert(q.key, q.version, log)
    PROVE  staged' \in [Keys -> StagedRow]
<1>1. q.key \in Keys /\ q.version \in Time
  BY DEF Fetched, Page
<1> QED BY <1>1, UpsertRow

\* Init is a state of the right types.
\* At first it is the time of the last change.
LEMMA FirstNow ==
    ASSUME Init
    PROVE  now \in Time /\ \A k \in Keys : feed[k] <= now
<1>1. feed \in [Keys -> Time] /\ feed = InitialFeed
  BY SyncAssumption DEF Init
<1> DEFINE bounds == {t \in Time : \A k \in Keys : feed[k] <= t}
<1>2. bounds \in SUBSET Nat /\ MaxTime \in bounds
  BY <1>1, Numbers, SyncAssumption DEF Time
<1>3. PICK t \in bounds : \A u \in bounds : t <= u
  BY <1>2, LeastElement
<1>4. t \in Time /\ t \in Nat /\ (\A k \in Keys : feed[k] <= t)
  BY <1>2
<1>5. t = 0 \/ \E k \in Keys : feed[k] = t
  <2> SUFFICES ASSUME t # 0, \A k \in Keys : feed[k] # t PROVE FALSE
    OBVIOUS
  <2>1. t - 1 \in Time /\ \A k \in Keys : feed[k] <= t - 1
    BY <1>1, <1>4, Numbers, SyncAssumption DEF Time
  <2>2. t <= t - 1
    BY <1>3, <2>1
  <2> QED BY <1>4, <2>2
<1>6. \E u \in Time : (\A k \in Keys : feed[k] <= u) /\ (u = 0 \/ \E k \in Keys : feed[k] = u)
  BY <1>4, <1>5
<1> HIDE DEF bounds
<1> QED BY <1>6 DEF Init

LEMMA TypesInit == Init => TypesInv
<1> SUFFICES ASSUME Init PROVE TypesInv
  OBVIOUS
<1>1. feed \in [Keys -> Time] /\ feed = InitialFeed
  BY SyncAssumption DEF Init
<1>2. now \in Time
  BY FirstNow
<1>3. config \in ConfigRow
  BY Numbers DEF Init, ConfigRow
<1>4. logs \in [LogIds -> LogRow]
  <2>1. NoLog \in LogRow
    BY Numbers DEF NoLog, LogRow, Scopes, Windows
  <2> QED BY <2>1 DEF Init
<1>5. staged \in [Keys -> StagedRow] /\ projected \in [BillKeys -> Time]
  BY Numbers, SyncAssumption DEF Init, StagedRow
<1>6. workers \in [Workers -> Worker] /\ \A w \in Workers : Place(w)
  <2>1. \A w \in Workers : workers[w] = Idle
    BY DEF Init
  <2> QED BY <2>1, IdleRow DEF Init, Place, RunPlaces, ResumePlaces
<1>7. /\ pages \subseteq Page /\ finished \in Seq(LogIds) /\ troubles \in 0..MaxTroubles
      /\ causes \subseteq {"overlap", "moved", "recovered", "hidden", "unprojected"}
  BY SyncAssumption DEF Init
<1>8. MargTypeOK
  <2>1. \A w \in Workers : /\ workers[w].cursor \in [1..2 -> Time]
                           /\ workers[w].log \in 0..MaxLogs
                           /\ workers[w].touched \subseteq BillKeys
    BY <1>6, SyncAssumption DEF Worker, LogIds
  <2> QED BY <1>1, <1>2, <1>3, <1>4, <1>5, <1>7, <2>1 DEF MargTypeOK, ConfigRow, LogRow, StagedRow
<1> QED BY <1>6, <1>7, <1>8 DEF TypesInv

LEMMA TypesStep ==
    ASSUME TypesInv, LogsInv, Next
    PROVE  TypesInv'
<1> USE Typed
<1>1. ASSUME NEW k \in Keys, Change(k) \/ Drop(k) PROVE TypesInv'
  <2>1. now' \in Time /\ feed' \in [Keys -> Time] /\ troubles' \in 0..MaxTroubles
    <3>1. CASE Change(k)
      <4>1. now + 1 \in Time
        BY <3>1, Numbers DEF Change, Time
      <4> QED BY <3>1, <4>1 DEF Change
    <3>2. CASE Drop(k)
      BY <3>2, Numbers, TroubleCounts DEF Drop
    <3> QED BY <1>1, <3>1, <3>2
  <2>2. UNCHANGED <<config, logs, finished, pages, staged, projected, workers, causes>>
    BY <1>1 DEF Change, Drop
  <2>3. \A w \in Workers : Place(w)'
    BY <2>2 DEF Place
  <2> QED BY <2>1, <2>2, <2>3, TypesOf
<1>2. CASE Sweep
  <2>1. /\ UNCHANGED <<now, feed, finished, pages, staged, projected, workers, causes>>
        /\ config' \in ConfigRow /\ logs' \in [LogIds -> LogRow] /\ troubles' \in 0..MaxTroubles
    BY <1>2, SweepShape
  <2>2. \A w \in Workers : Place(w)'
    BY <2>1 DEF Place
  <2> QED BY <2>1, <2>2, TypesOf
<1>3. ASSUME NEW scope \in Scopes, NEW clear \in BOOLEAN, ResetSyncCursor(scope, clear)
      PROVE  TypesInv'
  <2>1. /\ UNCHANGED <<now, feed, logs, finished, pages, projected, workers>>
        /\ config' \in ConfigRow /\ staged' \in [Keys -> StagedRow]
        /\ troubles' \in 0..MaxTroubles /\ causes' \subseteq causes \cup {"hidden"}
    BY <1>3, ResetShape
  <2>2. \A w \in Workers : Place(w)'
    BY <2>1 DEF Place
  <2> QED BY <2>1, <2>2, TypesOf
<1> SUFFICES ASSUME NEW w \in Workers,
                 \/ \E req \in Requests : StartRun(w, req)
                 \/ \E l \in LogIds : StartResume(w, l) \/ Begin(w, l)
                 \/ FetchNothing(w) \/ FetchPage(w) \/ StagePage(w) \/ FailStaging(w)
                 \/ CloseUnseen(w) \/ ProjectAndCommit(w) \/ FinishLog(w)
                 \/ \E failure \in {"RETRYABLE", "FATAL"} : FailLog(w, failure)
                 \/ BeginResume(w) \/ ReplayPage(w) \/ FinishResumeLog(w) \/ Leaves(w)
             PROVE  TypesInv'
  BY <1>1, <1>2, <1>3, Steps
<1>4. ASSUME NEW req \in Requests, StartRun(w, req) PROVE TypesInv'
  <2>1. /\ UNCHANGED <<now, feed, logs, finished, pages, staged, projected, troubles>>
        /\ config' \in ConfigRow /\ causes' \subseteq causes \cup {"overlap"}
    BY <1>4, StatusRow DEF StartRun, OverlapCauses
  <2>2. Only(w) /\ Place(w)'
    BY <1>4, StartRunRow DEF Place, RunPlaces, ResumePlaces
  <2> QED BY <2>1, <2>2, OnlyPlaces, TypesOf DEF Only
<1>5. ASSUME NEW l \in LogIds, StartResume(w, l) PROVE TypesInv'
  <2>1. /\ UNCHANGED <<now, feed, logs, finished, pages, staged, projected, troubles>>
        /\ config' \in ConfigRow /\ causes' \subseteq causes \cup {"overlap"}
    BY <1>5, StatusRow DEF StartResume, OverlapCauses
  <2>2. Only(w) /\ Place(w)'
    BY <1>5, StartResumeRow, Numbers DEF Place, RunPlaces, ResumePlaces
  <2> QED BY <2>1, <2>2, OnlyPlaces, TypesOf DEF Only
<1>6. ASSUME NEW l \in LogIds, Begin(w, l) PROVE TypesInv'
  <2>1. /\ UNCHANGED <<now, feed, config, finished, pages, staged, projected, troubles>>
        /\ logs' \in [LogIds -> LogRow] /\ causes' \subseteq causes \cup {"hidden", "recovered"}
    BY <1>6, BeginLog DEF Begin, RecoveryCauses
  <2>2. Only(w) /\ Place(w)'
    <3>1. Place(w) /\ workers[w].pc = "begin"
      BY <1>6, BeginRow
    <3>2. /\ Only(w) /\ workers'[w].log = l /\ l # 0 /\ workers'[w].page = workers[w].page
          /\ workers'[w].req.mode \in {"FETCH", "REPROJECT"}
          /\ \/ workers'[w].pc = "fetch" /\ workers'[w].req.mode = "FETCH"
             \/ workers'[w].pc = "close"
      BY <1>6, BeginRow, Numbers
    <3>3. workers[w].page \subseteq Page
      BY <3>1 DEF Place
    <3> QED BY <3>2, <3>3 DEF Place, RunPlaces, ResumePlaces
  <2> QED BY <2>1, <2>2, OnlyPlaces, TypesOf DEF Only
<1>7. CASE FetchNothing(w)
  <2>1. UNCHANGED <<now, feed, config, logs, finished, pages, staged, projected, causes, troubles>>
    BY <1>7 DEF FetchNothing
  <2>2. Only(w) /\ Place(w)'
    <3>1. workers[w].api \in 1..2
      BY Rows DEF Worker
    <3> QED BY <1>7, <3>1, FetchNothingRow DEF Place, RunPlaces, ResumePlaces, SameRun
  <2> QED BY <2>1, <2>2, OnlyPlaces, TypesOf DEF Only
<1>8. CASE FetchPage(w)
  <2>1. PICK k \in NextChanges(workers[w].api, workers[w].cursor[workers[w].api]) :
              \/ /\ pages' = {p \in pages : ~IsPage(p, PageId(w))} \cup {SavedPage(w, k)}
                 /\ UNCHANGED troubles
              \/ UNCHANGED pages /\ Trouble
    BY <1>8, FetchPageRow
  <2>2. UNCHANGED <<now, feed, config, logs, finished, staged, projected, causes>>
    BY <1>8 DEF FetchPage
  <2>3. Only(w) /\ Place(w)'
    BY <1>8, FetchPageRow DEF Place, RunPlaces, ResumePlaces, SameRun
  <2>4. SavedPage(w, k) \in Page
    <3>1. /\ workers[w].log \in LogIds /\ workers[w].api \in 1..2
          /\ workers[w].cursor \in [1..2 -> Time]
      BY <1>8, FetchPageRow, HasALog, Rows DEF Worker
    <3>2. k \in Keys /\ feed[k] \in Time
      BY DEF NextChanges
    <3> QED BY <3>1, <3>2 DEF SavedPage, Page
  <2>5. pages' \subseteq Page /\ troubles' \in 0..MaxTroubles
    BY <2>1, <2>4, TroubleCounts
  <2> QED BY <2>2, <2>3, <2>5, OnlyPlaces, TypesOf DEF Only
<1>9. CASE StagePage(w)
  <2>1. /\ UNCHANGED <<now, feed, logs, finished, projected, causes>>
        /\ config' \in ConfigRow
        /\ (pages' = MarkPage(w, "STAGED") /\ UNCHANGED troubles) \/ (UNCHANGED pages /\ Trouble)
    BY <1>9, StatusRow DEF StagePage
  <2>2. pages' \subseteq Page /\ troubles' \in 0..MaxTroubles
    BY <2>1, MarkedPages, TroubleCounts
  <2>3. Only(w) /\ Place(w)'
    <3>1. workers'[w].pc \in {"fetch", "close"}
      <4>1. workers[w].api \in 1..2
        BY Rows DEF Worker
      <4>2. AfterApi(w).pc \in {"fetch", "close"}
        BY <4>1, AfterApiRow
      <4>3. workers'[w].pc \in {"fetch", AfterApi(w).pc}
        BY <1>9, StagePageRow
      <4> QED BY <4>2, <4>3
    <3>2. /\ Only(w) /\ SameRun(w) /\ workers'[w].page = {} /\ workers[w].req.mode = "FETCH"
          /\ workers[w].log \in LogIds
      BY <1>9, StagePageRow
    <3> QED BY <3>1, <3>2, Numbers DEF Place, RunPlaces, ResumePlaces, SameRun
  <2>4. staged' \in [Keys -> StagedRow]
    <3>1. PICK q \in workers[w].page : q \in Fetched /\ StageRow(w, q)
      BY <1>9, StagePageRow
    <3>2. workers[w].log \in LogIds
      BY <1>9, StagePageRow
    <3> QED BY <3>1, <3>2, UpsertTyped DEF StageRow
  <2> QED BY <2>1, <2>2, <2>3, <2>4, OnlyPlaces, TypesOf DEF Only
<1>10. CASE FailStaging(w)
  <2>1. /\ UNCHANGED <<now, feed, logs, finished, projected, causes>>
        /\ config' \in ConfigRow /\ troubles' \in 0..MaxTroubles
    BY <1>10, FailStagingShape
  <2>2. pages' \subseteq Page
    BY <1>10, FailStagingShape, MarkedPages
  <2>3. Only(w) /\ Place(w)'
    BY <1>10, FailStagingShape, Numbers DEF Place, RunPlaces, ResumePlaces
  <2>4. staged' \in [Keys -> StagedRow]
    BY <1>10, FailStagingShape, UpsertTyped
  <2> QED BY <2>1, <2>2, <2>3, <2>4, OnlyPlaces, TypesOf DEF Only
<1>11. CASE CloseUnseen(w)
  <2>1. /\ UNCHANGED <<now, feed, config, logs, finished, pages, projected, causes, troubles>>
        /\ staged' \in [Keys -> StagedRow]
    BY <1>11, CloseShape
  <2>2. Only(w) /\ Place(w)'
    BY <1>11, CloseShape DEF Place, RunPlaces, ResumePlaces, SameRun
  <2> QED BY <2>1, <2>2, OnlyPlaces, TypesOf DEF Only
<1>12. CASE ProjectAndCommit(w)
  <2>1. /\ UNCHANGED <<now, feed, logs, finished, pages, staged>>
        /\ config' \in ConfigRow /\ projected' \in [BillKeys -> Time]
        /\ troubles' \in 0..MaxTroubles
        /\ causes' \subseteq causes \cup CommitCauses(w) \cup {"unprojected"}
    BY <1>12, CommitShape DEF ProjectAndCommit
  <2>2. Only(w) /\ Place(w)'
    BY <1>12, CommitShape, ZenonT(60) DEF Place, RunPlaces, ResumePlaces
  <2> QED BY <2>1, <2>2, OnlyPlaces, TypesOf DEF Only, CommitCauses
<1>13. CASE \/ FinishLog(w)
            \/ \E failure \in {"RETRYABLE", "FATAL"} : FailLog(w, failure)
  <2>1. /\ UNCHANGED <<now, feed, config, pages, staged, projected, causes, troubles>>
        /\ logs' \in [LogIds -> LogRow] /\ finished' \in Seq(LogIds) /\ Rest(w)
    BY <1>13, FinishLogWrote, FailLogWrote DEF FinishLog, FailLog, Wrote
  <2>2. Only(w) /\ Place(w)'
    BY <2>1, Rests DEF Place, RunPlaces, ResumePlaces
  <2> QED BY <2>1, <2>2, OnlyPlaces, TypesOf DEF Only
<1>14. CASE BeginResume(w)
  <2>1. /\ UNCHANGED <<now, feed, config, finished, pages, staged, projected, causes, troubles>>
        /\ logs' \in [LogIds -> LogRow]
    BY <1>14, BeginResumeWrote DEF BeginResume, Wrote
  <2>2. Only(w) /\ Place(w)'
    BY <1>14, BeginResumeRow, Numbers DEF Place, RunPlaces, ResumePlaces, SameRun
  <2> QED BY <2>1, <2>2, OnlyPlaces, TypesOf DEF Only
<1>15. CASE ReplayPage(w)
  <2>1. UNCHANGED <<now, feed, logs, finished, projected>> /\ config' \in ConfigRow
    BY <1>15, StatusRow DEF ReplayPage
  <2>2. PICK p \in workers[w].page :
           /\ p \in Page /\ workers'[w].page = workers[w].page \ {p}
           /\ \/ /\ Upsert(p.key, p.version, p.log)
                 /\ pages' = Mark(p, "STAGED")
                 /\ causes' = IF staged[p.key].version > p.version
                              THEN causes \cup {"moved"} ELSE causes
                 /\ UNCHANGED troubles
              \/ /\ pages' = Mark(p, "STAGED")
                 /\ UNCHANGED <<staged, causes, troubles>>
              \/ /\ pages' = Mark(p, "STAGING_FAILED")
                 /\ Trouble
                 /\ UNCHANGED <<staged, causes>>
    BY <1>15, ReplayPageRow
  <2>3. p.log \in LogIds
    BY <2>2 DEF Page
  <2>4. /\ pages' \subseteq Page /\ staged' \in [Keys -> StagedRow]
        /\ troubles' \in 0..MaxTroubles /\ causes' \subseteq causes \cup {"moved"}
    BY <2>2, <2>3, MarkedPages, UpsertTyped, TroubleCounts
  <2>5. Only(w) /\ Place(w)'
    <3>1. /\ Only(w) /\ workers[w].pc = "replay" /\ workers'[w].pc = "replay"
          /\ workers[w].req.mode = "RESUME" /\ workers[w].log \in LogIds
          /\ workers'[w].log = workers[w].log /\ workers'[w].req = workers[w].req
          /\ workers'[w].page \subseteq workers[w].page
      BY <1>15, ReplayPageRow
    <3> QED BY <3>1, Numbers DEF Place, RunPlaces, ResumePlaces
  <2> QED BY <2>1, <2>4, <2>5, OnlyPlaces, TypesOf DEF Only
<1>16. CASE FinishResumeLog(w)
  <2>1. /\ UNCHANGED <<now, feed, config, pages, staged, projected, causes, troubles>>
        /\ logs' \in [LogIds -> LogRow] /\ finished' \in Seq(LogIds)
    BY <1>16, FinishResumeLogWrote DEF FinishResumeLog, Wrote
  <2>2. Only(w) /\ Place(w)'
    <3>1. "rconfig" \in RunPlaces \cup ResumePlaces /\ Goto(w, "rconfig") /\ workers[w].pc = "replay"
      BY <1>16 DEF FinishResumeLog, ResumePlaces
    <3> QED BY <3>1, GotoRow DEF Place, RunPlaces, ResumePlaces, SameRun
  <2> QED BY <2>1, <2>2, OnlyPlaces, TypesOf DEF Only
<1>17. CASE Leaves(w)
  <2>1. /\ UNCHANGED <<now, feed, logs, finished, pages, staged, projected, causes>>
        /\ config' \in ConfigRow /\ troubles' \in 0..MaxTroubles
    BY <1>17, LeavesShape
  <2>2. Only(w) /\ Place(w)'
    BY <1>17, LeavesShape DEF Place, RunPlaces, ResumePlaces
  <2> QED BY <2>1, <2>2, OnlyPlaces, TypesOf DEF Only
<1> QED BY <1>4, <1>5, <1>6, <1>7, <1>8, <1>9, <1>10, <1>11, <1>12, <1>13, <1>14, <1>15, <1>16,
           <1>17

-----------------------------------------------------------------------------
(* What flows where: into the feed, the staged rows, the pages, the logs   *)
(* and the rows of the processes.                                          *)

\* A step of one of the processes.
Works(w) ==
    \/ \E req \in Requests : StartRun(w, req)
    \/ \E l \in LogIds : StartResume(w, l) \/ Begin(w, l)
    \/ FetchNothing(w) \/ FetchPage(w) \/ StagePage(w) \/ FailStaging(w)
    \/ CloseUnseen(w) \/ ProjectAndCommit(w) \/ FinishLog(w)
    \/ \E failure \in {"RETRYABLE", "FATAL"} : FailLog(w, failure)
    \/ BeginResume(w) \/ ReplayPage(w) \/ FinishResumeLog(w) \/ Leaves(w)

LEMMA FeedFlow ==
    ASSUME TypesInv, LogsInv, Next
    PROVE  \/ UNCHANGED <<now, feed>>
           \/ \E k \in Keys : Change(k) \/ Drop(k)
<1>1. ASSUME NEW w \in Workers, Works(w) PROVE UNCHANGED <<now, feed>>
  BY <1>1, LeavesShape DEF Works, StartRun, StartResume, Begin, FetchNothing, FetchPage, StagePage,
     FailStaging, CloseUnseen, ProjectAndCommit, FinishLog, FailLog, BeginResume, ReplayPage,
     FinishResumeLog
<1> QED BY <1>1, Steps, SweepShape, ResetShape DEF Works

Upserted(w, k) ==
    /\ Working(w) /\ workers[w].log \in LogIds /\ workers[w].pc \in {"stage", "replay"}
    /\ \E q \in workers[w].page :
          /\ q.key = k /\ staged'[k].version = q.version
          /\ ~staged'[k].hidden /\ staged'[k].seen = workers[w].log

LEMMA UpsertFlow ==
    ASSUME TypesInv, NEW k \in Keys, NEW w \in Workers, NEW q \in workers[w].page,
           q \in Fetched \cup Page, workers[w].log \in LogIds,
           workers[w].pc \in {"stage", "replay"},
           staged' = staged \/ Upsert(q.key, q.version, workers[w].log)
    PROVE  staged'[k] = staged[k] \/ Upserted(w, k)
<1>1. q.key \in Keys /\ q.version \in Time /\ Working(w)
  BY DEF Fetched, Page, Working, Live
<1>2. CASE Upsert(q.key, q.version, workers[w].log)
  <2>1. /\ staged'[q.key].version = q.version /\ ~staged'[q.key].hidden
        /\ staged'[q.key].seen = workers[w].log
        /\ \A j \in Keys \ {q.key} : staged'[j] = staged[j]
    BY <1>1, <1>2, UpsertRow
  <2> QED BY <1>1, <2>1 DEF Upserted
<1> QED BY <1>2

LEMMA StagedFlow ==
    ASSUME TypesInv, LogsInv, Next, NEW k \in Keys
    PROVE  \/ staged'[k] = staged[k]
           \/ \E w \in Workers : /\ StagePage(w) \/ FailStaging(w) \/ ReplayPage(w)
                                 /\ Upserted(w, k)
           \/ /\ staged'[k].version = staged[k].version /\ staged'[k].seen = staged[k].seen
              /\ staged[k].version > 0
              /\ \/ k \in StockKeys /\ "hidden" \in causes'
                 \/ \E w \in Workers : /\ CloseUnseen(w) /\ Authoritative(w, Api(k))
                                       /\ staged[k].seen # workers[w].log
<1>1. CASE UNCHANGED staged
  BY <1>1
<1>2. ASSUME NEW scope \in Scopes, NEW clear \in BOOLEAN, ResetSyncCursor(scope, clear)
      PROVE  \/ staged'[k] = staged[k]
             \/ /\ staged'[k].version = staged[k].version /\ staged'[k].seen = staged[k].seen
                /\ staged[k].version > 0 /\ k \in StockKeys /\ "hidden" \in causes'
  BY <1>2, ResetShape
<1>3. ASSUME NEW w \in Workers, StagePage(w) PROVE staged'[k] = staged[k] \/ Upserted(w, k)
  <2>1. PICK q \in workers[w].page : q \in Fetched /\ StageRow(w, q)
    BY <1>3, StagePageRow
  <2>2. /\ workers[w].pc = "stage" /\ workers[w].log \in LogIds
        /\ staged' = staged \/ Upsert(q.key, q.version, workers[w].log)
    BY <1>3, <2>1, StagePageRow DEF StageRow
  <2> QED BY <2>1, <2>2, UpsertFlow
<1>4. ASSUME NEW w \in Workers, FailStaging(w) PROVE staged'[k] = staged[k] \/ Upserted(w, k)
  <2>1. PICK q \in workers[w].page :
          q \in Fetched /\ (staged' = staged \/ Upsert(q.key, q.version, workers[w].log))
    BY <1>4, FailStagingShape
  <2> QED BY <1>4, <2>1, FailStagingShape, UpsertFlow
<1>5. ASSUME NEW w \in Workers, ReplayPage(w) PROVE staged'[k] = staged[k] \/ Upserted(w, k)
  <2>1. PICK q \in workers[w].page :
          q \in Page /\ (staged' = staged \/ Upsert(q.key, q.version, q.log))
    BY <1>5, ReplayPageRow
  <2>2. workers[w].log \in LogIds /\ workers[w].pc = "replay" /\ workers[w].log # 0
    BY <1>5, ReplayPageRow, Numbers
  <2>3. q.log = workers[w].log
    BY <2>2 DEF LogsInv
  <2> QED BY <2>1, <2>2, <2>3, UpsertFlow
<1>6. ASSUME NEW w \in Workers, CloseUnseen(w)
      PROVE  \/ staged'[k] = staged[k]
             \/ /\ staged'[k].version = staged[k].version /\ staged'[k].seen = staged[k].seen
                /\ staged[k].version > 0 /\ Authoritative(w, Api(k))
                /\ staged[k].seen # workers[w].log
  BY <1>6, CloseShape
<1>7. ASSUME NEW w \in Workers, Works(w)
      PROVE  UNCHANGED staged \/ StagePage(w) \/ FailStaging(w) \/ ReplayPage(w) \/ CloseUnseen(w)
  BY <1>7, LeavesShape DEF Works, StartRun, StartResume, Begin, FetchNothing, FetchPage,
     ProjectAndCommit, FinishLog, FailLog, BeginResume, FinishResumeLog
<1>8. ASSUME NEW j \in Keys, Change(j) \/ Drop(j) PROVE UNCHANGED staged
  BY <1>8 DEF Change, Drop
<1> QED BY <1>1, <1>2, <1>3, <1>4, <1>5, <1>6, <1>7, <1>8, Steps, SweepShape DEF Works

\* A page stays the page it is.
SamePage(o, p) ==
    /\ p.log = o.log /\ p.api = o.api /\ p.at = o.at /\ p.key = o.key /\ p.version = o.version

LEMMA MarkFlow ==
    ASSUME TypesInv, NEW p \in pages', NEW status,
           \/ \E w \in Workers : pages' = MarkPage(w, status)
           \/ \E q \in Page : pages' = Mark(q, status)
    PROVE  \E o \in pages : SamePage(o, p)
<1>1. \E o \in pages : p = o \/ p = [o EXCEPT !.status = status]
  BY DEF MarkPage, Mark
<1>2. PICK o \in pages : p = o \/ p = [o EXCEPT !.status = status]
  BY <1>1
<1>3. o \in Page
  BY Typed
<1> QED BY <1>2, <1>3 DEF SamePage, Page

LEMMA PagesFlow ==
    ASSUME TypesInv, LogsInv, Next, NEW p \in pages'
    PROVE  \/ \E o \in pages : SamePage(o, p)
           \/ \E w \in Workers : /\ FetchPage(w)
                 /\ \E k \in NextChanges(workers[w].api, workers[w].cursor[workers[w].api]) :
                       p = SavedPage(w, k)
<1>1. CASE UNCHANGED pages
  BY <1>1 DEF SamePage
<1>2. ASSUME NEW w \in Workers, FetchPage(w)
      PROVE  \/ \E o \in pages : SamePage(o, p)
             \/ \E k \in NextChanges(workers[w].api, workers[w].cursor[workers[w].api]) :
                   p = SavedPage(w, k)
  BY <1>2, FetchPageRow DEF SamePage
<1>3. ASSUME NEW w \in Workers, StagePage(w) PROVE \E o \in pages : SamePage(o, p)
  BY <1>1, <1>3, MarkFlow DEF StagePage, SamePage
<1>4. ASSUME NEW w \in Workers, FailStaging(w) PROVE \E o \in pages : SamePage(o, p)
  BY <1>4, MarkFlow, FailStagingShape
<1>5. ASSUME NEW w \in Workers, ReplayPage(w) PROVE \E o \in pages : SamePage(o, p)
  BY <1>5, MarkFlow, ReplayPageRow
<1>6. ASSUME NEW w \in Workers, Works(w)
      PROVE  UNCHANGED pages \/ FetchPage(w) \/ StagePage(w) \/ FailStaging(w) \/ ReplayPage(w)
  BY <1>6, LeavesShape DEF Works, StartRun, StartResume, Begin, FetchNothing, CloseUnseen,
     ProjectAndCommit, FinishLog, FailLog, BeginResume, FinishResumeLog
<1>7. ASSUME NEW j \in Keys, Change(j) \/ Drop(j) PROVE UNCHANGED pages
  BY <1>7 DEF Change, Drop
<1> QED BY <1>1, <1>2, <1>3, <1>4, <1>5, <1>6, <1>7, Steps, SweepShape, ResetShape DEF Works

LEMMA LogsFlow ==
    ASSUME TypesInv, LogsInv, Next, NEW l \in LogIds
    PROVE  \/ logs'[l] = logs[l]
           \/ Sweep /\ LogKept(l)
           \/ \E w \in Workers : Begin(w, l)
           \/ \E w \in Workers : /\ workers[w].log = l
                 /\ \/ FinishLog(w) /\ Wrote(w, "COMPLETED")
                    \/ \E failure \in {"RETRYABLE", "FATAL"} :
                          FailLog(w, failure) /\ Wrote(w, "FAILED")
                    \/ FinishResumeLog(w) /\ Wrote(w, ResumeOutcome(w))
                    \/ BeginResume(w) /\ Wrote(w, "RUNNING")
<1>1. CASE UNCHANGED logs
  BY <1>1
<1>2. ASSUME NEW w \in Workers, NEW m \in LogIds, Begin(w, m)
      PROVE  logs'[l] = logs[l] \/ Begin(w, l)
  BY <1>2, BeginLog
<1>3. ASSUME NEW w \in Workers, Works(w)
      PROVE  \/ UNCHANGED logs
             \/ \E m \in LogIds : Begin(w, m)
             \/ FinishLog(w) /\ Wrote(w, "COMPLETED")
             \/ \E failure \in {"RETRYABLE", "FATAL"} :
                   FailLog(w, failure) /\ Wrote(w, "FAILED")
             \/ FinishResumeLog(w) /\ Wrote(w, ResumeOutcome(w))
             \/ BeginResume(w) /\ Wrote(w, "RUNNING")
  BY <1>3, LeavesShape, FinishLogWrote, FailLogWrote, FinishResumeLogWrote, BeginResumeWrote
     DEF Works, StartRun, StartResume, FetchNothing, FetchPage, StagePage, FailStaging, CloseUnseen,
         ProjectAndCommit, ReplayPage
<1>4. ASSUME NEW w \in Workers, NEW status, Wrote(w, status)
      PROVE  logs'[l] = logs[l] \/ workers[w].log = l
  BY <1>4 DEF Wrote
<1>5. ASSUME NEW w \in Workers, Works(w), logs'[l] # logs[l]
      PROVE  \/ Begin(w, l)
             \/ workers[w].log = l /\
                   \/ FinishLog(w) /\ Wrote(w, "COMPLETED")
                   \/ \E failure \in {"RETRYABLE", "FATAL"} :
                         FailLog(w, failure) /\ Wrote(w, "FAILED")
                   \/ FinishResumeLog(w) /\ Wrote(w, ResumeOutcome(w))
                   \/ BeginResume(w) /\ Wrote(w, "RUNNING")
  BY <1>2, <1>3, <1>4, <1>5
<1>6. ASSUME NEW j \in Keys, Change(j) \/ Drop(j) PROVE UNCHANGED logs
  BY <1>6 DEF Change, Drop
<1> QED BY <1>1, <1>5, <1>6, Steps, SweepShape, ResetShape DEF Works

\* A log that was created stays the log of its scope and its window.
LEMMA CreatedStays ==
    ASSUME TypesInv, LogsInv, Next, NEW l \in LogIds, logs[l].status # "NONE"
    PROVE  /\ logs'[l].status # "NONE"
           /\ logs'[l].scope = logs[l].scope /\ logs'[l].window = logs[l].window
<1>1. ASSUME NEW w \in Workers, Begin(w, l) PROVE FALSE
  BY <1>1 DEF Begin
<1>2. ASSUME NEW w \in Workers, workers[w].log = l, NEW status, status # "NONE", Wrote(w, status)
      PROVE  /\ logs'[l].status # "NONE"
             /\ logs'[l].scope = logs[l].scope /\ logs'[l].window = logs[l].window
  BY <1>2 DEF Wrote
<1>3. \A w \in Workers : ResumeOutcome(w) # "NONE"
  BY DEF ResumeOutcome
<1>4. LogKept(l) => /\ logs'[l].status # "NONE"
                    /\ logs'[l].scope = logs[l].scope /\ logs'[l].window = logs[l].window
  BY DEF LogKept
<1> QED BY <1>1, <1>2, <1>3, <1>4, LogsFlow

\* What a step does to the row of its process: the run goes on, or ends, or a
\* log was just taken; and where the pages at hand come from.
Fate(w) ==
    /\ Only(w)
    /\ \/ /\ Live(w)
          /\ workers'[w].log = workers[w].log /\ workers'[w].req = workers[w].req
       \/ workers'[w].log = 0
       \/ \E l \in LogIds : /\ StartResume(w, l) /\ workers'[w].log = l
                            /\ workers'[w].req.mode = "RESUME" /\ workers[w] = Idle
       \/ \E l \in LogIds : /\ Begin(w, l) /\ workers'[w].log = l /\ workers[w].log = 0
                            /\ workers'[w].req = workers[w].req
    /\ \/ workers'[w].page \subseteq workers[w].page
       \/ BeginResume(w) /\ workers'[w].page = Unstaged(workers[w].log)
       \/ FetchPage(w)
    /\ Working(w)' => \/ Working(w)
                      \/ \E req \in Requests : StartRun(w, req)
                      \/ \E l \in LogIds : StartResume(w, l)

LEMMA FateOf ==
    ASSUME TypesInv, NEW w \in Workers, Works(w)
    PROVE  Fate(w)
<1>1. ASSUME NEW req \in Requests, StartRun(w, req) PROVE Fate(w)
  BY <1>1, StartRunRow DEF Fate
<1>2. ASSUME NEW l \in LogIds, StartResume(w, l) PROVE Fate(w)
  BY <1>2, StartResumeRow DEF Fate
<1>3. ASSUME NEW l \in LogIds, Begin(w, l) PROVE Fate(w)
  BY <1>3, BeginRow DEF Fate, Working, Live
<1>4. CASE FetchNothing(w)
  BY <1>4, FetchNothingRow DEF Fate, SameRun, Working, Live
<1>5. CASE FetchPage(w)
  BY <1>5, FetchPageRow DEF Fate, SameRun, Working, Live
<1>6. CASE StagePage(w)
  BY <1>6, StagePageRow DEF Fate, SameRun, Working, Live
<1>7. CASE FailStaging(w)
  BY <1>7, FailStagingShape DEF Fate, Working, Live
<1>8. CASE CloseUnseen(w)
  BY <1>8, CloseShape DEF Fate, SameRun, Working, Live
<1>9. CASE ProjectAndCommit(w)
  BY <1>9, CommitShape DEF Fate, Working, Live
<1>10. CASE FinishLog(w) \/ \E failure \in {"RETRYABLE", "FATAL"} : FailLog(w, failure)
  <2>1. Rest(w)
    BY <1>10 DEF FinishLog, FailLog
  <2> QED BY <2>1, Rests DEF Fate, Working, Live
<1>11. CASE BeginResume(w)
  BY <1>11, BeginResumeRow DEF Fate, SameRun, Working, Live
<1>12. CASE ReplayPage(w)
  BY <1>12, ReplayPageRow DEF Fate, Working, Live
<1>13. CASE FinishResumeLog(w)
  <2>1. Goto(w, "rconfig") /\ "rconfig" \in RunPlaces \cup ResumePlaces /\ Working(w) /\ Live(w)
    BY <1>13 DEF FinishResumeLog, ResumePlaces, Working, Live
  <2> QED BY <2>1, GotoRow DEF Fate, SameRun
<1>14. CASE Leaves(w)
  BY <1>14, LeavesShape DEF Fate, Working, Live
<1> QED BY <1>1, <1>2, <1>3, <1>4, <1>5, <1>6, <1>7, <1>8, <1>9, <1>10, <1>11, <1>12, <1>13,
           <1>14 DEF Works

LEMMA Movers ==
    ASSUME TypesInv, LogsInv, Next
    PROVE  \/ UNCHANGED workers
           \/ \E w \in Workers : Works(w) /\ Fate(w)
<1>1. ASSUME NEW j \in Keys, Change(j) \/ Drop(j) PROVE UNCHANGED workers
  BY <1>1 DEF Change, Drop
<1>2. \A w \in Workers : Works(w) => Fate(w)
  BY FateOf
<1> QED BY <1>1, <1>2, Steps, SweepShape, ResetShape DEF Works

LEMMA WorkersFlow ==
    ASSUME TypesInv, LogsInv, Next, NEW v \in Workers
    PROVE  Kept(v) \/ (Works(v) /\ Fate(v))
<1>1. UNCHANGED workers => Kept(v)
  BY DEF Kept
<1>2. \A w \in Workers : Fate(w) /\ w # v => Kept(v)
  BY DEF Fate, Only
<1> QED BY <1>1, <1>2, Movers

LEMMA CausesGrow ==
    ASSUME TypesInv, LogsInv, Next
    PROVE  causes \subseteq causes'
<1>1. ASSUME NEW w \in Workers, Works(w) PROVE causes \subseteq causes'
  BY <1>1, LeavesShape, CommitShape, ReplayPageRow, StagePageRow
     DEF Works, StartRun, StartResume, Begin, FetchNothing, FetchPage, StagePage, FailStaging,
         CloseUnseen, FinishLog, FailLog, BeginResume, FinishResumeLog, ReplayPage
<1>2. ASSUME NEW j \in Keys, Change(j) \/ Drop(j) PROVE UNCHANGED causes
  BY <1>2 DEF Change, Drop
<1> QED BY <1>1, <1>2, Steps, SweepShape, ResetShape DEF Works

-----------------------------------------------------------------------------
(* The feed, what is known of it, and the logs.                            *)

LEMMA FeedStep ==
    ASSUME TypesInv, LogsInv, FeedInv, Next
    PROVE  FeedInv'
<1> USE Rows, Numbers
<1>1. CASE UNCHANGED <<now, feed>>
  BY <1>1 DEF FeedInv
<1>2. ASSUME NEW k \in Keys, Change(k) PROVE FeedInv'
  <2>1. /\ now' = now + 1 /\ feed'[k] = now + 1
        /\ \A j \in Keys \ {k} : feed'[j] = feed[j]
    BY <1>2, Typed DEF Change
  <2> QED BY <2>1 DEF FeedInv
<1>3. ASSUME NEW k \in Keys, Drop(k) PROVE FeedInv'
  <2>1. /\ now' = now /\ feed'[k] = 0
        /\ \A j \in Keys \ {k} : feed'[j] = feed[j]
    BY <1>3, Typed DEF Drop
  <2> QED BY <2>1 DEF FeedInv
<1> QED BY <1>1, <1>2, <1>3, FeedFlow

\* A key of the feed stays, is dropped, or is newer than all there was.
LEMMA FeedMoves ==
    ASSUME TypesInv, LogsInv, FeedInv, Next
    PROVE  /\ now' \in Nat /\ now <= now'
           /\ \A k \in Keys : \/ feed'[k] = feed[k]
                              \/ feed'[k] = 0
                              \/ feed'[k] > now /\ feed'[k] \in Nat /\ feed'[k] = now'
           /\ UNCHANGED <<now, feed>> \/ UNCHANGED <<config, logs, finished, pages, staged,
                                                     projected, workers, causes>>
<1> USE Rows, Numbers
<1>1. CASE UNCHANGED <<now, feed>>
  BY <1>1
<1>2. ASSUME NEW k \in Keys, Change(k)
      PROVE  /\ now' = now + 1 /\ feed'[k] = now + 1
             /\ \A j \in Keys \ {k} : feed'[j] = feed[j]
             /\ UNCHANGED <<config, logs, finished, pages, staged, projected, workers, causes>>
  BY <1>2, Typed DEF Change
<1>3. ASSUME NEW k \in Keys, Drop(k)
      PROVE  /\ now' = now /\ feed'[k] = 0
             /\ \A j \in Keys \ {k} : feed'[j] = feed[j]
             /\ UNCHANGED <<config, logs, finished, pages, staged, projected, workers, causes>>
  BY <1>3, Typed DEF Drop
<1> QED BY <1>1, <1>2, <1>3, FeedFlow

LEMMA KnownStays ==
    ASSUME TypesInv, LogsInv, FeedInv, Next, NEW p, p.key \in Keys, p.version \in Nat,
           Known(p)
    PROVE  Known(p)'
<1>1. now \in Nat /\ now' \in Nat
  BY FeedMoves, Rows, Numbers
<1> QED BY <1>1, FeedMoves DEF Known

LEMMA KnownStep ==
    ASSUME TypesInv, LogsInv, FeedInv, KnownInv, Next
    PROVE  KnownInv'
<1> USE Numbers
<1>1. /\ \A w \in Workers : \A p \in workers[w].page : p.key \in Keys /\ p.version \in Nat
      /\ \A p \in pages : p.key \in Keys /\ p.version \in Nat
      /\ now \in Nat /\ now' \in Nat
  <2>1. \A w \in Workers : \A p \in workers[w].page : p \in Fetched \cup Page
    BY Rows DEF Worker
  <2> QED BY <2>1, Rows, FeedMoves DEF Fetched, Page
<1>2. ASSUME NEW k \in Keys
      PROVE  /\ staged'[k].version <= now'
             /\ feed'[k] # 0 => staged'[k].version <= feed'[k]
             /\ staged'[k].hidden => staged'[k].version > 0
  <2>1. /\ staged[k].version <= now /\ staged[k].version \in Nat
        /\ feed[k] # 0 => staged[k].version <= feed[k]
        /\ staged[k].hidden => staged[k].version > 0
    BY Rows DEF KnownInv, StagedRow
  <2>2. /\ staged[k].version <= now'
        /\ feed'[k] # 0 => staged[k].version <= feed'[k]
    BY <1>1, <2>1, FeedMoves
  <2>3. ASSUME NEW w \in Workers, Upserted(w, k)
        PROVE  /\ staged'[k].version <= now'
               /\ feed'[k] # 0 => staged'[k].version <= feed'[k]
               /\ staged'[k].hidden => staged'[k].version > 0
    <3>1. PICK q \in workers[w].page :
             q.key = k /\ staged'[k].version = q.version /\ ~staged'[k].hidden
      BY <2>3 DEF Upserted
    <3>2. Known(q)
      BY DEF KnownInv
    <3>3. Known(q)'
      BY <1>1, <3>2, KnownStays
    <3> QED BY <3>1, <3>3 DEF Known
  <2> QED BY <2>1, <2>2, <2>3, StagedFlow
<1>3. ASSUME NEW w \in Workers, FetchPage(w),
             NEW k \in NextChanges(workers[w].api, workers[w].cursor[workers[w].api]),
             NEW p, p.key = k, p.version = feed[k]
      PROVE  Known(p)'
  <2>1. k \in Keys /\ feed[k] \in Nat /\ feed[k] > workers[w].cursor[workers[w].api]
    BY Rows DEF NextChanges
  <2>2. workers[w].cursor[workers[w].api] \in Nat
    BY Rows DEF Worker
  <2>3. Known(p)
    BY <1>3, <2>1, <2>2 DEF Known, FeedInv
  <2> QED BY <1>3, <2>1, <2>3, KnownStays
<1>4. ASSUME NEW p \in pages' PROVE Known(p)'
  <2>1. ASSUME NEW o \in pages, SamePage(o, p) PROVE Known(p)'
    <3>1. Known(o) /\ o.key \in Keys /\ o.version \in Nat
      BY <1>1 DEF KnownInv
    <3>2. Known(o)'
      BY <3>1, KnownStays
    <3> QED BY <2>1, <3>2 DEF Known, SamePage
  <2>2. ASSUME NEW w \in Workers, FetchPage(w),
               NEW k \in NextChanges(workers[w].api, workers[w].cursor[workers[w].api]),
               p = SavedPage(w, k)
        PROVE  Known(p)'
    BY <1>3, <2>2 DEF SavedPage
  <2> QED BY <2>1, <2>2, PagesFlow
<1>5. ASSUME NEW v \in Workers, NEW p \in workers'[v].page PROVE Known(p)'
  <2>1. ASSUME p \in workers[v].page \/ p \in pages PROVE Known(p)'
    <3>1. Known(p) /\ p.key \in Keys /\ p.version \in Nat
      BY <1>1, <2>1 DEF KnownInv
    <3> QED BY <3>1, KnownStays
  <2>2. ASSUME FetchPage(v) PROVE Known(p)'
    <3>1. PICK k \in NextChanges(workers[v].api, workers[v].cursor[workers[v].api]) :
             workers'[v].page
                 = {[key |-> k, version |-> feed[k], last |-> IsLastChange(k)]}
      BY <2>2, FetchPageRow
    <3>2. p.key = k /\ p.version = feed[k]
      BY <3>1
    <3> QED BY <1>3, <2>2, <3>2
  <2>3. ASSUME Fate(v), ~FetchPage(v) PROVE p \in workers[v].page \/ p \in pages
    BY <2>3 DEF Fate, Unstaged
  <2>4. Kept(v) \/ Fate(v)
    BY WorkersFlow
  <2> QED BY <2>1, <2>2, <2>3, <2>4 DEF Kept
<1> QED BY <1>2, <1>4, <1>5 DEF KnownInv

LEMMA LogsStep ==
    ASSUME TypesInv, LogsInv, Next
    PROVE  LogsInv'
<1> USE Numbers
<1>1. ASSUME NEW l \in LogIds, logs'[l].status = "NONE" PROVE logs'[l] = NoLog
  <2>1. logs[l].status = "NONE"
    BY <1>1, CreatedStays
  <2>2. logs[l] = NoLog
    BY <2>1 DEF LogsInv
  <2>3. ASSUME NEW w \in Workers, Begin(w, l) PROVE FALSE
    BY <1>1, <2>3, BeginLog
  <2>4. ASSUME NEW w \in Workers, workers[w].log = l, NEW status, Wrote(w, status)
        PROVE  status = "NONE"
    BY <1>1, <2>4 DEF Wrote
  <2>5. \A w \in Workers : ResumeOutcome(w) # "NONE"
    BY DEF ResumeOutcome
  <2> QED BY <2>1, <2>2, <2>3, <2>4, <2>5, LogsFlow DEF LogKept
<1>2. ASSUME NEW w \in Workers, workers[w].log # 0
      PROVE  workers[w].log \in LogIds /\ logs[workers[w].log].status # "NONE"
  BY <1>2, HasALog DEF LogsInv
<1>3. ASSUME NEW k \in Keys, staged'[k].seen # 0 PROVE logs'[staged'[k].seen].status # "NONE"
  <2>1. staged[k].seen # 0 =>
            staged[k].seen \in LogIds /\ logs[staged[k].seen].status # "NONE"
    BY Rows, SyncAssumption DEF LogsInv, StagedRow, LogIds
  <2>2. ASSUME NEW w \in Workers, Upserted(w, k)
        PROVE  staged'[k].seen \in LogIds /\ logs[staged'[k].seen].status # "NONE"
    BY <1>2, <2>2 DEF Upserted
  <2>3. staged'[k].seen \in LogIds /\ logs[staged'[k].seen].status # "NONE"
    BY <1>3, <2>1, <2>2, StagedFlow
  <2> QED BY <2>3, CreatedStays
<1>4. ASSUME NEW p \in pages' PROVE logs'[p.log].status # "NONE"
  <2>1. ASSUME NEW o \in pages, SamePage(o, p)
        PROVE  p.log \in LogIds /\ logs[p.log].status # "NONE"
    BY <2>1, Typed DEF SamePage, Page, LogsInv
  <2>2. ASSUME NEW w \in Workers, FetchPage(w), NEW k, p = SavedPage(w, k)
        PROVE  p.log \in LogIds /\ logs[p.log].status # "NONE"
    <3>1. workers[w].log # 0
      BY <2>2, FetchPageRow, HasALog
    <3> QED BY <1>2, <2>2, <3>1 DEF SavedPage
  <2>3. p.log \in LogIds /\ logs[p.log].status # "NONE"
    BY <2>1, <2>2, PagesFlow
  <2> QED BY <2>3, CreatedStays
\* The log of a process is the one it had, and then it was created, or the one
\* that it resumes, or one that it begins.
<1>5. ASSUME NEW v \in Workers, workers'[v].log # 0
      PROVE  \/ /\ workers'[v].log = workers[v].log /\ workers'[v].req = workers[v].req
                /\ workers[v].log # 0
             \/ /\ workers'[v].log \in LogIds /\ workers'[v].req.mode = "RESUME"
                /\ logs[workers'[v].log].status # "NONE"
             \/ \E l \in LogIds : /\ Begin(v, l) /\ workers'[v].log = l
                                  /\ workers'[v].req = workers[v].req
  <2>1. ASSUME NEW l \in LogIds, StartResume(v, l) PROVE logs[l].status # "NONE"
    BY <2>1 DEF StartResume, Resumable
  <2> QED BY <1>5, <2>1, WorkersFlow DEF Fate, Kept
<1>6. ASSUME NEW v \in Workers, workers'[v].log # 0
      PROVE  /\ logs'[workers'[v].log].status # "NONE"
             /\ workers'[v].req.mode # "RESUME" =>
                   /\ logs'[workers'[v].log].scope = workers'[v].req.scope
                   /\ logs'[workers'[v].log].window = workers'[v].req.window
  <2>1. CASE /\ workers'[v].log = workers[v].log /\ workers'[v].req = workers[v].req
             /\ workers[v].log # 0
    BY <1>2, <2>1, CreatedStays DEF LogsInv
  <2>2. CASE /\ workers'[v].log \in LogIds /\ workers'[v].req.mode = "RESUME"
             /\ logs[workers'[v].log].status # "NONE"
    BY <2>2, CreatedStays
  <2>3. CASE \E l \in LogIds : /\ Begin(v, l) /\ workers'[v].log = l
                               /\ workers'[v].req = workers[v].req
    BY <2>3, BeginLog
  <2> QED BY <1>6, <1>5, <2>1, <2>2, <2>3
<1>7. ASSUME NEW v \in Workers, NEW w \in Workers, v # w, workers'[v].log # 0,
             workers'[v].req.mode # "RESUME", workers'[w].req.mode # "RESUME"
      PROVE  workers'[w].log # workers'[v].log
  <2>1. ASSUME NEW x \in Workers, NEW y \in Workers, x # y, NEW l \in LogIds, Begin(x, l)
        PROVE  workers'[y].log # l
    <3>1. workers'[y].log = workers[y].log /\ logs[l].status = "NONE"
      BY <2>1, BeginRow, BeginLog DEF Only, Kept
    <3> QED BY <1>2, <3>1
  <2>2. CASE workers'[w].log = 0
    BY <1>7, <2>2
  <2>3. CASE workers'[w].log # 0
    <3>1. CASE /\ workers'[v].log = workers[v].log /\ workers'[v].req = workers[v].req
               /\ workers[v].log # 0
               /\ workers'[w].log = workers[w].log /\ workers'[w].req = workers[w].req
      BY <1>7, <3>1 DEF LogsInv
    <3> QED BY <1>5, <1>7, <2>1, <2>3, <3>1
  <2> QED BY <2>2, <2>3
<1>8. ASSUME NEW v \in Workers, workers'[v].log # 0, workers'[v].pc = "replay",
             NEW p \in workers'[v].page
      PROVE  p.log = workers'[v].log
  <2>1. CASE Kept(v)
    BY <1>8, <2>1 DEF LogsInv, Kept
  <2>2. CASE BeginResume(v)
    BY <1>8, <2>2, BeginResumeRow DEF SameRun, Unstaged
  <2>3. CASE ReplayPage(v)
    <3>1. /\ workers[v].pc = "replay" /\ workers'[v].log = workers[v].log
          /\ workers'[v].page \subseteq workers[v].page
      BY <2>3, ReplayPageRow
    <3> QED BY <1>8, <3>1 DEF LogsInv
  <2>4. CASE Works(v) /\ ~BeginResume(v) /\ ~ReplayPage(v)
    <3>1. ~FinishLog(v) /\ ~(\E failure \in {"RETRYABLE", "FATAL"} : FailLog(v, failure))
      <4>1. ASSUME Rest(v) PROVE FALSE
        BY <1>8, <4>1, Rests
      <4> QED BY <4>1 DEF FinishLog, FailLog
    <3>2. ~FinishResumeLog(v)
      <4>1. ASSUME Goto(v, "rconfig") PROVE FALSE
        <5>1. "rconfig" \in RunPlaces \cup ResumePlaces
          BY DEF ResumePlaces
        <5> QED BY <1>8, <4>1, <5>1, GotoRow
      <4> QED BY <4>1 DEF FinishResumeLog
    <3>3. ~StagePage(v)
      <4>1. ASSUME StagePage(v) PROVE workers'[v].page = {}
        BY <4>1, StagePageRow
      <4> QED BY <1>8, <4>1
    <3>4. ~FetchNothing(v) /\ ~FetchPage(v) /\ ~FailStaging(v) /\ ~CloseUnseen(v)
      <4>1. ~FetchNothing(v)
        <5>1. workers[v].api \in 1..2
          BY Rows DEF Worker
        <5> QED BY <1>8, <5>1, FetchNothingRow
      <4> QED BY <1>8, <4>1, FetchPageRow, FailStagingShape, CloseShape
    <3>5. /\ ~ProjectAndCommit(v) /\ ~Leaves(v)
          /\ ~(\E req \in Requests : StartRun(v, req))
      BY <1>8, CommitShape, LeavesShape, StartRunRow
    <3>6. ASSUME NEW l \in LogIds PROVE ~StartResume(v, l) /\ ~Begin(v, l)
      BY <1>8, StartResumeRow, BeginRow
    <3> QED BY <2>4, <3>1, <3>2, <3>3, <3>4, <3>5, <3>6 DEF Works
  <2> QED BY <2>1, <2>2, <2>3, <2>4, WorkersFlow
<1> QED BY <1>1, <1>3, <1>4, <1>6, <1>7, <1>8 DEF LogsInv

-----------------------------------------------------------------------------
(* The lock.                                                               *)

\* Who takes the lock, or beats, writes the two columns and nothing else.
LEMMA StatusWritten ==
    ASSUME TypesInv, NEW w \in Workers,
           \/ \E req \in Requests : StartRun(w, req)
           \/ \E l \in LogIds : StartResume(w, l)
           \/ StagePage(w) \/ ReplayPage(w)
    PROVE  /\ config'.fresh /\ config'.acct
           /\ config'.cursor = config.cursor /\ config'.was = config.was
           /\ config.inv => config'.inv
<1>1. \E scope : config' = SetStatus(scope, "RUNNING")
  <2>1. ASSUME NEW req \in Requests, StartRun(w, req)
        PROVE  config' = SetStatus(req.scope, "RUNNING")
    BY <2>1 DEF StartRun
  <2>2. ASSUME NEW l \in LogIds, StartResume(w, l)
        PROVE  config' = SetStatus("FULL", "RUNNING")
    BY <2>2 DEF StartResume
  <2>3. StagePage(w) => config' = SetStatus(workers[w].req.scope, "RUNNING")
    BY DEF StagePage
  <2>4. ReplayPage(w) => config' = SetStatus("FULL", "RUNNING")
    BY DEF ReplayPage
  <2> QED BY <2>1, <2>2, <2>3, <2>4
<1>2. PICK scope : config' = SetStatus(scope, "RUNNING")
  BY <1>1
<1>3. config \in ConfigRow
  BY Typed
<1> QED BY <1>2, <1>3, StatusRow

LEMMA StaleStep ==
    ASSUME TypesInv, LogsInv, StaleInv, Next
    PROVE  StaleInv'
<1>1. CASE config'.fresh
  BY <1>1 DEF StaleInv
<1>2. CASE config' = config /\ \A w \in Workers : Live(w)' => Live(w)
  BY <1>2 DEF StaleInv
<1>3. CASE TimePasses
  <2> DEFINE fresh == config.fresh /\ (~config.inv \/ \E w \in Workers : Live(w))
  <2>1. config \in ConfigRow
    BY Typed
  <2>2. config' = [config EXCEPT !.fresh = fresh] /\ workers' = workers
    BY <1>3 DEF TimePasses
  <2>3. fresh \in BOOLEAN
    BY <2>1 DEF ConfigRow
  <2>4. config'.fresh = fresh /\ config'.inv = config.inv
    <3> HIDE DEF fresh
    <3> QED BY <2>1, <2>2, <2>3 DEF ConfigRow
  <2>5. ~fresh => config.inv /\ \A w \in Workers : ~Live(w)
    BY DEF StaleInv
  <2> QED BY <2>2, <2>4, <2>5 DEF StaleInv, Live
<1>4. CASE Sweep
  <2>1. CASE \E w \in Workers : Heartbeat(w)
    BY <1>1, <2>1, StatusRow, Typed DEF Heartbeat
  <2>2. SetStatus("FULL", "FAILED").fresh
    BY StatusRow, Typed
  <2>3. CASE RecoverStaleConfigsAndLogs
    <3>1. workers' = workers /\ (config' = config \/ config' = SetStatus("FULL", "FAILED"))
      BY <2>3 DEF RecoverStaleConfigsAndLogs
    <3> QED BY <1>1, <1>2, <2>2, <3>1 DEF Live
  <2>4. CASE \/ \E l \in LogIds : RecoverStaleSyncLog(l)
             \/ \E force \in BOOLEAN : ForceUnlockConfig(force)
    <3>1. config' = SetStatus("FULL", "FAILED")
      BY <2>4 DEF RecoverStaleSyncLog, ForceUnlockConfig
    <3> QED BY <1>1, <2>2, <3>1
  <2> QED BY <1>3, <1>4, <2>1, <2>3, <2>4 DEF Sweep
<1>5. ASSUME NEW j \in Keys, Change(j) \/ Drop(j) PROVE StaleInv'
  BY <1>2, <1>5 DEF Change, Drop, Live
<1>6. ASSUME NEW w \in Workers, Works(w) PROVE StaleInv'
  <2>1. CASE \/ \E req \in Requests : StartRun(w, req)
             \/ \E l \in LogIds : StartResume(w, l)
    BY <1>1, <2>1, StatusWritten
  <2>2. CASE StagePage(w) \/ ReplayPage(w) \/ FailStaging(w) \/ ProjectAndCommit(w)
    BY <1>1, <2>2, StatusWritten, FailStagingShape, CommitShape
  <2>4. CASE Leaves(w)
    <3>1. config'.fresh \/ config' = config
      BY <2>4, LeavesShape
    <3>2. Live(w) /\ \A v \in Workers \ {w} : Live(v)' => Live(v)
      BY <2>4, LeavesShape DEF Only, Kept, Live
    <3> QED BY <1>1, <1>2, <3>1, <3>2
  <2>5. CASE \/ \E l \in LogIds : Begin(w, l)
             \/ FetchNothing(w) \/ FetchPage(w) \/ CloseUnseen(w) \/ FinishLog(w)
             \/ \E failure \in {"RETRYABLE", "FATAL"} : FailLog(w, failure)
             \/ BeginResume(w) \/ FinishResumeLog(w)
    <3>1. UNCHANGED config
      BY <2>5 DEF Begin, FetchNothing, FetchPage, CloseUnseen, FinishLog, FailLog, BeginResume,
         FinishResumeLog
    <3>2. workers[w].pc # "idle"
      BY <2>5 DEF Begin, FetchNothing, FetchPage, CloseUnseen, FinishLog, FailLog, BeginResume,
         FinishResumeLog
    <3>3. \A v \in Workers \ {w} : Live(v)' => Live(v)
      BY <1>6, FateOf DEF Fate, Only, Kept, Live
    <3> QED BY <1>2, <3>1, <3>2, <3>3 DEF Live
  <2> QED BY <1>6, <2>1, <2>2, <2>4, <2>5 DEF Works
<1>7. ASSUME NEW scope \in Scopes, NEW clear \in BOOLEAN, ResetSyncCursor(scope, clear)
      PROVE  StaleInv'
  BY <1>1, <1>7, ResetShape
<1> QED BY <1>4, <1>5, <1>6, <1>7, Steps DEF Works

\* An overlap is recorded when a process passes the lock while another works.
LEMMA OverlapFlow ==
    ASSUME TypesInv, LogsInv, Next, "overlap" \in causes', "overlap" \notin causes
    PROVE  \E w \in Workers : /\ \/ \E req \in Requests : StartRun(w, req)
                                 \/ \E l \in LogIds : StartResume(w, l)
                              /\ OverlapCauses # {}
<1>1. ASSUME NEW w \in Workers, Works(w), ~(\E req \in Requests : StartRun(w, req)),
             ~(\E l \in LogIds : StartResume(w, l))
      PROVE  "overlap" \notin causes'
  <2>1. CASE \E l \in LogIds : Begin(w, l)
    BY <2>1 DEF Begin, RecoveryCauses
  <2>2. CASE ProjectAndCommit(w)
    BY <2>2, CommitShape DEF CommitCauses
  <2>3. CASE ReplayPage(w)
    BY <2>3, ReplayPageRow
  <2>4. CASE ~(\E l \in LogIds : Begin(w, l)) /\ ~ProjectAndCommit(w) /\ ~ReplayPage(w)
    BY <1>1, <2>4, LeavesShape DEF Works, FetchNothing, FetchPage, StagePage, FailStaging,
       CloseUnseen, FinishLog, FailLog, BeginResume, FinishResumeLog
  <2> QED BY <2>1, <2>2, <2>3, <2>4
<1>2. ASSUME NEW w \in Workers,
             \/ \E req \in Requests : StartRun(w, req)
             \/ \E l \in LogIds : StartResume(w, l)
      PROVE  OverlapCauses # {}
  BY <1>2 DEF StartRun, StartResume
<1>3. ASSUME NEW j \in Keys, Change(j) \/ Drop(j) PROVE UNCHANGED causes
  BY <1>3 DEF Change, Drop
<1> QED BY <1>1, <1>2, <1>3, Steps, SweepShape, ResetShape DEF Works

LEMMA AloneStep ==
    ASSUME TypesInv, LogsInv, AloneInv, Next
    PROVE  AloneInv'
<1> SUFFICES ASSUME "overlap" \notin causes', NEW v \in Workers, NEW w \in Workers,
                    Working(v)', Working(w)', v # w
             PROVE  FALSE
  BY DEF AloneInv
<1>1. "overlap" \notin causes
  BY CausesGrow
<1>2. ASSUME NEW x \in Workers, Working(x)'
      PROVE  Working(x) \/ \A y \in Workers : ~Working(y)
  <2>1. CASE Kept(x)
    BY <1>2, <2>1 DEF Kept, Working, Live
  <2>2. CASE Fate(x)
    <3>1. ASSUME \/ \E req \in Requests : StartRun(x, req)
                 \/ \E l \in LogIds : StartResume(x, l)
          PROVE  \A y \in Workers : ~Working(y)
      <4>1. causes' = causes \cup OverlapCauses
        BY <3>1 DEF StartRun, StartResume
      <4> QED BY <4>1 DEF OverlapCauses
    <3> QED BY <1>2, <2>2, <3>1 DEF Fate
  <2> QED BY <2>1, <2>2, WorkersFlow
<1>3. ~(Working(v) /\ Working(w))
  BY <1>1 DEF AloneInv
\* One of them has just passed the lock, and then nobody else worked; but the
\* other did not pass it in the same step.
<1>4. ASSUME NEW x \in Workers, NEW y \in Workers, x # y, Working(x)', Working(y)',
             ~Working(x)
      PROVE  FALSE
  <2>1. ~Working(y)
    BY <1>2, <1>4
  <2>2. ASSUME NEW z \in Workers, Kept(z), Working(z)' PROVE Working(z)
    BY <2>2 DEF Kept, Working, Live
  <2>3. ~Kept(x) /\ ~Kept(y)
    BY <1>4, <2>1, <2>2
  <2>4. PICK z \in Workers : Only(z)
    <3>1. ~UNCHANGED workers
      BY <2>3 DEF Kept
    <3> QED BY <3>1, Movers DEF Fate
  <2> QED BY <1>4, <2>3, <2>4 DEF Only
<1> QED BY <1>3, <1>4

\* Without trouble, the sweep and the resumes have nothing to do.
LEMMA QuietSteps ==
    ASSUME TypesInv, LogsInv, QuietInv, Next, troubles' = 0
    PROVE  /\ troubles = 0
           /\ \/ \E k \in Keys : Change(k)
              \/ TimePasses \/ RecoverStaleConfigsAndLogs
              \/ \E w \in Workers :
                    \/ Heartbeat(w)
                    \/ \E req \in Requests : StartRun(w, req)
                    \/ \E l \in LogIds : Begin(w, l)
                    \/ FetchNothing(w) \/ FetchPage(w) \/ StagePage(w)
                    \/ CloseUnseen(w) \/ ProjectAndCommit(w) \/ FinishLog(w)
<1>1. ~Trouble
  BY TroubleCounts
<1>2. troubles = 0
  <2>1. ASSUME NEW w \in Workers, Works(w) PROVE UNCHANGED troubles
    <3>1. ~FailStaging(w) /\ (Leaves(w) => UNCHANGED troubles)
      BY <1>1 DEF FailStaging, Failing, Leaves, Fail, Die, NothingToResume, FinishResumeConfig
    <3>2. ReplayPage(w) \/ StagePage(w) \/ FetchPage(w) \/ ProjectAndCommit(w)
              => UNCHANGED troubles
      BY <1>1, ReplayPageRow, FetchPageRow DEF StagePage, ProjectAndCommit
    <3> QED BY <2>1, <3>1, <3>2 DEF Works, StartRun, StartResume, Begin, FetchNothing,
               CloseUnseen, FinishLog, FailLog, BeginResume, FinishResumeLog
  <2>2. ASSUME NEW j \in Keys, Change(j) \/ Drop(j) PROVE UNCHANGED troubles
    BY <1>1, <2>2 DEF Change, Drop
  <2> QED BY <2>1, <2>2, Steps, SweepShape, ResetShape DEF Works
<1>3. /\ \A w \in Workers : workers[w].pc \in RunPlaces \cup {"idle"}
      /\ \A l \in LogIds : /\ logs[l].status # "FAILED"
                           /\ logs[l].status = "RUNNING" => logs[l].beat
  BY <1>2 DEF QuietInv
<1>4. ASSUME NEW l \in LogIds PROVE ~RecoverStaleSyncLog(l) /\ ~Resumable(l)
  BY <1>3 DEF RecoverStaleSyncLog, Resumable
<1>5. \A k \in Keys : ~Drop(k)
  BY <1>1 DEF Drop
<1>6. /\ \A force \in BOOLEAN : ~ForceUnlockConfig(force)
      /\ \A scope \in Scopes, clear \in BOOLEAN : ~ResetSyncCursor(scope, clear)
  BY <1>1 DEF ForceUnlockConfig, ResetSyncCursor
<1>7. ASSUME NEW w \in Workers
      PROVE  /\ ~FailStaging(w) /\ ~Leaves(w)
             /\ ~(\E failure \in {"RETRYABLE", "FATAL"} : FailLog(w, failure))
             /\ ~BeginResume(w) /\ ~ReplayPage(w) /\ ~FinishResumeLog(w)
             /\ \A l \in LogIds : ~StartResume(w, l)
  <2>1. workers[w].pc \notin {"faillog", "rbegin", "nopages", "replay", "rconfig"}
    BY <1>3 DEF RunPlaces
  <2>2. ~FailStaging(w) /\ ~Fail(w) /\ ~Die(w)
    BY <1>1 DEF FailStaging, Failing, Fail, Die
  <2>3. \A l \in LogIds : ~StartResume(w, l)
    BY <1>4 DEF StartResume
  <2> QED BY <2>1, <2>2, <2>3 DEF Leaves, NothingToResume, FinishResumeConfig, FailLog, BeginResume,
             ReplayPage, FinishResumeLog
<1> QED BY <1>2, <1>4, <1>5, <1>6, <1>7, Steps DEF Sweep

\* What the quiet invariant says of the processes and of the logs.
QuietWorkers ==
    \A w \in Workers : /\ workers[w].pc \in RunPlaces \cup {"idle"}
                       /\ Working(w) => config.inv \/ config.acct
QuietLogs ==
    \A l \in LogIds :
        /\ logs[l].status # "FAILED"
        /\ logs[l].status = "RUNNING" =>
              logs[l].beat /\ \E w \in Workers : Live(w) /\ workers[w].log = l

\* A process goes on with its log, and what it does to the config keeps the
\* lock of whoever works.
LEMMA QuietGoesOn ==
    ASSUME TypesInv, QuietWorkers, QuietLogs, NEW w \in Workers, Only(w), UNCHANGED logs,
           workers'[w].log = workers[w].log \/ workers[w].log = 0,
           workers'[w].pc \in RunPlaces,
           \A v \in Workers : Working(v)' => config'.inv \/ config'.acct
    PROVE  QuietWorkers' /\ QuietLogs'
<1>1. ASSUME NEW v \in Workers PROVE workers'[v].pc \in RunPlaces \cup {"idle"}
  BY <1>1 DEF QuietWorkers, Only, Kept
<1>2. ASSUME NEW l \in LogIds, logs'[l].status = "RUNNING"
      PROVE  \E v \in Workers : Live(v)' /\ workers'[v].log = l
  <2>1. PICK v \in Workers : Live(v) /\ workers[v].log = l
    BY <1>2 DEF QuietLogs
  <2>2. CASE v = w
    <3>1. workers'[w].log = l
      BY <2>1, <2>2, Numbers
    <3>2. workers'[w].pc # "idle"
      BY DEF RunPlaces
    <3> QED BY <3>1, <3>2 DEF Live
  <2>3. CASE v # w
    BY <2>1, <2>3 DEF Only, Kept, Live
  <2> QED BY <2>2, <2>3
<1> QED BY <1>1, <1>2 DEF QuietWorkers, QuietLogs

LEMMA QuietStep ==
    ASSUME TypesInv, LogsInv, StaleInv, AloneInv, QuietInv, Next
    PROVE  QuietInv'
<1> SUFFICES ASSUME troubles' = 0
             PROVE  "overlap" \notin causes' /\ QuietWorkers' /\ QuietLogs'
  BY DEF QuietInv, QuietWorkers, QuietLogs
<1>1. troubles = 0
  BY QuietSteps
<1>2. "overlap" \notin causes /\ QuietWorkers /\ QuietLogs
  BY <1>1 DEF QuietInv, QuietWorkers, QuietLogs
<1>3. ASSUME "overlap" \in causes' PROVE FALSE
  <2>1. PICK w \in Workers : /\ \/ \E req \in Requests : StartRun(w, req)
                                \/ \E l \in LogIds : StartResume(w, l)
                             /\ OverlapCauses # {}
    BY <1>2, <1>3, OverlapFlow
  <2>2. ~config.inv /\ ~config.acct
    BY <2>1 DEF StartRun, StartResume, LockIsFree
  <2>3. \E v \in Workers : Working(v)
    BY <2>1 DEF OverlapCauses
  <2> QED BY <1>2, <2>2, <2>3 DEF QuietWorkers
<1>4. ASSUME NEW k \in Keys, Change(k) PROVE QuietWorkers' /\ QuietLogs'
  <2>1. UNCHANGED <<config, logs, workers>>
    BY <1>4 DEF Change
  <2> QED BY <1>2, <2>1 DEF QuietWorkers, QuietLogs, Working, Live
<1>5. CASE TimePasses
  <2>1. workers' = workers /\ config'.inv = config.inv /\ config'.acct = config.acct
    <3> DEFINE fresh == config.fresh /\ (~config.inv \/ \E w \in Workers : Live(w))
    <3>1. config' = [config EXCEPT !.fresh = fresh] /\ workers' = workers /\ config \in ConfigRow
      BY <1>5, Typed DEF TimePasses
    <3> HIDE DEF fresh
    <3> QED BY <3>1 DEF ConfigRow
  <2>2. QuietWorkers'
    BY <1>2, <2>1 DEF QuietWorkers, Working, Live
  <2>3. ASSUME NEW l \in LogIds
        PROVE  /\ logs'[l].status = logs[l].status
               /\ logs[l].beat /\ (\E w \in Workers : Live(w) /\ workers[w].log = l) =>
                      logs'[l].beat
    BY <1>5, SilentLogs
  <2>4. QuietLogs'
    BY <1>2, <2>1, <2>3 DEF QuietLogs, Live
  <2> QED BY <1>3, <2>2, <2>4
<1>6. CASE RecoverStaleConfigsAndLogs
  <2>1. workers' = workers /\ (config' = config \/ StaleConfig)
    BY <1>6 DEF RecoverStaleConfigsAndLogs
  <2>2. QuietWorkers'
    BY <1>2, <2>1 DEF QuietWorkers, StaleConfig, StaleInv, Working, Live
  <2>3. ASSUME NEW l \in LogIds
        PROVE  /\ logs'[l].status = logs[l].status
               /\ logs'[l].status = "RUNNING" => logs'[l] = logs[l]
    <3>1. /\ LogKept(l) /\ (logs'[l].status = "RUNNING" => logs'[l] = logs[l])
          /\ logs'[l].status # logs[l].status => ~logs[l].beat
      BY <1>6, SweptLogs
    <3> QED BY <1>2, <3>1 DEF LogKept, QuietLogs
  <2>4. QuietLogs'
    BY <1>2, <2>1, <2>3 DEF QuietLogs, Live
  <2> QED BY <1>3, <2>2, <2>4
<1>7. ASSUME NEW w \in Workers, Heartbeat(w) PROVE QuietWorkers' /\ QuietLogs'
  <2>1. config' = SetStatus(workers[w].req.scope, "RUNNING") /\ UNCHANGED <<workers, logs>>
    BY <1>7 DEF Heartbeat
  <2>2. config'.acct
    BY <2>1, StatusRow, Typed
  <2> QED BY <1>2, <2>1, <2>2 DEF QuietWorkers, QuietLogs, Working, Live
<1>8. ASSUME NEW w \in Workers, NEW req \in Requests, StartRun(w, req)
      PROVE  QuietWorkers' /\ QuietLogs'
  <2>1. config'.acct /\ UNCHANGED logs
    BY <1>8, StatusWritten DEF StartRun
  <2>2. /\ Only(w) /\ workers[w].log = 0 /\ workers'[w].pc = "begin"
    BY <1>8, StartRunRow, IdleRow
  <2> QED BY <1>2, <2>1, <2>2, QuietGoesOn DEF RunPlaces
<1>9. ASSUME NEW w \in Workers, NEW l \in LogIds, Begin(w, l)
      PROVE  QuietWorkers' /\ QuietLogs'
  <2>1. /\ Only(w) /\ workers[w].pc = "begin" /\ workers[w].log = 0 /\ workers'[w].log = l
        /\ workers'[w].pc \in {"fetch", "close"} /\ UNCHANGED config
    BY <1>9, BeginRow DEF Begin
  <2>2. QuietWorkers'
    <3>1. Working(w)
      BY <2>1 DEF Working, Live
    <3>2. ASSUME NEW v \in Workers
          PROVE  /\ workers'[v].pc \in RunPlaces \cup {"idle"}
                 /\ Working(v)' => config'.inv \/ config'.acct
      BY <1>2, <2>1, <3>1 DEF QuietWorkers, Only, Kept, Working, Live, RunPlaces
    <3> QED BY <3>2 DEF QuietWorkers
  <2>3. /\ \A m \in LogIds \ {l} : logs'[m] = logs[m]
        /\ logs'[l].status = "RUNNING" /\ logs'[l].beat
    BY <1>9, BeginLog
  <2>4. Live(w)'
    BY <2>1 DEF Live
  <2>5. ASSUME NEW m \in LogIds, m # l, logs[m].status = "RUNNING"
        PROVE  \E v \in Workers : Live(v)' /\ workers'[v].log = m
    <3>1. PICK v \in Workers : Live(v) /\ workers[v].log = m
      BY <1>2, <2>5 DEF QuietLogs
    <3>2. v # w
      BY <2>1, <3>1, Numbers
    <3> QED BY <2>1, <3>1, <3>2 DEF Only, Kept, Live
  <2>6. QuietLogs'
    BY <1>2, <2>1, <2>3, <2>4, <2>5 DEF QuietLogs
  <2> QED BY <2>2, <2>6
<1>10. ASSUME NEW w \in Workers,
              FetchNothing(w) \/ FetchPage(w) \/ StagePage(w) \/ CloseUnseen(w)
       PROVE  QuietWorkers' /\ QuietLogs'
  <2>1. /\ Only(w) /\ workers'[w].log = workers[w].log
        /\ workers'[w].pc \in {"fetch", "stage", "close", "commit"}
        /\ workers[w].pc \in {"fetch", "stage", "close"}
    <3>1. workers[w].api \in 1..2
      BY Rows DEF Worker
    <3>2. CASE FetchNothing(w)
      BY <3>1, <3>2, FetchNothingRow DEF SameRun
    <3>3. CASE FetchPage(w)
      BY <3>3, FetchPageRow DEF SameRun
    <3>4. CASE StagePage(w)
      <4>1. AfterApi(w).pc \in {"fetch", "close"}
        BY <3>1, AfterApiRow
      <4>2. /\ Only(w) /\ SameRun(w) /\ workers[w].pc = "stage"
            /\ workers'[w].pc \in {"fetch", AfterApi(w).pc}
        BY <3>4, StagePageRow
      <4> QED BY <4>1, <4>2 DEF SameRun
    <3>5. CASE CloseUnseen(w)
      BY <3>5, CloseShape DEF SameRun
    <3> QED BY <1>10, <3>2, <3>3, <3>4, <3>5
  <2>2. UNCHANGED logs /\ (config' = config \/ config'.acct)
    BY <1>10, StatusWritten DEF FetchNothing, FetchPage, StagePage, CloseUnseen
  <2>3. Working(w)
    BY <2>1 DEF Working, Live
  <2>4. ASSUME NEW v \in Workers, Working(v)' PROVE config'.inv \/ config'.acct
    <3>1. Working(v)
      BY <2>1, <2>3, <2>4 DEF Only, Kept, Working, Live
    <3> QED BY <1>2, <2>2, <3>1 DEF QuietWorkers
  <2> QED BY <1>2, <2>1, <2>2, <2>4, QuietGoesOn DEF RunPlaces
<1>11. ASSUME NEW w \in Workers, ProjectAndCommit(w) PROVE QuietWorkers' /\ QuietLogs'
  <2>1. /\ Only(w) /\ workers'[w].log = workers[w].log /\ workers'[w].pc = "finish"
        /\ workers[w].pc = "commit" /\ UNCHANGED logs
    BY <1>11, CommitShape DEF ProjectAndCommit
  <2>2. ASSUME NEW v \in Workers PROVE ~Working(v)'
    <3>1. CASE v = w
      BY <2>1, <3>1 DEF Working
    <3>2. CASE v # w
      <4>1. Working(w)
        BY <2>1 DEF Working, Live
      <4>2. ~Working(v)
        BY <1>2, <3>2, <4>1 DEF AloneInv
      <4> QED BY <2>1, <3>2, <4>2 DEF Only, Kept, Working, Live
    <3> QED BY <3>1, <3>2
  <2> QED BY <1>2, <2>1, <2>2, QuietGoesOn DEF RunPlaces
<1>12. ASSUME NEW w \in Workers, FinishLog(w) PROVE QuietWorkers' /\ QuietLogs'
  <2>1. Only(w) /\ workers'[w].pc = "idle" /\ UNCHANGED config
    BY <1>12, Rests DEF FinishLog
  <2>2. QuietWorkers'
    BY <1>2, <2>1 DEF QuietWorkers, Only, Kept, Working, Live
  <2>3. Wrote(w, "COMPLETED")
    BY <1>12, FinishLogWrote
  <2>4. ASSUME NEW l \in LogIds
        PROVE  /\ logs'[l].status # "FAILED"
               /\ logs'[l].status = "RUNNING" =>
                     logs'[l].beat /\ \E v \in Workers : Live(v)' /\ workers'[v].log = l
    <3>1. CASE l = workers[w].log
      BY <2>3, <3>1 DEF Wrote
    <3>2. CASE l # workers[w].log
      <4>1. logs'[l] = logs[l]
        BY <2>3, <3>2 DEF Wrote
      <4>2. ASSUME NEW v \in Workers, Live(v), workers[v].log = l
            PROVE  Live(v)' /\ workers'[v].log = l
        BY <2>1, <3>2, <4>2 DEF Only, Kept, Live
      <4> QED BY <1>2, <4>1, <4>2 DEF QuietLogs
    <3> QED BY <3>1, <3>2
  <2> QED BY <2>2, <2>4 DEF QuietLogs
<1>13. QuietWorkers' /\ QuietLogs'
  BY <1>4, <1>5, <1>6, <1>7, <1>8, <1>9, <1>10, <1>11, <1>12, QuietSteps
<1> QED BY <1>3, <1>13

-----------------------------------------------------------------------------
(* The page at hand.                                                       *)

\* Which step takes a process where.
Arrives(w) ==
    /\ workers'[w].pc = "begin" => \E req \in Requests : StartRun(w, req)
    /\ workers'[w].pc \in {"fetch", "close"} =>
          (\E l \in LogIds : Begin(w, l)) \/ FetchNothing(w) \/ StagePage(w)
    /\ workers'[w].pc = "stage" => FetchPage(w)
    /\ workers'[w].pc = "commit" => CloseUnseen(w)
    /\ workers'[w].pc = "finish" => ProjectAndCommit(w)
    /\ workers'[w].pc = "replay" => BeginResume(w) \/ ReplayPage(w)

LEMMA ArrivesBy ==
    ASSUME TypesInv, NEW w \in Workers, Works(w)
    PROVE  Arrives(w)
<1> USE DEF Arrives
<1>1. workers[w].api \in 1..2
  BY Rows DEF Worker
<1>2. ASSUME NEW req \in Requests, StartRun(w, req) PROVE Arrives(w)
  BY <1>2, StartRunRow
<1>3. ASSUME NEW l \in LogIds, StartResume(w, l) PROVE Arrives(w)
  BY <1>3, StartResumeRow
<1>4. ASSUME NEW l \in LogIds, Begin(w, l) PROVE Arrives(w)
  BY <1>4, BeginRow
<1>5. CASE FetchNothing(w)
  BY <1>1, <1>5, FetchNothingRow
<1>6. CASE FetchPage(w)
  BY <1>6, FetchPageRow
<1>7. CASE StagePage(w)
  <2>1. workers'[w].pc \in {"fetch", "close"}
    <3>1. AfterApi(w).pc \in {"fetch", "close"}
      BY <1>1, AfterApiRow
    <3>2. workers'[w].pc \in {"fetch", AfterApi(w).pc}
      BY <1>7, StagePageRow
    <3> QED BY <3>1, <3>2
  <2> QED BY <1>7, <2>1
<1>8. CASE FailStaging(w)
  BY <1>8, FailStagingShape
<1>9. CASE CloseUnseen(w)
  BY <1>9, CloseShape
<1>10. CASE ProjectAndCommit(w)
  BY <1>10, CommitShape
<1>11. CASE FinishLog(w) \/ \E failure \in {"RETRYABLE", "FATAL"} : FailLog(w, failure)
  <2>1. Rest(w)
    BY <1>11 DEF FinishLog, FailLog
  <2> QED BY <2>1, Rests
<1>12. CASE BeginResume(w)
  BY <1>12, BeginResumeRow
<1>13. CASE ReplayPage(w)
  BY <1>13, ReplayPageRow
<1>14. CASE FinishResumeLog(w)
  <2>1. Goto(w, "rconfig") /\ "rconfig" \in RunPlaces \cup ResumePlaces
    BY <1>14 DEF FinishResumeLog, ResumePlaces
  <2> QED BY <2>1, GotoRow
<1>15. CASE Leaves(w)
  BY <1>15, LeavesShape
<1> QED BY <1>2, <1>3, <1>4, <1>5, <1>6, <1>7, <1>8, <1>9, <1>10, <1>11, <1>12, <1>13, <1>14,
           <1>15 DEF Works

\* While one process works, and no other does, only its own steps stage rows.
LEMMA StagedAlone ==
    ASSUME TypesInv, LogsInv, AloneInv, Next, "overlap" \notin causes, NEW v \in Workers,
           Working(v), ~StagePage(v), ~FailStaging(v), ~ReplayPage(v), NEW k \in Keys
    PROVE  staged'[k].version = staged[k].version /\ staged'[k].seen = staged[k].seen
<1>1. ASSUME NEW w \in Workers, Upserted(w, k) PROVE w = v
  BY <1>1 DEF AloneInv, Upserted
<1> QED BY <1>1, StagedFlow

\* The next change, and what was staged of it and of what came after it.
AtHand(q, w) ==
    /\ Api(q.key) = workers[w].api
    /\ workers[w].cursor[workers[w].api] < q.version
    /\ \A j \in Keys \ {q.key} :
          Api(j) = workers[w].api /\ workers[w].cursor[workers[w].api] < feed[j]
              => q.version < feed[j]
Newest(q, w) ==
    /\ staged[q.key].version <= q.version
    /\ q.last => \A j \in Keys :
          Api(j) = workers[w].api /\ q.version < feed[j] => staged[j].version < feed[j]

LEMMA StagingParts ==
    StagingInv <=> \A w \in Workers : workers[w].pc = "stage" => \E q \in workers[w].page :
        /\ workers[w].page = {q} /\ AtHand(q, w)
        /\ "overlap" \notin causes => Newest(q, w)
  BY DEF StagingInv, AtHand, Newest

LEMMA StagingStep ==
    ASSUME TypesInv, FeedInv, KnownInv, LogsInv, AloneInv, StagingInv, Next
    PROVE  StagingInv'
<1> USE Numbers
<1> SUFFICES ASSUME NEW v \in Workers, workers'[v].pc = "stage"
             PROVE  \E q \in workers'[v].page :
                        /\ workers'[v].page = {q} /\ AtHand(q, v)'
                        /\ "overlap" \notin causes' => Newest(q, v)'
  BY DEF StagingInv, AtHand, Newest
<1>1. /\ \A k \in Keys : feed[k] \in Nat /\ staged[k].version \in Nat
      /\ now \in Nat /\ workers[v].cursor[workers[v].api] \in Nat
  BY Rows DEF StagedRow, Worker
<1>2. CASE FetchPage(v)
  <2>1. PICK k \in NextChanges(workers[v].api, workers[v].cursor[workers[v].api]) :
           workers'[v].page = {[key |-> k, version |-> feed[k], last |-> IsLastChange(k)]}
    BY <1>2, FetchPageRow
  <2>2. /\ UNCHANGED <<feed, staged>> /\ workers'[v].cursor = workers[v].cursor
        /\ workers'[v].api = workers[v].api
    BY <1>2, FetchPageRow DEF FetchPage
  <2>3. PICK q \in workers'[v].page :
           /\ q.key = k /\ q.version = feed[k] /\ q.last = IsLastChange(k)
           /\ workers'[v].page = {q}
    BY <2>1
  <2>4. /\ k \in Keys /\ Api(k) = workers[v].api
        /\ feed[k] > workers[v].cursor[workers[v].api]
        /\ \A j \in Keys : Api(j) = workers[v].api
               /\ feed[j] > workers[v].cursor[workers[v].api] => feed[k] <= feed[j]
    BY DEF NextChanges
  <2>5. \A j \in Keys \ {k} : feed[j] # feed[k]
    BY <1>1, <2>4 DEF FeedInv
  <2>6. AtHand(q, v)
    BY <1>1, <2>3, <2>4, <2>5 DEF AtHand
  <2>7. staged[k].version <= feed[k]
    BY <1>1, <2>4 DEF KnownInv
  <2>8. Newest(q, v)
    <3>1. q.last => \A j \in Keys : Api(j) = workers[v].api => feed[j] <= feed[k]
      BY <2>3, <2>4 DEF IsLastChange
    <3> QED BY <1>1, <2>3, <2>4, <2>7, <3>1 DEF Newest
  <2>9. AtHand(q, v)' /\ Newest(q, v)'
    BY <2>2, <2>6, <2>8 DEF AtHand, Newest, Api
  <2> QED BY <2>3, <2>9
<1>3. CASE ~FetchPage(v)
  <2>1. ~Works(v) /\ Kept(v) /\ workers[v].pc = "stage"
    BY <1>3, ArrivesBy, WorkersFlow DEF Arrives, Kept
  <2>2. PICK q \in workers[v].page :
          /\ workers[v].page = {q} /\ AtHand(q, v)
          /\ "overlap" \notin causes => Newest(q, v)
    BY <2>1, StagingParts
  <2>3. q \in Fetched /\ q.key \in Keys /\ q.version \in Nat /\ q.version <= now
    BY <2>1, Typed DEF Place, Fetched, KnownInv, Known
  <2>4. AtHand(q, v)'
    <3>1. \A j \in Keys : feed'[j] \in Nat
      BY <1>1, FeedMoves
    <3> QED BY <1>1, <2>1, <2>2, <2>3, <3>1, FeedMoves DEF AtHand, Kept, Api
  <2>5. ASSUME "overlap" \notin causes' PROVE Newest(q, v)'
    <3>1. Newest(q, v)
      BY <2>2, <2>5, CausesGrow
    <3>2. \A j \in Keys : staged'[j].version = staged[j].version
      <4>1. "overlap" \notin causes /\ Working(v)
        BY <2>1, <2>5, CausesGrow DEF Working, Live
      <4> QED BY <2>1, <4>1, StagedAlone DEF Works
    <3>3. workers'[v].api = workers[v].api
      BY <2>1 DEF Kept
    <3>4. \A j \in Keys : staged[j].version <= now
      BY DEF KnownInv
    <3> QED BY <1>1, <2>3, <3>1, <3>2, <3>3, <3>4, FeedMoves DEF Newest, Api
  <2> QED BY <2>1, <2>2, <2>4, <2>5 DEF Kept
<1> QED BY <1>2, <1>3

-----------------------------------------------------------------------------
(* The cursors.                                                            *)

\* Unless an old page is replayed, no row goes back to an older version.
LEMMA StagedGrows ==
    ASSUME TypesInv, LogsInv, StagingInv, Next, Clean', NEW k \in Keys
    PROVE  staged[k].version <= staged'[k].version
<1>1. staged[k].version \in Nat /\ "overlap" \notin causes /\ "moved" \notin causes'
  BY Rows, Numbers, CausesGrow DEF StagedRow, Clean
<1>2. ASSUME NEW w \in Workers, StagePage(w) \/ FailStaging(w), Upserted(w, k)
      PROVE  staged[k].version <= staged'[k].version
  <2>1. workers[w].pc = "stage"
    BY <1>2, StagePageRow, FailStagingShape
  <2>2. PICK q \in workers[w].page : workers[w].page = {q} /\ Newest(q, w)
    BY <1>1, <2>1, StagingParts
  <2>3. q.key = k /\ staged'[k].version = q.version
    BY <1>2, <2>2 DEF Upserted
  <2> QED BY <2>2, <2>3 DEF Newest
<1>3. ASSUME NEW w \in Workers, ReplayPage(w)
      PROVE  staged[k].version <= staged'[k].version
  <2>1. PICK p \in workers[w].page :
           /\ p \in Page
           /\ \/ Upsert(p.key, p.version, p.log) /\ staged[p.key].version <= p.version
              \/ UNCHANGED staged
    <3>1. PICK p \in workers[w].page :
             /\ p \in Page
             /\ \/ /\ Upsert(p.key, p.version, p.log)
                   /\ causes' = IF staged[p.key].version > p.version
                                THEN causes \cup {"moved"} ELSE causes
                \/ UNCHANGED staged
      BY <1>3, ReplayPageRow
    <3>2. staged[p.key].version \in Nat /\ p.version \in Nat
      BY <3>1, Rows, Numbers DEF StagedRow, Page
    <3>3. CASE Upsert(p.key, p.version, p.log)
               /\ causes' = IF staged[p.key].version > p.version
                            THEN causes \cup {"moved"} ELSE causes
      <4>1. ~(staged[p.key].version > p.version)
        BY <1>1, <3>3
      <4> QED BY <3>1, <3>2, <3>3, <4>1
    <3> QED BY <3>1, <3>3
  <2>2. p.key \in Keys /\ p.version \in Time /\ p.log \in LogIds \cup {0}
    BY <2>1 DEF Page
  <2>3. CASE Upsert(p.key, p.version, p.log) /\ staged[p.key].version <= p.version
    <3>1. /\ staged'[p.key].version = p.version
          /\ \A j \in Keys \ {p.key} : staged'[j] = staged[j]
      BY <2>2, <2>3, UpsertRow
    <3> QED BY <1>1, <2>3, <3>1
  <2> QED BY <1>1, <2>1, <2>3
<1> QED BY <1>1, <1>2, <1>3, StagedFlow

LEMMA StagedTyped ==
    ASSUME TypesInv, LogsInv, Next
    PROVE  \A k \in Keys : staged'[k] \in StagedRow
  BY TypesStep DEF TypesInv, MargTypeOK, StagedRow

LEMMA CoveredStays ==
    ASSUME TypesInv, FeedInv, LogsInv, StagingInv, Next, Clean',
           NEW a \in 1..2, NEW c \in Time, Covered(a, c)
    PROVE  Covered(a, c)'
<1>1. /\ c \in Nat /\ now \in Nat
      /\ \A k \in Keys : /\ feed[k] \in Nat /\ staged[k].version \in Nat
                         /\ staged[k].version <= staged'[k].version
                         /\ staged'[k].version \in Nat
  <2>1. \A k \in Keys : staged'[k] \in StagedRow
    BY StagedTyped
  <2> QED BY <2>1, Rows, Numbers, StagedGrows DEF StagedRow
<1> QED BY <1>1, FeedMoves DEF Covered, Api

\* Nothing lies before the empty cursor.
LEMMA NothingBefore ==
    ASSUME TypesInv, NEW a \in 1..2
    PROVE  Covered(a, 0)
  BY Rows, Numbers DEF Covered

\* The cursors of the config move with a commit or a reset.
LEMMA ConfigFlow ==
    ASSUME TypesInv, LogsInv, Next
    PROVE  \/ config'.cursor = config.cursor /\ config'.was = config.was
           \/ /\ config'.was = config.cursor
              /\ \/ \A a \in 1..2 : config'.cursor[a] \in {config.cursor[a], 0}
                 \/ \E w \in Workers : ProjectAndCommit(w)
<1>1. ASSUME NEW w \in Workers, Works(w)
      PROVE  \/ config'.cursor = config.cursor /\ config'.was = config.was
             \/ config'.was = config.cursor /\ ProjectAndCommit(w)
  <2>1. CASE \/ \E req \in Requests : StartRun(w, req)
             \/ \E l \in LogIds : StartResume(w, l)
             \/ StagePage(w) \/ ReplayPage(w)
    BY <2>1, StatusWritten
  <2>2. CASE FailStaging(w) \/ Leaves(w)
    BY <2>2, FailStagingShape, LeavesShape
  <2>3. CASE ProjectAndCommit(w)
    BY <2>3, CommitShape
  <2>4. CASE \/ \E l \in LogIds : Begin(w, l)
             \/ FetchNothing(w) \/ FetchPage(w) \/ CloseUnseen(w) \/ FinishLog(w)
             \/ \E failure \in {"RETRYABLE", "FATAL"} : FailLog(w, failure)
             \/ BeginResume(w) \/ FinishResumeLog(w)
    BY <2>4 DEF Begin, FetchNothing, FetchPage, CloseUnseen, FinishLog, FailLog, BeginResume,
       FinishResumeLog
  <2> QED BY <1>1, <2>1, <2>2, <2>3, <2>4 DEF Works
<1>2. ASSUME NEW j \in Keys, Change(j) \/ Drop(j) PROVE UNCHANGED config
  BY <1>2 DEF Change, Drop
<1> QED BY <1>1, <1>2, Steps, SweepShape, ResetShape DEF Works

\* The cursor of a process moves when it starts, begins or stages a page.
LEMMA CursorFlow ==
    ASSUME TypesInv, NEW w \in Workers, Works(w)
    PROVE  \/ \E req \in Requests : StartRun(w, req)
           \/ \E l \in LogIds : Begin(w, l)
           \/ StagePage(w)
           \/ workers'[w].req.mode = "RESUME"
           \/ workers'[w].req = workers[w].req /\ workers'[w].cursor = workers[w].cursor
           \/ \A a \in 1..2 : workers'[w].cursor[a] = 0
<1>1. ASSUME NEW l \in LogIds, StartResume(w, l) PROVE workers'[w].req.mode = "RESUME"
  BY <1>1, StartResumeRow
<1>2. CASE FetchNothing(w) \/ FetchPage(w) \/ FailStaging(w) \/ CloseUnseen(w) \/ ProjectAndCommit(w)
  BY <1>2, FetchNothingRow, FetchPageRow, FailStagingShape, CloseShape, CommitShape, ZenonT(60) DEF SameRun
<1>3. CASE FinishLog(w) \/ \E failure \in {"RETRYABLE", "FATAL"} : FailLog(w, failure)
  <2>1. Rest(w)
    BY <1>3 DEF FinishLog, FailLog
  <2> QED BY <2>1, Rests
<1>4. CASE BeginResume(w) \/ ReplayPage(w)
  BY <1>4, BeginResumeRow, ReplayPageRow DEF SameRun
<1>5. CASE FinishResumeLog(w)
  <2>1. Goto(w, "rconfig") /\ "rconfig" \in RunPlaces \cup ResumePlaces
    BY <1>5 DEF FinishResumeLog, ResumePlaces
  <2> QED BY <2>1, GotoRow DEF SameRun
<1>6. CASE Leaves(w)
  BY <1>6, LeavesShape
<1> QED BY <1>1, <1>2, <1>3, <1>4, <1>5, <1>6 DEF Works

\* What a run commits is what it has covered.
LEMMA CommitCovers ==
    ASSUME TypesInv, CursorInv, NEW w \in Workers, ProjectAndCommit(w), Clean, Clean',
           NEW a \in CommittedApis(w), Followed(a)
    PROVE  a \in 1..2 /\ Open(w) /\ workers[w].req.mode = "FETCH"
           /\ Committed(w, a) \in Time /\ Covered(a, Committed(w, a))
           /\ (a = 2 => workers[w].req.scope = "FULL")
           /\ (Committed(w, a) = workers[w].cursor[a] \/ Committed(w, a) = 0)
<1>1. a \in 1..2 /\ CommitsCursor(workers[w].req) /\ (a = 2 => workers[w].req.scope = "FULL")
  BY DEF CommittedApis
<1>2. CommitCauses(w) = {}
  BY CommitShape DEF CommitCauses, Clean
<1>3. /\ workers[w].req.window # "from"
      /\ workers[w].cursor[a] = 0 => ~(now > 0)
  BY <1>2 DEF CommitCauses
<1>4. /\ workers[w].req \in RunRequest /\ workers[w].cursor[a] \in Time
      /\ now \in Time
  BY <1>1, Rows DEF Worker
<1>5. Open(w) /\ workers[w].req.mode = "FETCH"
  BY <1>1, <1>3, <1>4 DEF Open, CommitsCursor, RunRequest, Windows
<1>6. Covered(a, workers[w].cursor[a])
  BY <1>1, <1>5 DEF CursorInv
<1>7. CASE workers[w].cursor[a] = 0
  <2>1. now = 0
    BY <1>3, <1>4, <1>7, Numbers
  <2> QED BY <1>1, <1>4, <1>5, <1>7, <2>1, NothingBefore DEF Committed
<1>8. CASE workers[w].cursor[a] # 0
  BY <1>1, <1>4, <1>5, <1>6, <1>8 DEF Committed
<1> QED BY <1>7, <1>8

\* A page that is staged covers the cursor that moves past it.
LEMMA StageCovers ==
    ASSUME TypesInv, FeedInv, KnownInv, LogsInv, StagingInv, CursorInv, Next, Clean, Clean',
           NEW w \in Workers, StagePage(w), Open(w), NEW a \in 1..2, Followed(a)
    PROVE  Covered(a, workers[w].cursor[a])'
<1> USE Numbers
<1>1. PICK q \in workers[w].page :
         /\ q \in Fetched /\ StageRow(w, q)
         /\ workers'[w].cursor = [workers[w].cursor EXCEPT ![workers[w].api] = q.version]
  BY StagePageRow
<1>2. /\ workers[w].pc = "stage" /\ workers[w].log \in LogIds
      /\ workers[w].api \in 1..2 /\ workers[w].cursor \in [1..2 -> Time]
      /\ q.key \in Keys /\ q.version \in Time
  BY <1>1, StagePageRow, Rows DEF Worker, Fetched
<1>3. Covered(a, workers[w].cursor[a])
  BY DEF CursorInv
<1>4. CASE a # workers[w].api
  <2>1. workers'[w].cursor[a] = workers[w].cursor[a]
    BY <1>1, <1>2, <1>4
  <2>2. \A c \in Time : Covered(a, c) => Covered(a, c)'
    BY CoveredStays
  <2> QED BY <1>2, <1>3, <2>1, <2>2
<1>5. CASE a = workers[w].api
  <2>1. workers'[w].cursor[a] = q.version
    BY <1>1, <1>2, <1>5
  <2>2. AtHand(q, w)
    BY <1>2, StagingParts
  <2>3. Known(q) /\ q.version \in Nat /\ now' = now /\ feed' = feed
    BY <1>2 DEF KnownInv, StagePage
  <2>4. staged'[q.key].version = q.version
    <3>1. Upsert(q.key, q.version, workers[w].log)
      BY <1>1 DEF StageRow, MayFilter, Open
    <3> QED BY <1>2, <3>1, UpsertRow
  <2>5. ASSUME NEW k \in Keys, Api(k) = a, 0 < feed[k], feed[k] <= q.version
        PROVE  staged'[k].version >= feed[k]
    <3>1. feed[k] \in Nat /\ workers[w].cursor[a] \in Nat /\ feed[q.key] \in Nat
      BY <1>2, Rows
    <3>2. CASE feed[k] <= workers[w].cursor[a]
      <4>1. staged[k].version >= feed[k]
        BY <1>3, <2>5, <3>2 DEF Covered
      <4>2. staged[k].version <= staged'[k].version /\ staged[k].version \in Nat
            /\ staged'[k].version \in Nat
        <5>1. staged'[k] \in StagedRow
          BY StagedTyped
        <5> QED BY <5>1, StagedGrows, Rows DEF StagedRow
      <4> QED BY <3>1, <4>1, <4>2
    <3>3. CASE workers[w].cursor[a] < feed[k]
      <4>1. k = q.key
        BY <1>5, <2>2, <2>3, <2>5, <3>1, <3>3 DEF AtHand
      <4> QED BY <2>3, <2>4, <2>5, <3>1, <4>1 DEF Known
    <3> QED BY <3>1, <3>2, <3>3
  <2>6. q.version <= now
    BY <2>3 DEF Known
  <2> QED BY <2>1, <2>3, <2>5, <2>6 DEF Covered, Api
<1> QED BY <1>4, <1>5

LEMMA CursorStep ==
    ASSUME TypesInv, FeedInv, KnownInv, LogsInv, StagingInv, CursorInv, Next
    PROVE  CursorInv'
<1> SUFFICES ASSUME Clean'
             PROVE  /\ \A a \in 1..2 : Followed(a)' =>
                          /\ Covered(a, config.cursor[a])' /\ Covered(a, config.was[a])'
                          /\ \A w \in Workers : Open(w)' => Covered(a, workers[w].cursor[a])'
                    /\ Followed(2)' => \A l \in LogIds : logs'[l].scope = "FULL" /\ logs'[l].window = "open" =>
                          Covered(2, logs[l].cursor)'
  BY DEF CursorInv
<1>1. Clean /\ \A a \in 1..2 : Followed(a)' => Followed(a)
  BY CausesGrow DEF Clean, Followed
<1>2. \A a \in 1..2, c \in Time : Covered(a, c) => Covered(a, c)'
  BY CoveredStays
<1>3. \A a \in 1..2 : Covered(a, 0)'
  <2>1. 0 \in Time
    BY Numbers
  <2> QED BY <1>2, <2>1, NothingBefore
<1>4. ASSUME NEW a \in 1..2, Followed(a)
      PROVE  /\ config.cursor[a] \in Time /\ Covered(a, config.cursor[a])
             /\ config.was[a] \in Time /\ Covered(a, config.was[a])
  BY <1>1, <1>4, Typed DEF CursorInv, ConfigRow
<1>5. ASSUME NEW a \in 1..2, Followed(a)'
      PROVE  Covered(a, config.cursor[a])' /\ Covered(a, config.was[a])'
  <2>0. Followed(a)
    BY <1>1, <1>5
  <2>1. CASE config'.cursor = config.cursor /\ config'.was = config.was
    BY <1>2, <1>4, <2>0, <2>1
  <2>2. CASE config'.was = config.cursor /\ config'.cursor[a] \in {config.cursor[a], 0}
    BY <1>2, <1>3, <1>4, <2>0, <2>2
  <2>3. ASSUME NEW w \in Workers, ProjectAndCommit(w), config'.was = config.cursor
        PROVE  Covered(a, config.cursor[a])' /\ Covered(a, config.was[a])'
    <3>1. CASE a \in CommittedApis(w)
      <4>1. config'.cursor[a] = Committed(w, a)
        BY <2>3, <3>1, CommitShape
      <4>2. Committed(w, a) \in Time /\ Covered(a, Committed(w, a))
        BY <1>1, <2>0, <2>3, <3>1, CommitCovers
      <4> QED BY <1>2, <1>4, <2>0, <2>3, <4>1, <4>2
    <3>2. CASE a \notin CommittedApis(w)
      <4>1. config'.cursor[a] = config.cursor[a]
        BY <2>3, <3>2, CommitShape
      <4> QED BY <1>2, <1>4, <2>0, <2>3, <4>1
    <3> QED BY <3>1, <3>2
  <2> QED BY <2>1, <2>2, <2>3, ConfigFlow
<1>6. ASSUME NEW w \in Workers, Open(w), NEW a \in 1..2, Followed(a)
      PROVE  workers[w].cursor[a] \in Time /\ Covered(a, workers[w].cursor[a])
  BY <1>1, <1>6, Rows DEF CursorInv, Worker
<1>7. ASSUME NEW w \in Workers, Open(w)', NEW a \in 1..2, Followed(a)'
      PROVE  Covered(a, workers[w].cursor[a])'
  <2>0. Followed(a)
    BY <1>1, <1>7
  <2>1. CASE workers'[w].req = workers[w].req /\ workers'[w].cursor = workers[w].cursor
    <3>1. Open(w)
      BY <1>7, <2>1 DEF Open
    <3> QED BY <1>2, <1>6, <2>0, <2>1, <3>1
  <2>2. ASSUME NEW req \in Requests, StartRun(w, req)
        PROVE  Covered(a, workers[w].cursor[a])'
    <3>1. workers'[w].cursor \in {config.cursor, config.was}
      BY <2>2, StartRunRow
    <3> QED BY <1>2, <1>4, <2>0, <3>1
  <2>3. ASSUME NEW l \in LogIds, Begin(w, l)
        PROVE  Covered(a, workers[w].cursor[a])'
    <3> DEFINE req == workers[w].req
    <3>1. /\ workers'[w].cursor = StartCursor(req, workers[w].cursor)
          /\ workers'[w].req = req
      BY <2>3, BeginRow
    <3>2. Open(w) /\ req.window = "open" /\ req \in RunRequest /\ workers[w].cursor \in [1..2 -> Time]
      BY <1>7, <3>1, Rows DEF Open, Worker
    <3>3. CASE a = 1 \/ ~Recovers(req, workers[w].cursor)
      <4>1. workers'[w].cursor[a] = workers[w].cursor[a]
        BY <3>1, <3>2, <3>3, StartCursors
      <4> QED BY <1>2, <1>6, <2>0, <3>2, <4>1
    <3>4. CASE a = 2 /\ Recovers(req, workers[w].cursor)
      <4>1. workers'[w].cursor[2] = LatestLog.cursor
        BY <3>1, <3>2, <3>4, StartCursors
      <4>2. "recovered" \notin RecoveryCauses(req, workers[w].cursor)
        BY <1>7, <2>3, <3>4 DEF Begin, Followed
      <4>3. LatestLog.scope = "FULL" /\ LatestLog.window = "open"
        BY <3>4, <4>2 DEF RecoveryCauses
      <4>4. PICK m \in LogIds : LatestLog = logs[m]
        BY <3>4, LatestIsALog DEF Recovers
      <4>5. logs[m].cursor \in Time /\ Covered(2, logs[m].cursor)
        BY <1>1, <2>0, <3>4, <4>3, <4>4, Rows DEF CursorInv, LogRow
      <4> QED BY <1>2, <3>4, <4>1, <4>4, <4>5
    <3> QED BY <3>3, <3>4
  <2>4. CASE StagePage(w)
    <3>1. Open(w)
      BY <1>7, <2>4, StagePageRow DEF Open, SameRun
    <3> QED BY <1>1, <2>0, <2>4, <3>1, StageCovers
  <2>5. CASE \A b \in 1..2 : workers'[w].cursor[b] = 0
    BY <1>3, <2>5
  <2>6. workers'[w].req.mode # "RESUME"
    BY <1>7 DEF Open
  <2> QED BY <2>1, <2>2, <2>3, <2>4, <2>5, <2>6, CursorFlow, WorkersFlow DEF Kept
<1>8. ASSUME Followed(2)', NEW l \in LogIds, logs'[l].scope = "FULL", logs'[l].window = "open"
      PROVE  Covered(2, logs[l].cursor)'
  <2>0. Followed(2)
    BY <1>1, <1>8
  <2>1. CASE /\ logs'[l].cursor = logs[l].cursor
             /\ logs'[l].scope = logs[l].scope /\ logs'[l].window = logs[l].window
    <3>1. logs[l].cursor \in Time /\ Covered(2, logs[l].cursor)
      BY <1>1, <1>8, <2>0, <2>1, Rows DEF CursorInv, LogRow
    <3> QED BY <1>2, <2>1, <3>1
  <2>2. ASSUME NEW w \in Workers, Begin(w, l)
        PROVE  Covered(2, logs[l].cursor)'
    <3>1. /\ logs'[l].scope = workers[w].req.scope /\ logs'[l].window = workers[w].req.window
          /\ logs'[l].cursor = ActiveCursor(workers[w].req,
                                   StartCursor(workers[w].req, workers[w].cursor))
      BY <2>2, BeginLog
    <3>2. /\ workers'[w].cursor = StartCursor(workers[w].req, workers[w].cursor)
          /\ workers'[w].req = workers[w].req /\ workers[w].req.mode # "RESUME"
      BY <2>2, BeginRow
    <3>3. Open(w)' /\ logs'[l].cursor = workers'[w].cursor[2]
      BY <1>8, <3>1, <3>2 DEF Open, ActiveCursor
    <3> QED BY <1>7, <1>8, <3>3
  <2>3. ASSUME NEW w \in Workers, NEW status, workers[w].log = l, Wrote(w, status)
        PROVE  Covered(2, logs[l].cursor)'
    <3>1. logs'[l].scope = logs[l].scope /\ logs'[l].window = logs[l].window
      BY <2>3 DEF Wrote
    <3>2. CASE logs'[l].cursor = logs[l].cursor
      BY <2>1, <3>1, <3>2
    <3>3. CASE /\ workers[w].req.mode # "RESUME"
               /\ logs'[l].cursor = ActiveCursor(workers[w].req, workers[w].cursor)
      <4>1. workers[w].req.scope = "FULL" /\ workers[w].req.window = "open"
        BY <1>8, <2>3, <3>1, <3>3, Numbers DEF LogsInv
      <4>2. Open(w) /\ logs'[l].cursor = workers[w].cursor[2]
        BY <3>3, <4>1 DEF Open, ActiveCursor
      <4>3. workers[w].cursor[2] \in Time /\ Covered(2, workers[w].cursor[2])
        BY <1>6, <2>0, <4>2
      <4> QED BY <1>2, <4>2, <4>3
    <3> QED BY <2>3, <3>2, <3>3 DEF Wrote
  <2> QED BY <2>1, <2>2, <2>3, LogsFlow DEF LogKept
<1> QED BY <1>5, <1>7, <1>8

-----------------------------------------------------------------------------
(* The journal.                                                            *)

\* A run that pages went on paging, or has just begun.
LEMMA FetchingFlow ==
    ASSUME TypesInv, NEW v \in Workers, Works(v), Fetching(v)'
    PROVE  \/ \E l \in LogIds : Begin(v, l)
           \/ /\ FetchNothing(v) \/ FetchPage(v) \/ StagePage(v) \/ CloseUnseen(v)
              /\ Fetching(v) /\ workers'[v].req = workers[v].req
              /\ workers'[v].log = workers[v].log
              /\ workers'[v].clean = workers[v].clean
              /\ workers[v].touched \subseteq workers'[v].touched
              /\ ~StagePage(v) => workers'[v].cursor = workers[v].cursor
<1>1. \/ \E l \in LogIds : Begin(v, l)
      \/ FetchNothing(v) \/ FetchPage(v) \/ StagePage(v) \/ CloseUnseen(v)
  BY ArrivesBy DEF Arrives, Fetching
<1>2. CASE FetchNothing(v)
  BY <1>2, FetchNothingRow DEF SameRun, Fetching
<1>3. CASE FetchPage(v)
  BY <1>3, FetchPageRow DEF SameRun, Fetching
<1>4. CASE StagePage(v)
  BY <1>4, StagePageRow DEF SameRun, Fetching
<1>5. CASE CloseUnseen(v)
  BY <1>5, CloseShape DEF SameRun, Fetching
<1> QED BY <1>1, <1>2, <1>3, <1>4, <1>5

\* What was staged by a run is among what the run touched.
Touched(w) == \A k \in BillKeys : staged[k].seen = workers[w].log => k \in workers[w].touched

LEMMA TouchedStep ==
    ASSUME TypesInv, LogsInv, AloneInv, StagingInv, JournalInv, Next,
           "overlap" \notin causes', NEW v \in Workers, Fetching(v)'
    PROVE  Touched(v)'
<1> USE Numbers
<1> SUFFICES ASSUME NEW k \in BillKeys, staged'[k].seen = workers'[v].log
             PROVE  k \in workers'[v].touched
  BY DEF Touched
<1>1. "overlap" \notin causes /\ k \in Keys
  BY CausesGrow DEF Keys
<1>2. ASSUME NEW l \in LogIds, Begin(v, l) PROVE FALSE
  <2>1. workers'[v].log = l /\ logs[l].status = "NONE" /\ l # 0
    BY <1>2, BeginRow, BeginLog
  <2>2. staged' = staged
    BY <1>2 DEF Begin
  <2> QED BY <1>1, <2>1, <2>2 DEF LogsInv
<1>3. /\ Fetching(v) /\ workers'[v].log = workers[v].log
      /\ workers[v].touched \subseteq workers'[v].touched
  <2>1. CASE Kept(v)
    BY <2>1 DEF Kept, Fetching
  <2> QED BY <1>2, <2>1, FetchingFlow, WorkersFlow
<1>4. Working(v) /\ ~FailStaging(v) /\ ~ReplayPage(v)
  BY <1>3, FailStagingShape, ReplayPageRow DEF Fetching, Working, Live
<1>5. CASE staged'[k].seen = staged[k].seen
  BY <1>1, <1>3, <1>5 DEF JournalInv
<1>6. CASE staged'[k].seen # staged[k].seen
  <2>1. StagePage(v) /\ Upserted(v, k)
    <3>1. StagePage(v)
      BY <1>1, <1>4, <1>6, StagedAlone
    <3>2. ASSUME NEW w \in Workers, Upserted(w, k) PROVE w = v
      BY <1>1, <1>4, <3>2 DEF AloneInv, Upserted
    <3> QED BY <1>1, <1>6, <3>1, <3>2, StagedFlow
  <2>2. PICK q \in workers[v].page :
           staged' # staged /\ q.key \in BillKeys => q.key \in workers'[v].touched
    BY <2>1, StagePageRow
  <2>3. \A p \in workers[v].page : p = q
    BY <2>1, StagePageRow DEF StagingInv
  <2>4. q.key = k
    BY <2>1, <2>3 DEF Upserted
  <2> QED BY <1>6, <2>2, <2>4
<1> QED BY <1>5, <1>6

\* A projection brings every bill that it takes up to what is staged.
Projects ==
    \A k \in BillKeys : projected'[k] = projected[k] \/ projected'[k] = staged[k].version

LEMMA ProjectedFlow ==
    ASSUME TypesInv, LogsInv, Next
    PROVE  Projects
<1>1. ASSUME NEW w \in Workers, Works(w), ~ProjectAndCommit(w) PROVE UNCHANGED projected
  BY <1>1, LeavesShape DEF Works, StartRun, StartResume, Begin, FetchNothing, FetchPage, StagePage,
     FailStaging, CloseUnseen, FinishLog, FailLog, BeginResume, ReplayPage, FinishResumeLog
<1>2. ASSUME NEW w \in Workers, ProjectAndCommit(w) PROVE Projects
  <2>1. \/ projected' = [k \in BillKeys |->
               IF k \in ChangedSince(w) THEN staged[k].version ELSE projected[k]]
        \/ projected' = projected
    BY <1>2, CommitShape
  <2> QED BY <2>1 DEF Projects
<1>3. ASSUME NEW j \in Keys, Change(j) \/ Drop(j) PROVE UNCHANGED projected
  BY <1>3 DEF Change, Drop
<1>4. UNCHANGED projected => Projects
  BY DEF Projects
<1> QED BY <1>1, <1>2, <1>3, <1>4, Steps, SweepShape, ResetShape DEF Works

LEMMA JournaledStays ==
    ASSUME TypesInv, FeedInv, LogsInv, Next, NEW c \in Time, Covered(1, c),
           NEW T, NEW U, T \subseteq U, Journaled(c, T)
    PROVE  Journaled(c, U)'
<1>1. /\ c \in Nat /\ now \in Nat /\ c <= now
      /\ \A k \in BillKeys : /\ k \in Keys /\ Api(k) = 1
                             /\ feed[k] \in Nat /\ staged[k].version \in Nat
                             /\ projected[k] \in Nat
  BY Rows, Numbers, SyncAssumption DEF Covered, StagedRow, Keys, Api
<1> SUFFICES ASSUME NEW k \in BillKeys, 0 < feed'[k], feed'[k] <= c, k \notin U
             PROVE  projected'[k] >= feed'[k]
  BY DEF Journaled
<1>2. feed'[k] = feed[k]
  BY <1>1, FeedMoves
<1>3. projected[k] >= feed[k]
  BY <1>1, <1>2 DEF Journaled
<1>4. staged[k].version >= feed[k]
  BY <1>1, <1>2 DEF Covered
<1> QED BY <1>2, <1>3, <1>4, ProjectedFlow DEF Projects

LEMMA NothingJournaledBefore ==
    ASSUME TypesInv, NEW T
    PROVE  Journaled(0, T)
<1>1. \A k \in BillKeys : feed[k] \in Nat
  BY Rows, Numbers DEF Keys
<1> QED BY <1>1 DEF Journaled

\* A commit projects whatever the run touched.
LEMMA CommitJournals ==
    ASSUME TypesInv, NEW w \in Workers, ProjectAndCommit(w), "unprojected" \notin causes',
           UNCHANGED feed, workers[w].req.mode = "FETCH",
           NEW c \in Time, Covered(1, c), Journaled(c, workers[w].touched)
    PROVE  Journaled(c, {})'
<1>1. \A k \in BillKeys : /\ k \in Keys /\ Api(k) = 1
                          /\ feed[k] \in Nat /\ staged[k].version \in Nat
  BY Rows, Numbers, SyncAssumption DEF StagedRow, Keys, Api
<1>2. projected' = [k \in BillKeys |->
          IF k \in workers[w].touched THEN staged[k].version ELSE projected[k]]
  <2>1. projected' = [k \in BillKeys |->
            IF k \in ChangedSince(w) THEN staged[k].version ELSE projected[k]]
    BY CommitShape
  <2>2. ChangedSince(w) = workers[w].touched
    BY DEF ChangedSince
  <2> QED BY <2>1, <2>2
<1> SUFFICES ASSUME NEW k \in BillKeys, 0 < feed[k], feed[k] <= c
             PROVE  projected'[k] >= feed[k]
  BY DEF Journaled
<1>3. CASE k \in workers[w].touched
  BY <1>1, <1>2, <1>3 DEF Covered
<1>4. CASE k \notin workers[w].touched
  BY <1>2, <1>4 DEF Journaled
<1> QED BY <1>3, <1>4

\* Staging a page touches what its cursor moves past.
LEMMA StageJournals ==
    ASSUME TypesInv, FeedInv, KnownInv, LogsInv, StagingInv, CursorInv, JournalInv, Next,
           Clean, Clean', NEW w \in Workers, StagePage(w), Open(w),
           Journaled(workers[w].cursor[1], workers[w].touched)
    PROVE  Journaled(workers[w].cursor[1], workers[w].touched)'
<1> USE Numbers
<1>1. PICK q \in workers[w].page :
         /\ q \in Fetched /\ StageRow(w, q)
         /\ workers'[w].cursor = [workers[w].cursor EXCEPT ![workers[w].api] = q.version]
         /\ staged' # staged /\ q.key \in BillKeys => q.key \in workers'[w].touched
  BY StagePageRow
<1>2. /\ workers[w].pc = "stage" /\ workers[w].log \in LogIds
      /\ workers[w].req.mode = "FETCH"
      /\ workers[w].api \in 1..2 /\ workers[w].cursor \in [1..2 -> Time]
      /\ q.key \in Keys /\ q.version \in Time
      /\ workers[w].touched \subseteq workers'[w].touched
  BY <1>1, StagePageRow, Rows DEF Worker, Fetched
<1>3. projected' = projected /\ feed' = feed
  BY DEF StagePage
<1>4. CASE workers[w].api # 1
  <2>1. workers'[w].cursor[1] = workers[w].cursor[1]
    BY <1>1, <1>2, <1>4
  <2> QED BY <1>2, <1>3, <2>1 DEF Journaled
<1>5. CASE workers[w].api = 1
  <2>1. workers'[w].cursor[1] = q.version
    BY <1>1, <1>2, <1>5
  <2>2. AtHand(q, w) /\ Known(q)
    BY <1>2, StagingParts DEF KnownInv
  <2>3. ASSUME q.key \in BillKeys PROVE q.key \in workers'[w].touched
    <3>1. Upsert(q.key, q.version, workers[w].log)
      BY <1>1 DEF StageRow, MayFilter, Open
    <3>2. staged'[q.key].seen = workers[w].log
      BY <1>2, <3>1, UpsertRow
    <3>3. CASE staged' = staged
      <4>1. Fetching(w) /\ "overlap" \notin causes
        BY <1>2 DEF Fetching, Clean
      <4>2. q.key \in workers[w].touched
        BY <2>3, <3>2, <3>3, <4>1 DEF JournalInv
      <4> QED BY <1>2, <4>2
    <3> QED BY <1>1, <2>3, <3>3
  <2>4. ASSUME NEW k \in BillKeys, 0 < feed[k], feed[k] <= q.version
        PROVE  projected[k] >= feed[k] \/ k \in workers'[w].touched
    <3>1. /\ k \in Keys /\ Api(k) = 1 /\ feed[k] \in Nat
          /\ workers[w].cursor[1] \in Nat /\ q.version \in Nat
      BY <1>2, Rows, SyncAssumption DEF Keys, Api
    <3>2. CASE feed[k] <= workers[w].cursor[1]
      BY <1>2, <2>4, <3>2 DEF Journaled
    <3>3. CASE workers[w].cursor[1] < feed[k]
      <4>1. k = q.key
        BY <1>5, <2>2, <2>4, <3>1, <3>3 DEF AtHand
      <4> QED BY <2>3, <4>1
    <3> QED BY <3>1, <3>2, <3>3
  <2> QED BY <1>3, <2>1, <2>4 DEF Journaled
<1> QED BY <1>4, <1>5

LEMMA JournalStep ==
    ASSUME TypesInv, FeedInv, KnownInv, LogsInv, AloneInv, StagingInv, CursorInv, JournalInv, Next
    PROVE  JournalInv'
<1>1. "overlap" \notin causes' => \A v \in Workers : Fetching(v)' => Touched(v)'
  BY TouchedStep
<1> SUFFICES ASSUME Clean', "unprojected" \notin causes'
             PROVE  /\ Journaled(config.cursor[1], {})' /\ Journaled(config.was[1], {})'
                    /\ \A w \in Workers : (Open(w) /\ (Fetching(w) \/ workers[w].pc = "begin"))' =>
                          Journaled(workers[w].cursor[1], workers[w].touched)'
  BY <1>1 DEF JournalInv, Touched
<1>2. Clean /\ "unprojected" \notin causes
  BY CausesGrow DEF Clean
<1> USE DEF Followed
<1>3. \A c \in Time : \A T, U : Covered(1, c) /\ Journaled(c, T) /\ T \subseteq U => Journaled(c, U)'
  BY JournaledStays
<1>4. \A T : Journaled(0, T)'
  <2>1. 0 \in Time
    BY Numbers
  <2>2. Covered(1, 0)
    BY NothingBefore
  <2> QED BY <1>3, <2>1, <2>2, NothingJournaledBefore
<1>5. /\ config.cursor[1] \in Time /\ Covered(1, config.cursor[1])
      /\ config.was[1] \in Time /\ Covered(1, config.was[1])
      /\ Journaled(config.cursor[1], {}) /\ Journaled(config.was[1], {})
  BY <1>2, Typed DEF CursorInv, JournalInv, ConfigRow
<1>6. ASSUME NEW w \in Workers, Open(w)
      PROVE  workers[w].cursor[1] \in Time /\ Covered(1, workers[w].cursor[1])
  BY <1>2, <1>6, Rows DEF CursorInv, Worker
<1>7. Journaled(config.cursor[1], {})' /\ Journaled(config.was[1], {})'
  <2>1. CASE config'.cursor = config.cursor /\ config'.was = config.was
    BY <1>3, <1>5, <2>1
  <2>2. CASE config'.was = config.cursor /\ config'.cursor[1] \in {config.cursor[1], 0}
    BY <1>3, <1>4, <1>5, <2>2
  <2>3. ASSUME NEW w \in Workers, ProjectAndCommit(w), config'.was = config.cursor
        PROVE  Journaled(config.cursor[1], {})' /\ Journaled(config.was[1], {})'
    <3> DEFINE becomes(a) == config'.cursor[a]
                   = IF a \in CommittedApis(w) THEN Committed(w, a) ELSE config.cursor[a]
    <3>1. becomes(1)
      <4>1. \A a \in 1..2 : becomes(a)
        BY <2>3, CommitShape
      <4> HIDE DEF becomes
      <4> QED BY <4>1
    <3>2. CASE 1 \in CommittedApis(w)
      <4>1. config'.cursor[1] = Committed(w, 1)
        BY <3>1, <3>2
      <4>2. /\ Committed(w, 1) \in Time /\ Open(w) /\ workers[w].req.mode = "FETCH"
            /\ Committed(w, 1) = workers[w].cursor[1] \/ Committed(w, 1) = 0
        BY <1>2, <2>3, <3>2, CommitCovers
      <4>3. Fetching(w) /\ UNCHANGED feed
        BY <2>3, <4>2, CommitShape DEF Fetching, ProjectAndCommit
      <4>4. Journaled(workers[w].cursor[1], workers[w].touched)
        BY <1>2, <4>2, <4>3 DEF JournalInv
      <4>5. Journaled(workers[w].cursor[1], {})' \/ Committed(w, 1) = 0
        <5>1. \A c \in Time : Covered(1, c) /\ Journaled(c, workers[w].touched)
                                  => Journaled(c, {})'
          BY <2>3, <4>2, <4>3, CommitJournals
        <5>2. workers'[w].cursor[1] = workers[w].cursor[1]
          BY <2>3, CommitShape
        <5> QED BY <1>6, <4>2, <4>4, <5>1, <5>2
      <4>6. workers'[w].cursor[1] = workers[w].cursor[1]
        BY <2>3, CommitShape
      <4> QED BY <1>3, <1>4, <1>5, <2>3, <4>1, <4>2, <4>5, <4>6
    <3>3. CASE 1 \notin CommittedApis(w)
      <4>1. config'.cursor[1] = config.cursor[1]
        BY <3>1, <3>3
      <4> QED BY <1>3, <1>5, <2>3, <4>1
    <3> QED BY <3>2, <3>3
  <2> QED BY <2>1, <2>2, <2>3, ConfigFlow
<1>8. ASSUME NEW w \in Workers, Open(w)', Fetching(w)' \/ workers'[w].pc = "begin"
      PROVE  Journaled(workers[w].cursor[1], workers[w].touched)'
  <2>1. CASE /\ workers'[w].req = workers[w].req
             /\ workers'[w].cursor[1] = workers[w].cursor[1]
             /\ workers[w].touched \subseteq workers'[w].touched
             /\ Fetching(w) \/ workers[w].pc = "begin"
    <3>1. Open(w)
      BY <1>8, <2>1 DEF Open
    <3>2. Journaled(workers[w].cursor[1], workers[w].touched)
      BY <1>2, <2>1, <3>1 DEF JournalInv
    <3> QED BY <1>3, <1>6, <2>1, <3>1, <3>2
  <2>2. CASE Kept(w)
    BY <1>8, <2>1, <2>2 DEF Kept, Fetching
  <2>3. ASSUME NEW req \in Requests, StartRun(w, req)
        PROVE  Journaled(workers[w].cursor[1], workers[w].touched)'
    <3>1. workers'[w].cursor \in {config.cursor, config.was} /\ workers'[w].touched = {}
      BY <2>3, StartRunRow
    <3> QED BY <1>3, <1>5, <3>1
  <2>4. ASSUME NEW l \in LogIds, Begin(w, l)
        PROVE  Journaled(workers[w].cursor[1], workers[w].touched)'
    <3>1. /\ workers'[w].cursor = StartCursor(workers[w].req, workers[w].cursor)
          /\ workers'[w].req = workers[w].req /\ workers[w].pc = "begin"
          /\ workers'[w].touched = workers[w].touched
      BY <2>4, BeginRow
    <3>2. /\ workers[w].req.window = "open" /\ workers[w].req \in RunRequest
          /\ workers[w].cursor \in [1..2 -> Time]
      BY <1>8, <3>1, Rows DEF Open, Worker
    <3>3. workers'[w].cursor[1] = workers[w].cursor[1]
      BY <3>1, <3>2, StartCursors
    <3> QED BY <2>1, <3>1, <3>3
  <2>5. CASE StagePage(w)
    <3>1. Open(w) /\ Fetching(w)
      BY <1>8, <2>5, StagePageRow DEF Open, SameRun, Fetching
    <3>2. Journaled(workers[w].cursor[1], workers[w].touched)
      BY <1>2, <3>1 DEF JournalInv
    <3> QED BY <1>2, <2>5, <3>1, <3>2, StageJournals
  <2>6. CASE Works(w) /\ Fetching(w)'
    BY <2>1, <2>4, <2>5, <2>6, FetchingFlow
  <2>7. CASE Works(w) /\ workers'[w].pc = "begin"
    BY <2>3, <2>7, ArrivesBy DEF Arrives
  <2> QED BY <1>8, <2>2, <2>6, <2>7, WorkersFlow
<1> QED BY <1>7, <1>8

-----------------------------------------------------------------------------
(* The snapshot.                                                           *)

\* When Marg has nothing more to say, nothing has changed after the cursor.
LEMMA NothingMore ==
    ASSUME TypesInv, NEW api, NEW c \in Time, NextChanges(api, c) = {}
    PROVE  \A k \in Keys : Api(k) = api => feed[k] <= c
<1>1. \A k \in Keys : feed[k] \in Nat /\ c \in Nat
  BY Rows, Numbers
<1> SUFFICES ASSUME NEW k \in Keys, Api(k) = api, feed[k] > c PROVE FALSE
  BY <1>1
<1> DEFINE later == {j \in Keys : Api(j) = api /\ feed[j] > c}
           times == {feed[j] : j \in later}
<1>2. times \in SUBSET Nat /\ times # {}
  BY <1>1
<1>3. PICK t \in times : \A u \in times : t <= u
  BY <1>2, LeastElement
<1>4. PICK m \in later : feed[m] = t
  OBVIOUS
<1>5. m \in NextChanges(api, c)
  BY <1>3, <1>4 DEF NextChanges
<1> QED BY <1>5

\* What a snapshot may still find missing.
Ahead(w, a) ==
    \A k \in Keys : Api(k) = a /\ Missed(w, k) => ~Through(w, a) /\ workers[w].cursor[a] < feed[k]
Paging(w) == workers[w].pc \in {"fetch", "stage", "close"}

LEMMA SnapshotParts ==
    SnapshotInv <=>
        ("overlap" \notin causes => \A w \in Workers : \A a \in 1..2 : Snapshot(w, a) =>
            /\ workers[w].pc = "begin" => workers[w].cursor[a] = 0
            /\ Paging(w) => Ahead(w, a))
  BY DEF SnapshotInv, Ahead, Paging

\* A snapshot that begins has its page 1 before it.
LEMMA SnapshotBegins ==
    ASSUME TypesInv, LogsInv, SnapshotInv, "overlap" \notin causes, NEW w \in Workers,
           NEW l \in LogIds, Begin(w, l), NEW a \in 1..2, Snapshot(w, a)'
    PROVE  Ahead(w, a)'
<1> DEFINE req == workers[w].req
<1>1. /\ workers[w].pc = "begin" /\ workers'[w].req = req
      /\ workers'[w].clean = workers[w].clean
      /\ workers'[w].cursor = StartCursor(req, workers[w].cursor)
      /\ workers'[w].pc = IF req.mode = "FETCH" THEN "fetch" ELSE "close"
      /\ workers'[w].api = IF req.scope = "FULL" THEN 2 ELSE 1
  BY BeginRow
<1>2. /\ causes' = causes \cup RecoveryCauses(req, workers[w].cursor)
      /\ feed' = feed /\ staged' = staged
  BY DEF Begin
<1>3. Snapshot(w, a)
  BY <1>1, <1>2 DEF Snapshot, Open
<1>4. workers[w].cursor[a] = 0
  BY <1>1, <1>3 DEF SnapshotInv
<1>5. /\ req.window = "open" /\ req.mode = "FETCH" /\ (a = 2 => req.scope = "FULL")
      /\ req \in RunRequest /\ workers[w].cursor \in [1..2 -> Time]
  BY <1>3, Rows DEF Snapshot, Open, Worker
<1>6. workers'[w].cursor[a] = 0
  <2>1. CASE a = 2
    <3>1. "hidden" \notin RecoveryCauses(req, workers[w].cursor)
      BY <1>2, <2>1 DEF Snapshot
    <3>2. ~Recovers(req, workers[w].cursor)
      BY <3>1 DEF RecoveryCauses
    <3> QED BY <1>1, <1>4, <1>5, <3>2, StartCursors
  <2>2. CASE a = 1
    BY <1>1, <1>4, <1>5, <2>2, StartCursors
  <2> QED BY <2>1, <2>2
<1>7. ~Through(w, a)'
  BY <1>1, <1>5 DEF Through
<1>8. \A k \in Keys : Missed(w, k)' => 0 < feed'[k]
  BY DEF Missed
<1> QED BY <1>6, <1>7, <1>8 DEF Ahead

\* What comes after a page is still ahead, and after the last one is seen.
LEMMA SnapshotStages ==
    ASSUME TypesInv, StagingInv, "overlap" \notin causes, NEW w \in Workers,
           StagePage(w), NEW a \in 1..2, Snapshot(w, a), Ahead(w, a)
    PROVE  Ahead(w, a)'
<1> USE Numbers
<1>1. PICK q \in workers[w].page :
         /\ q \in Fetched /\ StageRow(w, q)
         /\ workers'[w].cursor = [workers[w].cursor EXCEPT ![workers[w].api] = q.version]
         /\ workers'[w].pc = IF q.last THEN AfterApi(w).pc ELSE "fetch"
         /\ workers'[w].api = IF q.last THEN 1 ELSE workers[w].api
  BY StagePageRow
<1>2. /\ workers[w].pc = "stage" /\ workers[w].log \in LogIds
      /\ workers[w].api \in 1..2 /\ workers[w].cursor \in [1..2 -> Time]
      /\ q.key \in Keys /\ q.version \in Time /\ workers'[w].log = workers[w].log
      /\ feed' = feed
  BY <1>1, StagePageRow, Rows DEF Worker, Fetched, SameRun, StagePage
<1>3. AtHand(q, w) /\ Newest(q, w)
  BY <1>2, StagingParts
<1>4. /\ staged'[q.key].seen = workers[w].log
      /\ \A k \in Keys \ {q.key} : staged'[k] = staged[k]
  <2>1. Upsert(q.key, q.version, workers[w].log)
    BY <1>1 DEF StageRow, MayFilter, Open, Snapshot
  <2> QED BY <1>2, <2>1, UpsertRow
<1> SUFFICES ASSUME NEW k \in Keys, Api(k) = a, Missed(w, k)'
             PROVE  ~Through(w, a)' /\ workers'[w].cursor[a] < feed[k]
  BY <1>2 DEF Ahead, Api
<1>5. k # q.key /\ Missed(w, k)
  BY <1>2, <1>4 DEF Missed
<1>6. ~Through(w, a) /\ workers[w].cursor[a] < feed[k]
  BY <1>5 DEF Ahead
<1>7. feed[k] \in Nat /\ q.version \in Nat /\ workers[w].cursor[a] \in Nat
  BY <1>2, Rows
<1>8. CASE a = workers[w].api
  <2>1. q.version < feed[k]
    BY <1>3, <1>5, <1>6, <1>8 DEF AtHand
  <2>2. ~q.last
    BY <1>3, <1>5, <1>7, <1>8, <2>1 DEF Newest, Missed
  <2> QED BY <1>1, <1>2, <1>8, <2>1, <2>2 DEF Through
<1>9. CASE a # workers[w].api
  <2>1. workers[w].api = 2 /\ a = 1
    BY <1>2, <1>6, <1>9 DEF Through
  <2>2. workers'[w].pc = "fetch"
    BY <1>1, <2>1, AfterApiRow
  <2> QED BY <1>1, <1>2, <1>6, <2>1, <2>2 DEF Through
<1> QED BY <1>8, <1>9

LEMMA SnapshotStep ==
    ASSUME TypesInv, FeedInv, KnownInv, LogsInv, AloneInv, StagingInv, SnapshotInv, Next
    PROVE  SnapshotInv'
<1> USE Numbers
<1> SUFFICES ASSUME "overlap" \notin causes', NEW v \in Workers, NEW a \in 1..2, Snapshot(v, a)'
             PROVE  /\ workers'[v].pc = "begin" => workers'[v].cursor[a] = 0
                    /\ Paging(v)' => Ahead(v, a)'
  BY DEF SnapshotInv, Ahead, Paging
<1>1. causes \subseteq causes' /\ "overlap" \notin causes
  BY CausesGrow
<1>2. ASSUME workers'[v].req = workers[v].req, workers'[v].clean = workers[v].clean
      PROVE  Snapshot(v, a)
  BY <1>1, <1>2 DEF Snapshot, Open
<1>3. CASE workers'[v].pc = "begin"
  <2>1. ASSUME NEW req \in Requests, StartRun(v, req) PROVE workers'[v].cursor[a] = 0
    BY <2>1, StartRunRow DEF Snapshot
  <2>2. ASSUME Kept(v) PROVE workers'[v].cursor[a] = 0
    <3>1. Snapshot(v, a) /\ workers[v].pc = "begin" /\ workers'[v].cursor = workers[v].cursor
      BY <1>2, <1>3, <2>2 DEF Kept
    <3> QED BY <1>1, <3>1, SnapshotParts
  <2>3. workers'[v].cursor[a] = 0
    BY <1>3, <2>1, <2>2, ArrivesBy, WorkersFlow DEF Arrives
  <2> QED BY <1>3, <2>3 DEF Paging
<1>4. ASSUME Paging(v)' PROVE Ahead(v, a)'
  <2>1. Fetching(v)'
    BY <1>4 DEF Paging, Snapshot, Fetching
  <2>2. ASSUME NEW l \in LogIds, Begin(v, l) PROVE Ahead(v, a)'
    BY <1>1, <2>2, SnapshotBegins
  <2>3. CASE ~Works(v)
    <3>1. Kept(v)
      BY <2>3, WorkersFlow
    <3>2. Snapshot(v, a) /\ Ahead(v, a) /\ Working(v)
      <4>1. Snapshot(v, a) /\ Paging(v)
        BY <1>2, <1>4, <3>1 DEF Kept, Paging
      <4> QED BY <1>1, <4>1, SnapshotParts DEF Paging, Working, Live
    <3>3. ASSUME NEW k \in Keys, Missed(v, k)' PROVE Missed(v, k) /\ feed'[k] = feed[k]
      <4>1. staged'[k].version = staged[k].version /\ staged'[k].seen = staged[k].seen
        BY <1>1, <2>3, <3>2, StagedAlone DEF Works
      <4>2. staged[k].version <= now /\ staged[k].version \in Nat /\ now \in Nat
        BY Rows DEF KnownInv, StagedRow
      <4> QED BY <3>1, <3>3, <4>1, <4>2, FeedMoves DEF Missed, Kept
    <3> QED BY <3>1, <3>2, <3>3 DEF Ahead, Through, Kept, Api
  <2>4. CASE FetchNothing(v) \/ FetchPage(v) \/ StagePage(v)
    <3>1. Snapshot(v, a) /\ workers[v].api \in 1..2 /\ workers[v].cursor \in [1..2 -> Time]
      BY <1>2, <2>4, FetchNothingRow, FetchPageRow, StagePageRow, Rows DEF SameRun, Worker
    <3>2. Ahead(v, a)
      <4>1. Paging(v)
        BY <2>4, FetchNothingRow, FetchPageRow, StagePageRow DEF Paging
      <4> QED BY <1>1, <3>1, <4>1, SnapshotParts
    <3>3. CASE StagePage(v)
      BY <1>1, <3>1, <3>2, <3>3, SnapshotStages
    <3>4. ASSUME FetchNothing(v) \/ FetchPage(v), NEW k \in Keys, Missed(v, k)'
          PROVE  Missed(v, k) /\ feed' = feed
      BY <3>4, FetchNothingRow, FetchPageRow DEF FetchNothing, FetchPage, Missed, SameRun
    <3>5. CASE FetchPage(v)
      <4>1. /\ workers'[v].pc = "stage" /\ workers[v].pc = "fetch"
            /\ workers'[v].api = workers[v].api /\ workers'[v].cursor = workers[v].cursor
        BY <3>5, FetchPageRow
      <4> QED BY <3>2, <3>4, <3>5, <4>1 DEF Ahead, Through, Api
    <3>6. CASE FetchNothing(v)
      <4>1. /\ workers[v].pc = "fetch" /\ workers'[v].api = 1
            /\ workers'[v].cursor = workers[v].cursor
            /\ workers[v].api = 2 => workers'[v].pc = "fetch"
        BY <3>1, <3>6, FetchNothingRow
      <4>2. \A k \in Keys : Api(k) = workers[v].api =>
                feed[k] <= workers[v].cursor[workers[v].api]
        <5>1. /\ NextChanges(workers[v].api, workers[v].cursor[workers[v].api]) = {}
              /\ workers[v].cursor[workers[v].api] \in Time
          BY <3>1, <3>6 DEF FetchNothing
        <5> QED BY <5>1, NothingMore
      <4> SUFFICES ASSUME NEW k \in Keys, Api(k) = a, Missed(v, k)'
                   PROVE  ~Through(v, a)' /\ workers'[v].cursor[a] < feed'[k]
        BY DEF Ahead, Api
      <4>3. Missed(v, k) /\ feed' = feed
        BY <3>4, <3>6
      <4>4. ~Through(v, a) /\ workers[v].cursor[a] < feed[k]
        BY <3>2, <4>3 DEF Ahead
      <4>5. a # workers[v].api
        <5>1. feed[k] \in Nat /\ workers[v].cursor[a] \in Nat
          BY <3>1, Rows
        <5> QED BY <4>2, <4>4, <5>1
      <4>6. workers[v].api = 2 /\ a = 1
        BY <3>1, <4>4, <4>5 DEF Through
      <4> QED BY <4>1, <4>3, <4>4, <4>6 DEF Through
    <3> QED BY <2>4, <3>3, <3>5, <3>6
  <2>5. ~CloseUnseen(v)
    BY <1>4, CloseShape DEF Paging
  <2> QED BY <2>1, <2>2, <2>3, <2>4, <2>5, FetchingFlow
<1> QED BY <1>3, <1>4 DEF Paging

\* A row is hidden only when the snapshot is through and has not seen it, and
\* then Marg does not have it as it was staged.
LEMMA HiddenStep ==
    ASSUME TypesInv, FeedInv, KnownInv, LogsInv, SnapshotInv, HiddenRowsAreGone, Next
    PROVE  HiddenRowsAreGone'
<1> USE Numbers
<1> SUFFICES ASSUME NEW k \in Keys, staged'[k].hidden, feed'[k] = staged'[k].version,
                    "overlap" \notin causes', k \in StockKeys => "hidden" \notin causes'
             PROVE  FALSE
  BY DEF HiddenRowsAreGone
<1>1. causes \subseteq causes'
  BY CausesGrow
<1>2. /\ staged[k].version \in Nat /\ staged[k].version <= now /\ now \in Nat
      /\ staged[k].hidden => staged[k].version > 0
  BY Rows DEF KnownInv, StagedRow
<1>3. CASE staged'[k] = staged[k]
  <2>1. feed'[k] = feed[k]
    BY <1>2, <1>3, FeedMoves
  <2> QED BY <1>1, <1>3, <2>1 DEF HiddenRowsAreGone
<1>4. ASSUME NEW w \in Workers, CloseUnseen(w), Authoritative(w, Api(k)),
             staged[k].seen # workers[w].log, staged[k].version > 0,
             staged'[k].version = staged[k].version
      PROVE  FALSE
  <2>1. Api(k) \in 1..2 /\ (Api(k) = 2 <=> k \in StockKeys)
    BY DEF Api
  <2>2. workers[w].pc = "close" /\ feed' = feed
    BY <1>4 DEF CloseUnseen
  <2>3. Snapshot(w, Api(k))
    BY <1>1, <1>4, <2>1 DEF Snapshot, Open, Authoritative
  <2>4. Ahead(w, Api(k))
    BY <1>1, <2>1, <2>2, <2>3, SnapshotParts DEF Paging
  <2>5. Missed(w, k)
    BY <1>4, <2>2 DEF Missed
  <2> QED BY <2>2, <2>4, <2>5 DEF Ahead, Through
<1>5. \A w \in Workers : ~Upserted(w, k)
  BY DEF Upserted
<1> QED BY <1>3, <1>4, <1>5, StagedFlow

-----------------------------------------------------------------------------
(* The saved pages.                                                        *)

\* Where a page that is saved now comes from, and why it is marked as staged.
LEMMA PageFate ==
    ASSUME TypesInv, LogsInv, Next, NEW p \in pages'
    PROVE  \/ p \in pages
           \/ \E w \in Workers : /\ FetchPage(w)
                 /\ \E k \in NextChanges(workers[w].api, workers[w].cursor[workers[w].api]) :
                       p = SavedPage(w, k)
           \/ \E w \in Workers : StagePage(w)
                 /\ \E o \in pages : IsPage(o, PageId(w)) /\ SamePage(o, p)
           \/ \E w \in Workers : FailStaging(w) /\ p.status # "STAGED"
                 /\ \E o \in pages : SamePage(o, p)
           \/ \E w \in Workers : ReplayPage(w)
                 /\ \E o \in pages : /\ SamePage(o, p) /\ o \in workers[w].page
                                     /\ workers'[w].page = workers[w].page \ {o}
                                     /\ \/ Upsert(o.key, o.version, o.log)
                                        \/ logs[o.log].window # "open"
                                        \/ p.status # "STAGED" /\ workers'[w].bad
<1>1. ASSUME NEW o \in pages, NEW status, p = [o EXCEPT !.status = status]
      PROVE  SamePage(o, p) /\ p.status = status
  <2>1. o \in Page
    BY Typed
  <2> QED BY <1>1, <2>1 DEF SamePage, Page
<1>2. ASSUME NEW w \in Workers, FetchPage(w)
      PROVE  \/ p \in pages
             \/ \E k \in NextChanges(workers[w].api, workers[w].cursor[workers[w].api]) :
                   p = SavedPage(w, k)
  BY <1>2, FetchPageRow
<1>3. ASSUME NEW w \in Workers, NEW status, pages' = MarkPage(w, status), p \notin pages
      PROVE  \E o \in pages : IsPage(o, PageId(w)) /\ p = [o EXCEPT !.status = status]
  BY <1>3 DEF MarkPage
<1>4. ASSUME NEW w \in Workers, StagePage(w), p \notin pages
      PROVE  \E o \in pages : IsPage(o, PageId(w)) /\ SamePage(o, p)
  <2>1. pages' = MarkPage(w, "STAGED")
    BY <1>4 DEF StagePage
  <2> QED BY <1>1, <1>3, <1>4, <2>1
<1>5. ASSUME NEW w \in Workers, FailStaging(w), p \notin pages
      PROVE  p.status # "STAGED" /\ \E o \in pages : SamePage(o, p)
  <2>1. pages' = MarkPage(w, "STAGING_FAILED")
    BY <1>5, FailStagingShape
  <2>2. PICK o \in pages : p = [o EXCEPT !.status = "STAGING_FAILED"]
    BY <1>3, <1>5, <2>1
  <2> QED BY <1>1, <2>2
<1>6. ASSUME NEW w \in Workers, ReplayPage(w), p \notin pages
      PROVE  \E o \in pages : /\ SamePage(o, p) /\ o \in workers[w].page
                              /\ workers'[w].page = workers[w].page \ {o}
                              /\ \/ Upsert(o.key, o.version, o.log)
                                 \/ logs[o.log].window # "open"
                                 \/ p.status # "STAGED" /\ workers'[w].bad
  <2>1. PICK r \in workers[w].page :
           /\ workers'[w].page = workers[w].page \ {r}
           /\ \/ Upsert(r.key, r.version, r.log) /\ pages' = Mark(r, "STAGED")
              \/ logs[r.log].window # "open" /\ pages' = Mark(r, "STAGED")
              \/ workers'[w].bad /\ pages' = Mark(r, "STAGING_FAILED")
    BY <1>6, ReplayPageRow
  <2>2. ASSUME NEW status, pages' = Mark(r, status)
        PROVE  r \in pages /\ SamePage(r, p) /\ p.status = status
    <3>1. r \in pages /\ p = [r EXCEPT !.status = status]
      BY <1>6, <2>2 DEF Mark
    <3> QED BY <1>1, <3>1
  <2> QED BY <2>1, <2>2
<1>7. ASSUME NEW w \in Workers, Works(w)
      PROVE  UNCHANGED pages \/ FetchPage(w) \/ StagePage(w) \/ FailStaging(w) \/ ReplayPage(w)
  BY <1>7, LeavesShape DEF Works, StartRun, StartResume, Begin, FetchNothing, CloseUnseen,
     ProjectAndCommit, FinishLog, FailLog, BeginResume, FinishResumeLog
<1>8. ASSUME NEW j \in Keys, Change(j) \/ Drop(j) PROVE UNCHANGED pages
  BY <1>8 DEF Change, Drop
<1> QED BY <1>2, <1>4, <1>5, <1>6, <1>7, <1>8, Steps, SweepShape, ResetShape DEF Works

LEMMA BegunFlow ==
    ASSUME TypesInv, NEW v \in Workers, Works(v), Begun(v)'
    PROVE  \/ \E l \in LogIds : Begin(v, l)
           \/ /\ \/ FetchNothing(v) \/ FetchPage(v) \/ StagePage(v) \/ CloseUnseen(v)
                 \/ ProjectAndCommit(v)
              /\ Begun(v) /\ workers[v].pc # "finish"
              /\ workers'[v].req = workers[v].req /\ workers'[v].log = workers[v].log
<1>1. \/ \E l \in LogIds : Begin(v, l)
      \/ FetchNothing(v) \/ FetchPage(v) \/ StagePage(v) \/ CloseUnseen(v) \/ ProjectAndCommit(v)
  BY ArrivesBy DEF Arrives, Begun, RunPlaces
<1>2. CASE FetchNothing(v)
  BY <1>2, FetchNothingRow DEF SameRun, Begun, RunPlaces
<1>3. CASE FetchPage(v)
  BY <1>3, FetchPageRow DEF SameRun, Begun, RunPlaces
<1>4. CASE StagePage(v)
  BY <1>4, StagePageRow DEF SameRun, Begun, RunPlaces
<1>5. CASE CloseUnseen(v)
  BY <1>5, CloseShape DEF SameRun, Begun, RunPlaces
<1>6. CASE ProjectAndCommit(v)
  BY <1>6, CommitShape DEF Begun, RunPlaces
<1> QED BY <1>1, <1>2, <1>3, <1>4, <1>5, <1>6

\* The pages of a run were there before, or the run itself saved them; when it
\* begins it has none.
LEMMA OwnPages ==
    ASSUME TypesInv, LogsInv, Next, NEW v \in Workers, Begun(v)',
           NEW p \in pages', p.log = workers'[v].log
    PROVE  /\ ~(\E l \in LogIds : Begin(v, l))
           /\ Begun(v) /\ workers'[v].req = workers[v].req /\ workers'[v].log = workers[v].log
           /\ workers[v].log \in LogIds /\ workers[v].req.mode # "RESUME"
           /\ \/ \E o \in pages : SamePage(o, p)
              \/ /\ FetchPage(v)
                 /\ \E k \in NextChanges(workers[v].api, workers[v].cursor[workers[v].api]) :
                       p = SavedPage(v, k)
<1>1. ASSUME NEW l \in LogIds, Begin(v, l) PROVE FALSE
  <2>1. pages' = pages
    BY <1>1 DEF Begin
  <2>2. logs[l].status = "NONE" /\ workers'[v].log = l
    BY <1>1, BeginRow, BeginLog
  <2> QED BY <2>1, <2>2 DEF LogsInv
<1>2. Begun(v) /\ workers'[v].req = workers[v].req /\ workers'[v].log = workers[v].log
  BY <1>1, BegunFlow, WorkersFlow DEF Kept, Begun
<1>3. workers[v].log \in LogIds /\ workers[v].req.mode # "RESUME"
  BY <1>2, HasALog, Typed DEF Begun, RunPlaces, Place
<1>4. ASSUME NEW w \in Workers, FetchPage(w),
             NEW k \in NextChanges(workers[w].api, workers[w].cursor[workers[w].api]),
             p = SavedPage(w, k)
      PROVE  w = v
  <2>1. p.log = workers[w].log
    BY <1>4 DEF SavedPage
  <2>2. workers[w].req.mode = "FETCH"
    BY <1>4, FetchPageRow, Typed DEF Place
  <2> QED BY <1>2, <1>3, <2>1, <2>2, Numbers DEF LogsInv
<1> QED BY <1>1, <1>2, <1>3, <1>4, PagesFlow

\* A run pages on: every page it saved lies before its cursor.
LEMMA PositionsStep ==
    ASSUME TypesInv, LogsInv, StagingInv, PositionsInv, Next
    PROVE  PositionsInv'
<1> USE Numbers
<1> SUFFICES ASSUME NEW v \in Workers, NEW p \in pages', p.log = workers'[v].log,
                    workers'[v].pc \in {"fetch", "stage"}
             PROVE  Positioned(v, p)'
  BY DEF PositionsInv, Positioned
<1>1. Begun(v)'
  BY DEF Begun, RunPlaces
<1>2. /\ ~(\E l \in LogIds : Begin(v, l))
      /\ Begun(v) /\ workers'[v].req = workers[v].req /\ workers'[v].log = workers[v].log
      /\ FetchPage(v) \/ \E o \in pages : SamePage(o, p)
  BY <1>1, OwnPages
<1>3. /\ workers[v].api \in 1..2 /\ workers[v].cursor \in [1..2 -> Time]
      /\ \A a \in 1..2 : workers[v].cursor[a] \in Nat
      /\ \A o \in pages : o.api \in 1..2 /\ o.at \in Nat
  BY Rows DEF Worker, Page
<1>4. CASE FetchPage(v)
  <2>1. PICK k \in NextChanges(workers[v].api, workers[v].cursor[workers[v].api]) :
           /\ workers'[v].page = {[key |-> k, version |-> feed[k], last |-> IsLastChange(k)]}
           /\ \/ pages' = {r \in pages : ~IsPage(r, PageId(v))} \cup {SavedPage(v, k)}
              \/ pages' = pages
    BY <1>4, FetchPageRow
  <2>2. /\ workers'[v].cursor = workers[v].cursor /\ workers'[v].api = workers[v].api
        /\ workers[v].pc = "fetch" /\ workers'[v].pc = "stage"
    BY <1>4, FetchPageRow
  <2>3. CASE p \in pages
    <3>1. Positioned(v, p)
      BY <1>2, <2>3 DEF PositionsInv
    <3> QED BY <1>3, <2>2, <2>3, <3>1 DEF Positioned
  <2>4. CASE p = SavedPage(v, k)
    <3>1. /\ p.api = workers[v].api /\ p.at = workers[v].cursor[workers[v].api]
          /\ p.key = k /\ p.version = feed[k]
      BY <2>4 DEF SavedPage
    <3>2. \A q \in workers'[v].page : q.key = k /\ q.version = feed[k]
      BY <2>1
    <3> QED BY <1>3, <2>2, <3>1, <3>2 DEF Positioned
  <2> QED BY <2>1, <2>3, <2>4
<1>5. CASE ~FetchPage(v)
  <2>1. PICK o \in pages : SamePage(o, p)
    BY <1>2, <1>5
  <2>2. o.log = workers[v].log /\ Positioned(v, o)
    BY <1>2, <2>1 DEF SamePage, PositionsInv
  <2>3. CASE Kept(v)
    BY <2>1, <2>2, <2>3 DEF Kept, SamePage, Positioned
  <2>4. CASE FetchNothing(v)
    BY <1>3, <2>1, <2>2, <2>4, FetchNothingRow DEF SamePage, Positioned
  <2>5. CASE StagePage(v)
    <3>1. PICK q \in workers[v].page :
             /\ workers'[v].cursor = [workers[v].cursor EXCEPT ![workers[v].api] = q.version]
             /\ workers'[v].pc = IF q.last THEN AfterApi(v).pc ELSE "fetch"
             /\ workers'[v].api = IF q.last THEN 1 ELSE workers[v].api
             /\ q \in Fetched
      BY <2>5, StagePageRow
    <3>2. workers[v].pc = "stage" /\ AtHand(q, v) /\ q.version \in Nat
      BY <2>5, <3>1, StagePageRow, StagingParts DEF Fetched
    <3>3. /\ workers[v].api = 2 => AfterApi(v).pc = "fetch"
          /\ workers[v].api = 1 => AfterApi(v).pc = "close"
      BY AfterApiRow
    <3>4. CASE q.last
      BY <1>3, <2>1, <2>2, <3>1, <3>2, <3>3, <3>4 DEF SamePage, Positioned
    <3>5. CASE ~q.last
      BY <1>3, <2>1, <2>2, <3>1, <3>2, <3>5 DEF SamePage, Positioned, AtHand
    <3> QED BY <3>4, <3>5
  <2>6. CASE Works(v)
    BY <1>2, <1>5, <2>4, <2>5, <2>6, ArrivesBy DEF Arrives
  <2> QED BY <2>3, <2>6, WorkersFlow
<1> QED BY <1>4, <1>5

\* Only the run completes its log while it works; a resume of it would work
\* beside it.
LEMMA UnfinishedStep ==
    ASSUME TypesInv, LogsInv, AloneInv, UnfinishedInv, Next
    PROVE  UnfinishedInv'
<1> USE Numbers
<1> SUFFICES ASSUME NEW v \in Workers, Begun(v)', workers'[v].pc # "finish",
                    "overlap" \notin causes', logs'[workers'[v].log].status = "COMPLETED"
             PROVE  FALSE
  BY DEF UnfinishedInv, Begun
<1>1. "overlap" \notin causes
  BY CausesGrow
<1>2. ASSUME NEW l \in LogIds, Begin(v, l) PROVE FALSE
  BY <1>2, BeginRow, BeginLog
<1>3. Begun(v) /\ workers[v].pc # "finish" /\ workers'[v].log = workers[v].log
  BY <1>2, BegunFlow, WorkersFlow DEF Kept, Begun
<1>4. /\ workers[v].log \in LogIds /\ workers[v].req.mode # "RESUME" /\ Working(v)
      /\ logs[workers[v].log].status # "COMPLETED"
  BY <1>1, <1>3, HasALog, Typed DEF Begun, RunPlaces, Place, UnfinishedInv, Working, Live
<1> DEFINE l == workers[v].log
<1>5. ASSUME NEW w \in Workers, workers[w].log = l, FinishLog(w) PROVE FALSE
  <2>1. workers[w].pc = "finish" /\ workers[w].req.mode # "RESUME"
    BY <1>5, FinishLogWrote DEF FinishLog
  <2>2. w = v
    BY <1>4, <1>5, <2>1 DEF LogsInv
  <2> QED BY <1>3, <2>1, <2>2
<1>6. ASSUME NEW w \in Workers, FinishResumeLog(w) PROVE FALSE
  <2>1. workers[w].pc = "replay" /\ Working(w)
    BY <1>6 DEF FinishResumeLog, Working, Live
  <2>2. w = v
    BY <1>1, <1>4, <2>1 DEF AloneInv
  <2> QED BY <1>3, <2>1, <2>2 DEF Begun, RunPlaces
<1>7. ASSUME NEW w \in Workers, NEW status \in {"FAILED", "RUNNING"}, workers[w].log = l,
             Wrote(w, status)
      PROVE  FALSE
  BY <1>3, <1>7 DEF Wrote
<1>8. ASSUME NEW w \in Workers, Begin(w, l) PROVE FALSE
  BY <1>3, <1>4, <1>8, BeginLog
<1>9. ~LogKept(l) /\ logs'[l] # logs[l]
  BY <1>3, <1>4 DEF LogKept
<1> QED BY <1>4, <1>5, <1>6, <1>7, <1>8, <1>9, LogsFlow

\* What is staged stays staged, unless an old page is replayed.
LEMMA StagedPageStays ==
    ASSUME TypesInv, LogsInv, StagingInv, Next, Clean', NEW o \in pages, NEW p,
           SamePage(o, p), IsStaged(o)
    PROVE  IsStaged(p)'
<1>1. o.key \in Keys /\ o.version \in Nat
  BY Rows, Numbers DEF Page
<1>2. /\ staged[o.key].version \in Nat /\ staged'[o.key].version \in Nat
      /\ staged[o.key].version <= staged'[o.key].version
  BY <1>1, Rows, StagedTyped, StagedGrows, Numbers DEF StagedRow
<1> QED BY <1>1, <1>2 DEF SamePage, IsStaged

\* The page at hand is staged before it is marked.
LEMMA StagedAtHand ==
    ASSUME TypesInv, PositionsInv, NEW w \in Workers, StagePage(w), Open(w),
           NEW o \in pages, IsPage(o, PageId(w)), NEW p, SamePage(o, p)
    PROVE  IsStaged(p)'
<1> USE Numbers
<1>1. PICK q \in workers[w].page : q \in Fetched /\ StageRow(w, q)
  BY StagePageRow
<1>2. workers[w].pc = "stage" /\ workers[w].log \in LogIds
  BY StagePageRow
<1>3. /\ o.log = workers[w].log /\ o.api = workers[w].api
      /\ o.at = workers[w].cursor[workers[w].api]
  BY DEF IsPage, PageId
<1>4. o.key = q.key /\ o.version = q.version
  <2>1. Positioned(w, o)
    BY <1>3 DEF PositionsInv
  <2> QED BY <1>2, <1>3, <2>1 DEF Positioned
<1>5. q.key \in Keys /\ q.version \in Time
  BY <1>1 DEF Fetched
<1>6. Upsert(q.key, q.version, workers[w].log)
  BY <1>1 DEF StageRow, MayFilter, Open
<1>7. staged'[q.key].version = q.version
  BY <1>2, <1>5, <1>6, UpsertRow
<1> QED BY <1>4, <1>5, <1>7 DEF SamePage, IsStaged

LEMMA RunPagesStep ==
    ASSUME TypesInv, LogsInv, StagingInv, PositionsInv, RunPagesInv, Next
    PROVE  RunPagesInv'
<1> SUFFICES ASSUME Clean', NEW v \in Workers, Open(v)', Begun(v)',
                    NEW p \in pages', p.log = workers'[v].log
             PROVE  \/ IsStaged(p)'
                    \/ workers'[v].pc = "stage" /\ IsPage(p, PageId(v))'
  BY DEF RunPagesInv
<1>1. Clean
  BY CausesGrow DEF Clean
<1>2. /\ ~(\E l \in LogIds : Begin(v, l))
      /\ Begun(v) /\ workers'[v].req = workers[v].req /\ workers'[v].log = workers[v].log
      /\ FetchPage(v) \/ \E o \in pages : SamePage(o, p)
  BY OwnPages
<1>3. Open(v)
  BY <1>2 DEF Open
<1>4. CASE FetchPage(v)
  <2>1. PICK k \in NextChanges(workers[v].api, workers[v].cursor[workers[v].api]) :
           \/ pages' = {r \in pages : ~IsPage(r, PageId(v))} \cup {SavedPage(v, k)}
           \/ pages' = pages
    BY <1>4, FetchPageRow
  <2>2. /\ workers'[v].cursor = workers[v].cursor /\ workers'[v].api = workers[v].api
        /\ workers[v].pc = "fetch" /\ workers'[v].pc = "stage"
    BY <1>4, FetchPageRow
  <2>3. CASE p \in pages
    <3>1. IsStaged(p)
      BY <1>1, <1>2, <1>3, <2>2, <2>3 DEF RunPagesInv
    <3> QED BY <2>3, <3>1, StagedPageStays DEF SamePage
  <2>4. CASE p = SavedPage(v, k)
    <3>1. /\ p.log = workers[v].log /\ p.api = workers[v].api
          /\ p.at = workers[v].cursor[workers[v].api]
      BY <2>4 DEF SavedPage
    <3> QED BY <1>2, <2>2, <3>1 DEF IsPage, PageId
  <2> QED BY <2>1, <2>3, <2>4
<1>5. CASE ~FetchPage(v)
  <2>1. PICK o \in pages : SamePage(o, p)
    BY <1>2, <1>5
  <2>2. IsStaged(o) \/ (workers[v].pc = "stage" /\ IsPage(o, PageId(v)))
    BY <1>1, <1>2, <1>3, <2>1 DEF RunPagesInv, SamePage
  <2>3. CASE IsStaged(o)
    BY <2>1, <2>3, StagedPageStays
  <2>4. CASE workers[v].pc = "stage" /\ IsPage(o, PageId(v))
    <3>1. CASE Kept(v)
      BY <2>1, <2>4, <3>1 DEF Kept, IsPage, PageId, SamePage
    <3>2. CASE Works(v)
      <4>1. StagePage(v)
        BY <1>2, <1>5, <2>4, <3>2, BegunFlow DEF FetchNothing, CloseUnseen, ProjectAndCommit
      <4> QED BY <1>3, <2>1, <2>4, <4>1, StagedAtHand
    <3> QED BY <3>1, <3>2, WorkersFlow
  <2> QED BY <2>2, <2>3, <2>4
<1> QED BY <1>4, <1>5

\* A log keeps its window while it has a page.
LEMMA PagesKeepTheirWindow ==
    ASSUME TypesInv, LogsInv, Next, NEW o \in pages
    PROVE  o.log \in LogIds /\ logs'[o.log].window = logs[o.log].window
<1>1. o.log \in LogIds /\ logs[o.log].status # "NONE"
  BY Rows DEF Page, LogsInv
<1> QED BY <1>1, CreatedStays

LEMMA ReplayPagesStep ==
    ASSUME TypesInv, LogsInv, AloneInv, StagingInv, StagedPagesInv, ReplayPagesInv, Next
    PROVE  ReplayPagesInv'
<1> USE Numbers
<1> SUFFICES ASSUME Clean', NEW v \in Workers, workers'[v].pc = "replay", ~workers'[v].bad,
                    NEW p \in pages', p.log = workers'[v].log, logs'[p.log].window = "open"
             PROVE  IsStaged(p)' \/ p \in workers'[v].page
  BY DEF ReplayPagesInv
<1>1. Clean /\ "overlap" \notin causes
  BY CausesGrow DEF Clean
<1>2. CASE BeginResume(v)
  <2>1. /\ pages' = pages /\ workers'[v].page = Unstaged(workers[v].log)
        /\ workers'[v].log = workers[v].log
    BY <1>2, BeginResumeRow DEF BeginResume, SameRun
  <2>2. logs[p.log].window = "open"
    BY <2>1, PagesKeepTheirWindow
  <2>3. CASE p.status = "STAGED"
    <3>1. IsStaged(p)
      BY <1>1, <2>1, <2>2, <2>3 DEF StagedPagesInv
    <3> QED BY <2>1, <3>1, StagedPageStays DEF SamePage
  <2>4. CASE p.status # "STAGED"
    BY <2>1, <2>4 DEF Unstaged
  <2> QED BY <2>3, <2>4
<1>3. CASE ReplayPage(v)
  <2>1. /\ workers[v].pc = "replay" /\ workers'[v].log = workers[v].log /\ logs' = logs
        /\ workers[v].log \in LogIds
    BY <1>3, ReplayPageRow DEF ReplayPage
  <2>2. PICK r \in workers[v].page :
           /\ r \in Page /\ workers'[v].page = workers[v].page \ {r}
           /\ pages' = Mark(r, "STAGED") /\ ~workers[v].bad
           /\ Upsert(r.key, r.version, r.log) \/ logs[r.log].window # "open"
    BY <1>3, ReplayPageRow
  <2>3. PICK o \in pages : p = IF o = r THEN [o EXCEPT !.status = "STAGED"] ELSE o
    BY <2>2 DEF Mark
  <2>4. CASE o = r
    <3>1. p.log = r.log /\ p.key = r.key /\ p.version = r.version
      BY <2>2, <2>3, <2>4 DEF Page
    <3>2. Upsert(r.key, r.version, r.log)
      BY <2>1, <2>2, <3>1
    <3>3. r.key \in Keys /\ r.version \in Time /\ r.log \in LogIds
      BY <2>2 DEF Page
    <3>4. staged'[r.key].version = r.version
      BY <3>2, <3>3, UpsertRow
    <3> QED BY <3>1, <3>3, <3>4 DEF IsStaged
  <2>5. CASE o # r
    <3>1. IsStaged(p) \/ p \in workers[v].page
      BY <1>1, <2>1, <2>2, <2>3, <2>5 DEF ReplayPagesInv
    <3>2. CASE IsStaged(p)
      BY <2>3, <2>5, <3>2, StagedPageStays DEF SamePage
    <3> QED BY <2>2, <2>3, <2>5, <3>1, <3>2
  <2> QED BY <2>4, <2>5
<1>4. CASE ~BeginResume(v) /\ ~ReplayPage(v)
  <2>1. ~Works(v) /\ Kept(v)
    BY <1>4, ArrivesBy, WorkersFlow DEF Arrives
  <2>2. workers[v].pc = "replay" /\ Working(v)
    BY <2>1 DEF Kept, Working, Live
  <2>3. ASSUME NEW w \in Workers,
               FetchPage(w) \/ StagePage(w) \/ FailStaging(w) \/ ReplayPage(w)
        PROVE  FALSE
    <3>1. Working(w)
      BY <2>3 DEF FetchPage, StagePage, FailStaging, ReplayPage, Working, Live
    <3>2. w = v
      BY <1>1, <2>2, <3>1 DEF AloneInv
    <3> QED BY <2>1, <2>3, <3>2 DEF Works
  <2>4. p \in pages
    BY <2>3, PageFate
  <2>5. logs[p.log].window = "open"
    BY <2>4, PagesKeepTheirWindow
  <2>6. IsStaged(p) \/ p \in workers[v].page
    BY <1>1, <2>1, <2>2, <2>4, <2>5 DEF ReplayPagesInv, Kept
  <2>7. CASE IsStaged(p)
    BY <2>4, <2>7, StagedPageStays DEF SamePage
  <2> QED BY <2>1, <2>6, <2>7 DEF Kept
<1> QED BY <1>2, <1>3, <1>4

LEMMA StagedPagesStep ==
    ASSUME TypesInv, LogsInv, StagingInv, PositionsInv, UnfinishedInv, RunPagesInv,
           ReplayPagesInv, StagedPagesInv, Next
    PROVE  StagedPagesInv'
<1> USE Numbers
<1> SUFFICES ASSUME Clean', NEW p \in pages', logs'[p.log].window = "open",
                    p.status = "STAGED" \/ logs'[p.log].status = "COMPLETED"
             PROVE  IsStaged(p)'
  BY DEF StagedPagesInv
<1>1. Clean /\ "overlap" \notin causes
  BY CausesGrow DEF Clean
<1>2. ASSUME NEW w \in Workers, FetchPage(w),
             NEW k \in NextChanges(workers[w].api, workers[w].cursor[workers[w].api]),
             p = SavedPage(w, k)
      PROVE  FALSE
  <2>1. p.status = "PENDING_STAGE" /\ p.log = workers[w].log
    BY <1>2 DEF SavedPage
  <2>2. Begun(w) /\ workers[w].pc = "fetch" /\ logs' = logs
    BY <1>2 DEF FetchPage, Begun, RunPlaces
  <2> QED BY <1>1, <2>1, <2>2 DEF UnfinishedInv
<1>3. ASSUME NEW o \in pages, SamePage(o, p), logs'[p.log].status = "COMPLETED"
      PROVE  IsStaged(o)
  <2>1. o.log \in LogIds /\ logs[o.log].window = "open" /\ logs'[o.log].status = "COMPLETED"
    BY <1>3, PagesKeepTheirWindow DEF SamePage
  <2>2. CASE logs[o.log].status = "COMPLETED"
    BY <1>1, <2>1, <2>2 DEF StagedPagesInv
  <2>3. ASSUME NEW w \in Workers, workers[w].log = o.log, FinishLog(w)
        PROVE  IsStaged(o)
    <3>1. workers[w].pc = "finish" /\ workers[w].req.mode # "RESUME"
      BY <2>3, FinishLogWrote DEF FinishLog
    <3>2. Begun(w) /\ workers[w].log # 0
      BY <2>1, <2>3, <3>1 DEF Begun, RunPlaces
    <3>3. Open(w)
      BY <2>1, <2>3, <3>1, <3>2 DEF Open, LogsInv
    <3> QED BY <1>1, <2>3, <3>1, <3>2, <3>3 DEF RunPagesInv
  <2>4. ASSUME NEW w \in Workers, workers[w].log = o.log, FinishResumeLog(w),
               Wrote(w, ResumeOutcome(w))
        PROVE  IsStaged(o)
    <3>1. ~workers[w].bad
      BY <2>1, <2>4 DEF Wrote, ResumeOutcome
    <3>2. workers[w].pc = "replay" /\ workers[w].page = {}
      BY <2>4 DEF FinishResumeLog
    <3> QED BY <1>1, <2>1, <2>4, <3>1, <3>2 DEF ReplayPagesInv
  <2>5. ASSUME NEW w \in Workers, Begin(w, o.log) PROVE FALSE
    BY <2>1, <2>5, BeginLog
  <2>6. ASSUME NEW w \in Workers, workers[w].log = o.log,
               NEW status \in {"FAILED", "RUNNING"}, Wrote(w, status)
        PROVE  FALSE
    BY <2>1, <2>6 DEF Wrote
  <2>7. logs'[o.log] = logs[o.log] \/ LogKept(o.log) => logs[o.log].status = "COMPLETED"
    BY <2>1 DEF LogKept
  <2> QED BY <2>1, <2>2, <2>3, <2>4, <2>5, <2>6, <2>7, LogsFlow
<1>4. CASE p \in pages
  <2>1. logs[p.log].window = "open"
    BY <1>4, PagesKeepTheirWindow
  <2>2. IsStaged(p)
    BY <1>1, <1>3, <1>4, <2>1 DEF StagedPagesInv, SamePage
  <2> QED BY <1>4, <2>2, StagedPageStays DEF SamePage
<1>5. ASSUME NEW w \in Workers, StagePage(w), NEW o \in pages, IsPage(o, PageId(w)),
             SamePage(o, p)
      PROVE  IsStaged(p)'
  <2>1. o.log = workers[w].log /\ logs[o.log].window = "open"
    BY <1>5, PagesKeepTheirWindow DEF IsPage, PageId, SamePage
  <2>2. workers[w].log \in LogIds /\ workers[w].req.mode = "FETCH" /\ workers[w].log # 0
    BY <1>5, StagePageRow
  <2>3. Open(w)
    BY <2>1, <2>2 DEF Open, LogsInv
  <2> QED BY <1>5, <2>3, StagedAtHand
<1>6. ASSUME NEW o \in pages, SamePage(o, p), Upsert(o.key, o.version, o.log)
      PROVE  IsStaged(p)'
  <2>1. o.key \in Keys /\ o.version \in Time /\ o.log \in LogIds
    BY Rows DEF Page
  <2>2. staged'[o.key].version = o.version
    BY <1>6, <2>1, UpsertRow
  <2> QED BY <1>6, <2>1, <2>2 DEF SamePage, IsStaged
<1>7. ASSUME NEW o \in pages, SamePage(o, p), logs'[p.log].status = "COMPLETED"
      PROVE  IsStaged(p)'
  BY <1>3, <1>7, StagedPageStays
<1>8. \A o \in pages : SamePage(o, p) => logs[o.log].window = "open"
  BY PagesKeepTheirWindow DEF SamePage
<1> QED BY <1>2, <1>4, <1>5, <1>6, <1>7, <1>8, PageFate

-----------------------------------------------------------------------------
(* The invariant is inductive, and says what the runs check.               *)

LEMMA MargInvInit == Init => MargInv
<1> SUFFICES ASSUME Init PROVE MargInv
  OBVIOUS
<1>1. TypesInv
  BY TypesInit
<1>2. /\ feed = InitialFeed /\ logs = [l \in LogIds |-> NoLog] /\ pages = {}
      /\ staged = [k \in Keys |-> [version |-> 0, hidden |-> FALSE, seen |-> 0]]
      /\ causes = {} /\ troubles = 0
  BY DEF Init
<1>3. /\ config.fresh /\ \A a \in 1..2 : config.cursor[a] = 0 /\ config.was[a] = 0
  BY DEF Init
<1>4. \A w \in Workers :
         /\ workers[w].pc = "idle" /\ workers[w].log = 0 /\ workers[w].page = {}
         /\ \A a \in 1..2 : workers[w].cursor[a] = 0 /\ ~workers[w].clean[a]
  BY IdleRow DEF Init
<1>5. \A k \in Keys : staged[k].version = 0 /\ ~staged[k].hidden /\ staged[k].seen = 0
  BY <1>2
<1>6. \A l \in LogIds : logs[l] = NoLog /\ logs[l].status = "NONE" /\ logs[l].cursor = 0
  BY <1>2 DEF NoLog
<1>7. now \in Nat /\ \A k \in Keys : feed[k] \in Nat
  BY <1>1, Rows, Numbers
<1>8. \A a \in 1..2 : Covered(a, 0)
  BY <1>7 DEF Covered
<1>9. FeedInv
  BY <1>2, FirstNow, SyncAssumption DEF FeedInv
<1>10. KnownInv /\ LogsInv
  BY <1>2, <1>4, <1>5, <1>6, <1>7 DEF KnownInv, LogsInv
<1>11. StaleInv /\ AloneInv /\ QuietInv
  BY <1>2, <1>3, <1>4, <1>6 DEF StaleInv, AloneInv, QuietInv, Working, Live
<1>12. StagingInv /\ SnapshotInv
  BY <1>4 DEF StagingInv, SnapshotInv
<1>13. CursorInv
  <2>1. \A l \in LogIds : Covered(2, logs[l].cursor)
    BY <1>6, <1>8
  <2>2. \A a \in 1..2 : Covered(a, config.cursor[a]) /\ Covered(a, config.was[a])
    BY <1>3, <1>8
  <2>3. \A w \in Workers : \A a \in 1..2 : Covered(a, workers[w].cursor[a])
    BY <1>4, <1>8
  <2> QED BY <2>1, <2>2, <2>3 DEF CursorInv
<1>14. JournalInv
  <2>1. Journaled(config.cursor[1], {}) /\ Journaled(config.was[1], {})
    BY <1>3, <1>7 DEF Journaled, Keys
  <2>2. \A w \in Workers : ~Fetching(w) /\ workers[w].pc # "begin"
    BY <1>4 DEF Fetching
  <2> QED BY <2>1, <2>2 DEF JournalInv
<1>15. PagesInv
  BY <1>2, <1>4 DEF PagesInv, PositionsInv, UnfinishedInv, RunPagesInv, ReplayPagesInv,
     StagedPagesInv, Begun, RunPlaces
<1>16. HiddenRowsAreGone
  BY <1>5 DEF HiddenRowsAreGone
<1> QED BY <1>1, <1>9, <1>10, <1>11, <1>12, <1>13, <1>14, <1>15, <1>16 DEF MargInv

\* Nothing but the variables is in the invariant.
LEMMA MargInvStutters == MargInv /\ UNCHANGED vars => MargInv'
<1> SUFFICES ASSUME MargInv, UNCHANGED vars PROVE MargInv'
  OBVIOUS
<1> USE DEF vars
<1>1. TypesInv'
  BY DEF MargInv, TypesInv, MargTypeOK, Place
<1>2. FeedInv' /\ KnownInv' /\ LogsInv' /\ StaleInv' /\ AloneInv' /\ QuietInv'
  BY DEF MargInv, FeedInv, KnownInv, Known, LogsInv, StaleInv, AloneInv, QuietInv, Working, Live
<1>3. StagingInv' /\ CursorInv' /\ HiddenRowsAreGone'
  BY DEF MargInv, StagingInv, CursorInv, Followed, HiddenRowsAreGone, Clean, Covered, Open, Api
<1>4. JournalInv'
  BY DEF MargInv, JournalInv, Journaled, Fetching, Clean, Open
<1>5. SnapshotInv'
  BY DEF MargInv, SnapshotInv, Snapshot, Through, Missed, Open, Api
<1>6. PositionsInv' /\ UnfinishedInv' /\ StagedPagesInv'
  BY DEF MargInv, PagesInv, PositionsInv, Positioned, UnfinishedInv, Begun, StagedPagesInv, Clean,
     IsStaged
<1>7. RunPagesInv' /\ ReplayPagesInv'
  BY DEF MargInv, PagesInv, RunPagesInv, ReplayPagesInv, Begun, Open, Clean, IsStaged, IsPage, PageId
<1> QED BY <1>1, <1>2, <1>3, <1>4, <1>5, <1>6, <1>7 DEF MargInv, PagesInv

LEMMA MargInvStep == MargInv /\ [Next]_vars => MargInv'
<1> SUFFICES ASSUME MargInv, Next PROVE MargInv'
  BY MargInvStutters
<1> USE DEF MargInv, PagesInv
<1>1. TypesInv' /\ FeedInv' /\ KnownInv' /\ LogsInv'
  BY TypesStep, FeedStep, KnownStep, LogsStep
<1>2. StaleInv' /\ AloneInv' /\ QuietInv'
  BY StaleStep, AloneStep, QuietStep
<1>3. StagingInv' /\ CursorInv' /\ JournalInv'
  BY StagingStep, CursorStep, JournalStep
<1>4. SnapshotInv' /\ HiddenRowsAreGone'
  BY SnapshotStep, HiddenStep
<1>5. PositionsInv' /\ UnfinishedInv' /\ RunPagesInv' /\ ReplayPagesInv' /\ StagedPagesInv'
  BY PositionsStep, UnfinishedStep, RunPagesStep, ReplayPagesStep, StagedPagesStep
<1> QED BY <1>1, <1>2, <1>3, <1>4, <1>5

\* The invariant holds throughout.
THEOREM MargInvariant == MargSpec => []MargInv
<1>1. Init => MargInv
  BY MargInvInit
<1>2. MargInv /\ [Next]_vars => MargInv'
  BY MargInvStep
<1> QED BY <1>1, <1>2, PTL DEF MargSpec

\* Type invariant of the rows and of the work in flight.
THEOREM MargTypes == MargSpec => []MargTypeOK
<1>1. MargInv => MargTypeOK
  BY DEF MargInv, TypesInv
<1> QED BY <1>1, MargInvariant, PTL

\* "Sync is already running for this configuration" (runSync, resumeSync): two
\* processes work past the lock together only after a failure, a death or an
\* intervention.
THEOREM RunsExcludeEachOther == MargSpec => []RunsExclude
<1>1. MargInv => RunsExclude
  BY DEF MargInv, TypesInv, MargTypeOK, QuietInv, RunsExclude
<1> QED BY <1>1, MargInvariant, PTL

\* What the saved cursors have passed is staged as Marg last sent it (runSync),
\* unless two runs overlapped, an old page was replayed, or a run moved a cursor
\* without reading; for stock also unless the cursor was recovered from the log
\* of a backfill or of the accounts.
THEOREM CursorCovers == MargSpec => []CursorIsCovered
<1>1. MargInv => CursorIsCovered
  <2> SUFFICES ASSUME MargInv, Clean, NEW k \in Keys, Followed(Api(k)), 0 < feed[k],
                      feed[k] <= config.cursor[Api(k)]
               PROVE  staged[k].version >= feed[k]
    BY DEF CursorIsCovered, PassedIsStaged, Clean, Followed, Api
  <2>1. Api(k) \in 1..2
    BY DEF Api
  <2>2. Covered(Api(k), config.cursor[Api(k)])
    BY <2>1 DEF MargInv, CursorInv
  <2> QED BY <2>2 DEF Covered
<1> QED BY <1>1, MargInvariant, PTL

\* The bills that the saved cursor has passed are in the journal
\* (transformAccountPostingsToJournalEntries), unless a projection failed as well.
THEOREM BillsAreProjected == MargSpec => []PassedBillsAreProjected
<1>1. MargInv => PassedBillsAreProjected
  BY DEF MargInv, JournalInv, Journaled, Clean, PassedBillsAreProjected
<1> QED BY <1>1, MargInvariant, PTL

\* A row that Marg still has as it was staged is hidden (closeUnseenMargOutstandings,
\* markMissingStockAsDeleted) only after an overlap or, if it is stock, after a
\* cursor was recovered from a log or staging was cleared.
THEOREM HiddenAreGone == MargSpec => []HiddenRowsAreGone
<1>1. MargInv => HiddenRowsAreGone
  BY DEF MargInv
<1> QED BY <1>1, MargInvariant, PTL

\* What a page marked STAGED holds (markRawPageStaged), and every page of a log
\* that ended COMPLETED, is staged.
THEOREM CompletedAreStaged == MargSpec => []CompletedLogsAreStaged
<1>1. MargInv => CompletedLogsAreStaged
  BY DEF MargInv, PagesInv, StagedPagesInv, IsStaged, Clean, CompletedLogsAreStaged
<1> QED BY <1>1, MargInvariant, PTL
=============================================================================
