------------------------------ MODULE Insights ------------------------------
(***************************************************************************)
(* The AI insights of one tenant: generation runs that detect conditions   *)
(* in the tenant's data, users who acknowledge, resolve, archive or reopen *)
(* what was detected, and the row both write by id after an unlocked read. *)
(*                                                                         *)
(* A generation run is requested by the six-hourly scheduler, by an        *)
(* administrator or by a pinned report; queued jobs run on several workers *)
(* and are retried, so nothing keeps two runs of one tenant apart.  A      *)
(* retry, a stalled job and a duplicate request are all one more run.      *)
(*                                                                         *)
(* lastEvaluatedAt is only ever compared with the start of a run that is   *)
(* under way, so the model keeps that comparison and not the clock:        *)
(* fresh[k] is the set of workers whose current run started no later than  *)
(* the row's lastEvaluatedAt.  Texts, severities, narration, the audit     *)
(* events, lastStatus and the summary cache are left out.                  *)
(***************************************************************************)
EXTENDS Naturals

CONSTANTS
  Workers,      \* places a run can be under way: queue workers, inline calls
  Users,        \* signed-in users changing insights
  Keys,         \* the dedupe keys of all providers
  Providers,    \* the registered insight providers
  ProviderOf,   \* ProviderOf[k]: the provider that detects k
  MaxFaults     \* bound on failed queries, failed writes and crashes

ASSUME InsightsAssumption ==
  /\ Keys # {}
  /\ ProviderOf \in [Keys -> Providers]
  /\ MaxFaults \in Nat

VARIABLES
  status,   \* status[k]: the row's status, "NONE" while there is no row
  fresh,    \* fresh[k]: workers whose run is not newer than lastEvaluatedAt
  jobs,     \* jobs[w]: the run under way at w
  elders,   \* elders[w]: workers whose run started no later than w's
  edits,    \* edits[u]: the transition user u has checked and not written
  faults,   \* failures so far
  alone,    \* history: the worker whose run has overlapped no other run
  touched   \* history: the keys users wrote during the run that is alone

vars == <<status, fresh, jobs, elders, edits, faults, alone, touched>>

Open == {"NEW", "ACTIVE"}
Statuses == Open \union {"ACKNOWLEDGED", "RESOLVED", "ARCHIVED"}
Stages == {"idle", "next", "upsert", "write", "record"}

Job(pc, todo, provider, cands, left, key, read) ==
  [pc |-> pc, todo |-> todo, provider |-> provider, cands |-> cands,
   left |-> left, key |-> key, read |-> read]
AnyProvider == CHOOSE p \in Providers : TRUE
AnyKey == CHOOSE k \in Keys : TRUE
Idle == Job("idle", {}, AnyProvider, {}, {}, AnyKey, "NONE")
Between(todo) == Job("next", todo, AnyProvider, {}, {}, AnyKey, "NONE")
Upserting(j, left) ==
  Job("upsert", j.todo, j.provider, j.cands, left, AnyKey, "NONE")

\* The transitions a user may ask for, to acknowledge, resolve, archive and
\* reopen an insight: from which status to which.
Transitions ==
  (Open \X {"ACKNOWLEDGED"})
  \union ((Open \union {"ACKNOWLEDGED"}) \X {"RESOLVED"})
  \union ((Open \union {"ACKNOWLEDGED", "RESOLVED"}) \X {"ARCHIVED"})
  \union ({"ACKNOWLEDGED", "RESOLVED", "ARCHIVED"} \X {"ACTIVE"})
NoEdit == [key |-> AnyKey, to |-> "NONE"]

KeysOf(p) == {k \in Keys : ProviderOf[k] = p}
Busy == {w \in Workers : jobs[w].pc # "idle"}

\* Mutated: a redetected condition leaves a resolved insight resolved.
NextStatusesKeepResolved(s) ==
  IF s = "NEW" THEN Open ELSE IF s = "ARCHIVED" THEN {"ACTIVE"} ELSE {s}

\* What an update makes of the status it read.  A NEW insight becomes ACTIVE
\* once it is a day old, whose age is left open here; a closed one is surfaced
\* again.
NextStatuses(s) ==
  IF s = "NEW" THEN Open
  ELSE IF s \in {"RESOLVED", "ARCHIVED"} THEN {"ACTIVE"} ELSE {s}

\* Mutated: acknowledged insights are archived too.
ArchivableAnyOpen(w, k) ==
  /\ ProviderOf[k] = jobs[w].provider
  /\ status[k] \in Open \union {"ACKNOWLEDGED"}
  /\ w \notin fresh[k]

\* Mutated: an insight still NEW is not archived.
ArchivableActive(w, k) ==
  /\ ProviderOf[k] = jobs[w].provider
  /\ status[k] = "ACTIVE"
  /\ w \notin fresh[k]

\* Open insights of the provider that this run has not detected again.
Archivable(w, k) ==
  /\ ProviderOf[k] = jobs[w].provider
  /\ status[k] \in Open
  /\ w \notin fresh[k]

-----------------------------------------------------------------------------
\* A run: its start is taken and the enabled providers are read, once.  Those
\* among the providers asked for (all of them, or the pinned reports) run; as
\* administrators switch providers on and off at any time, that is any subset.
\* A tenant whose AI is not enabled is skipped before, which changes nothing.
Begin(w, runnable) ==
  /\ jobs[w].pc = "idle"
  /\ jobs' = [jobs EXCEPT ![w] = Between(runnable)]
  /\ elders' = [elders EXCEPT ![w] = Busy \union {w}]
  /\ alone' = IF Busy = {} THEN {w} ELSE {}
  /\ touched' = {}
  /\ UNCHANGED <<status, fresh, edits, faults>>

\* The provider queries the tenant's data, which may show any of its
\* conditions, and returns them as candidates.
Generate(w) ==
  /\ jobs[w].pc = "next"
  /\ \E p \in jobs[w].todo : \E found \in SUBSET KeysOf(p) :
       jobs' = [jobs EXCEPT ![w] =
                  Job("upsert", jobs[w].todo \ {p}, p, found, found, AnyKey,
                      "NONE")]
  /\ UNCHANGED <<status, fresh, elders, edits, faults, alone, touched>>

\* The query fails: the provider is recorded as failed and left.
GenerateFails(w) ==
  /\ faults < MaxFaults
  /\ jobs[w].pc = "next"
  /\ \E p \in jobs[w].todo :
       jobs' = [jobs EXCEPT ![w] = Between(jobs[w].todo \ {p})]
  /\ faults' = faults + 1
  /\ UNCHANGED <<status, fresh, elders, edits, alone, touched>>

\* upsertInsight looks for the row of the candidate.
ReadExisting(w) ==
  /\ jobs[w].pc = "upsert"
  /\ \E k \in jobs[w].left :
       jobs' = [jobs EXCEPT ![w] =
                  Job("write", jobs[w].todo, jobs[w].provider, jobs[w].cands,
                      jobs[w].left, k, status[k])]
  /\ UNCHANGED <<status, fresh, elders, edits, faults, alone, touched>>

\* Mutated: an existing row keeps its lastEvaluatedAt.
WriteInsightUndated(w) ==
  LET k == jobs[w].key
      left == jobs[w].left \ {k}
  IN /\ jobs[w].pc = "write"
     /\ jobs[w].read # "NONE" \/ status[k] = "NONE"
     /\ IF jobs[w].read = "NONE"
          THEN /\ status' = [status EXCEPT ![k] = "NEW"]
               /\ fresh' = [fresh EXCEPT ![k] = elders[w]]
          ELSE /\ \E s \in NextStatuses(jobs[w].read) :
                    status' = [status EXCEPT ![k] = s]
               /\ UNCHANGED fresh
     /\ jobs' = [jobs EXCEPT ![w] = Upserting(jobs[w], left)]
     /\ UNCHANGED <<elders, edits, faults, alone, touched>>

\* ... and creates it, or updates it by its id to what the status read says,
\* dated with the start of the run.
WriteInsight(w) ==
  LET k == jobs[w].key
      left == jobs[w].left \ {k}
  IN /\ jobs[w].pc = "write"
     /\ jobs[w].read # "NONE" \/ status[k] = "NONE"
     /\ \E s \in IF jobs[w].read = "NONE" THEN {"NEW"}
                                         ELSE NextStatuses(jobs[w].read) :
          status' = [status EXCEPT ![k] = s]
     /\ fresh' = [fresh EXCEPT ![k] = elders[w]]
     /\ jobs' = [jobs EXCEPT ![w] = Upserting(jobs[w], left)]
     /\ UNCHANGED <<elders, edits, faults, alone, touched>>

\* The row was created by another run after it was looked for: the unique key
\* refuses this one, and the provider is recorded as failed.
CreateConflicts(w) ==
  /\ jobs[w].pc = "write"
  /\ jobs[w].read = "NONE"
  /\ status[jobs[w].key] # "NONE"
  /\ jobs' = [jobs EXCEPT ![w] = Between(jobs[w].todo)]
  /\ UNCHANGED <<status, fresh, elders, edits, faults, alone, touched>>

\* Any other error on the way to the archival has the same end.
UpsertFails(w) ==
  /\ faults < MaxFaults
  /\ jobs[w].pc \in {"upsert", "write"}
  /\ jobs' = [jobs EXCEPT ![w] = Between(jobs[w].todo)]
  /\ faults' = faults + 1
  /\ UNCHANGED <<status, fresh, elders, edits, alone, touched>>

\* One statement archives what has not been detected again.
ArchiveCleared(w) ==
  /\ jobs[w].pc = "upsert"
  /\ jobs[w].left = {}
  /\ status' = [k \in Keys |-> IF Archivable(w, k) THEN "ARCHIVED"
                                                   ELSE status[k]]
  /\ jobs' = [jobs EXCEPT ![w] =
                Job("record", jobs[w].todo, jobs[w].provider, jobs[w].cands,
                    {}, AnyKey, "NONE")]
  /\ UNCHANGED <<fresh, elders, edits, faults, alone, touched>>

\* The provider is recorded as successful; a failure to do so is swallowed.
RecordProviderRun(w) ==
  /\ jobs[w].pc = "record"
  /\ jobs' = [jobs EXCEPT ![w] = Between(jobs[w].todo)]
  /\ UNCHANGED <<status, fresh, elders, edits, faults, alone, touched>>

\* The run at w is over: nothing will be compared with its start again.
Leave(w) ==
  /\ jobs' = [jobs EXCEPT ![w] = Idle]
  /\ fresh' = [k \in Keys |-> fresh[k] \ {w}]
  /\ elders' = [v \in Workers |-> IF v = w THEN {} ELSE elders[v] \ {w}]
  /\ alone' = {}
  /\ touched' = {}

\* All providers have had their turn.
Finish(w) ==
  /\ jobs[w].pc = "next"
  /\ jobs[w].todo = {}
  /\ Leave(w)
  /\ UNCHANGED <<status, edits, faults>>

\* The worker dies; the queue hands the job to a later run.
Crash(w) ==
  /\ faults < MaxFaults
  /\ jobs[w].pc # "idle"
  /\ Leave(w)
  /\ faults' = faults + 1
  /\ UNCHANGED <<status, edits>>
-----------------------------------------------------------------------------
\* transition() reads the row and checks where the transition may start.
CheckTransition(u) ==
  /\ edits[u] = NoEdit
  /\ \E k \in Keys, to \in Statuses :
       /\ <<status[k], to>> \in Transitions
       /\ edits' = [edits EXCEPT ![u] = [key |-> k, to |-> to]]
  /\ UNCHANGED <<status, fresh, jobs, elders, faults, alone, touched>>

\* ... and writes the row by its id, with the event, in a transaction.
WriteTransition(u) ==
  LET k == edits[u].key
  IN /\ edits[u] # NoEdit
     /\ status' = [status EXCEPT ![k] = edits[u].to]
     /\ edits' = [edits EXCEPT ![u] = NoEdit]
     /\ touched' = IF alone = {} THEN {} ELSE touched \union {k}
     /\ UNCHANGED <<fresh, jobs, elders, faults, alone>>

\* The transaction fails or the caller is gone.
DropTransition(u) ==
  /\ edits[u] # NoEdit
  /\ edits' = [edits EXCEPT ![u] = NoEdit]
  /\ UNCHANGED <<status, fresh, jobs, elders, faults, alone, touched>>
-----------------------------------------------------------------------------
Init ==
  /\ status = [k \in Keys |-> "NONE"]
  /\ fresh = [k \in Keys |-> {}]
  /\ jobs = [w \in Workers |-> Idle]
  /\ elders = [w \in Workers |-> {}]
  /\ edits = [u \in Users |-> NoEdit]
  /\ faults = 0
  /\ alone = {}
  /\ touched = {}

RunStep(w) ==
  \/ Generate(w)
  \/ ReadExisting(w)
  \/ WriteInsight(w)
  \/ CreateConflicts(w)
  \/ ArchiveCleared(w)
  \/ RecordProviderRun(w)
  \/ Finish(w)

WorkerStep(w) ==
  \/ \E runnable \in SUBSET Providers : Begin(w, runnable)
  \/ RunStep(w)
  \/ GenerateFails(w)
  \/ UpsertFails(w)
  \/ Crash(w)

UserStep(u) ==
  \/ CheckTransition(u)
  \/ WriteTransition(u)
  \/ DropTransition(u)

InsightsNext ==
  \/ \E w \in Workers : WorkerStep(w)
  \/ \E u \in Users : UserStep(u)

\* A run that is under way goes on.  Nothing makes one begin: the scheduler is
\* off by default, and only enabled providers run.
Fairness == \A w \in Workers : WF_vars(RunStep(w))

InsightsSpec == Init /\ [][InsightsNext]_vars /\ Fairness
-----------------------------------------------------------------------------
\* Every row, run and transition is one the code can be in the middle of.
InsightsTypeOK ==
  /\ status \in [Keys -> Statuses \union {"NONE"}]
  /\ fresh \in [Keys -> SUBSET Workers]
  /\ jobs \in [Workers ->
                 [pc : Stages, todo : SUBSET Providers, provider : Providers,
                  cands : SUBSET Keys, left : SUBSET Keys, key : Keys,
                  read : Statuses \union {"NONE"}]]
  /\ elders \in [Workers -> SUBSET Workers]
  /\ edits \in [Users -> [key : Keys, to : Statuses \union {"NONE"}]]
  /\ \A u \in Users : edits[u] # NoEdit => /\ edits[u].to \in Statuses
                                           /\ status[edits[u].key] # "NONE"
  /\ \A w \in Workers : jobs[w].read # "NONE" => status[jobs[w].key] # "NONE"
  /\ faults \in 0 .. MaxFaults
  /\ alone \subseteq Workers
  /\ touched \subseteq Keys

\* A run of one provider that overlapped no other run leaves exactly what it
\* detected on display: every insight of the provider that no user touched
\* meanwhile is open only if it was detected, and shown (open or acknowledged)
\* if it was.  The upserts and the archival of generateForTenant do this
\* together, through lastEvaluatedAt.
SoleRunSettles ==
  \A w \in alone : jobs[w].pc = "record" =>
    \A k \in KeysOf(jobs[w].provider) \ touched :
      /\ status[k] \in Open => k \in jobs[w].cands
      /\ k \in jobs[w].cands => status[k] \in Open \union {"ACKNOWLEDGED"}

\* What a user decided about an insight is undone without a user only when the
\* condition is detected again on a closed insight, or by a run that had read
\* the row before the decision and writes it by id; archival never undoes it.
DecisionsStand ==
  [][\A k \in Keys :
       /\ status[k] \in Statuses \ Open
       /\ status'[k] # status[k]
       /\ edits' = edits
       => \E w \in Workers :
            /\ jobs[w].pc = "write" /\ jobs[w].key = k
            /\ \/ jobs[w].read # status[k]
               \/ status[k] # "ACKNOWLEDGED" /\ status'[k] = "ACTIVE"]_vars

\* The run at w has queried the provider of k.
Queried(w, k) ==
  /\ jobs[w].pc \in {"upsert", "write", "record"}
  /\ jobs[w].provider = ProviderOf[k]

\* The run at w is yet to query the provider of k, or has.
Concerns(w, k) == ProviderOf[k] \in jobs[w].todo \/ Queried(w, k)

\* An insight that no run detects any more does not stay open if its provider
\* keeps being run, by the scheduler or by hand: the archival of
\* generateForTenant closes it, whatever other runs and users do meanwhile.
ClearedInsightsClose ==
  \A k \in Keys :
    /\ <>[](\A w \in Workers : Queried(w, k) => k \notin jobs[w].cands)
    /\ []<>(\E w \in Workers : ProviderOf[k] \in jobs[w].todo)
    => []<>(status[k] \notin Open)

\* An insight that every run detects is shown and stays so, however it was
\* closed before, if its provider keeps being run, its runs no longer overlap
\* and users leave it alone: what upsertInsight surfaces no archival takes back.
LiveInsightsStay ==
  \A k \in Keys :
    /\ <>[](\A w \in Workers : Queried(w, k) => k \in jobs[w].cands)
    /\ []<>(\E w \in Workers : ProviderOf[k] \in jobs[w].todo)
    /\ <>[](\A v, w \in Workers : Concerns(v, k) /\ Concerns(w, k) => v = w)
    /\ <>[](\A u \in Users : edits[u] # NoEdit => edits[u].key # k)
    => <>[](status[k] \in Open \union {"ACKNOWLEDGED"})
=============================================================================
