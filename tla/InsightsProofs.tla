--------------------------- MODULE InsightsProofs ---------------------------
(***************************************************************************)
(* Proofs about Insights, for any workers, users, keys and providers.      *)
(***************************************************************************)
EXTENDS Insights, TLAPS

Shown == Open \union {"ACKNOWLEDGED"}
JobType ==
  [pc : Stages, todo : SUBSET Providers, provider : Providers,
   cands : SUBSET Keys, left : SUBSET Keys, key : Keys,
   read : Statuses \union {"NONE"}]

\* Only runs that are under way are compared with a row or with another run.
UnderWay ==
  /\ \A k \in Keys : fresh[k] \subseteq Busy
  /\ \A w \in Workers : elders[w] \subseteq Busy

\* What w, alone since its run began, knows of its own provider: the rows it
\* has evaluated are dated by it and shown, the others are not dated by it.
Settling(w) ==
  LET j == jobs[w]
  IN /\ j.left \subseteq j.cands
     /\ j.provider \notin j.todo
     /\ j.pc \in {"upsert", "write"} =>
          \A k \in KeysOf(j.provider) :
            /\ k \in j.left \/ k \notin j.cands => w \notin fresh[k]
            /\ k \in j.cands \ j.left => w \in fresh[k]
            /\ k \in (j.cands \ j.left) \ touched => status[k] \in Shown
     /\ j.pc = "write" =>
          /\ j.key \in j.left
          /\ j.key \in KeysOf(j.provider)
          /\ j.key \notin touched => j.read = status[j.key]
     /\ j.pc = "record" =>
          \A k \in KeysOf(j.provider) \ touched :
            /\ status[k] \in Open => k \in j.cands
            /\ k \in j.cands => status[k] \in Shown

\* ... and that it has dated no row of a provider it has still to run.
Sole(w) ==
  /\ w \in Busy
  /\ \A v \in Busy : v = w
  /\ w \in elders[w]
  /\ \A k \in Keys : ProviderOf[k] \in jobs[w].todo => w \notin fresh[k]
  /\ jobs[w].cands \subseteq KeysOf(jobs[w].provider)
  /\ jobs[w].pc \in {"upsert", "write", "record"} => Settling(w)

Solitude == \A w \in alone : Sole(w)

InsightsInv == InsightsTypeOK /\ UnderWay /\ Solitude
-----------------------------------------------------------------------------
(* Constants and constructors.                                             *)

\* The placeholders of a job that is between providers are of the right type.
LEMMA AnyTypes == AnyProvider \in Providers /\ AnyKey \in Keys
<1>1. AnyKey \in Keys
  BY InsightsAssumption DEF AnyKey
<1>2. ProviderOf[AnyKey] \in Providers
  BY <1>1, InsightsAssumption
<1>3. AnyProvider \in Providers
  BY <1>2 DEF AnyProvider
<1> QED BY <1>1, <1>3

\* What the constructor of a job builds.
LEMMA JobTyped ==
  ASSUME NEW pc \in Stages, NEW todo \in SUBSET Providers,
         NEW p \in Providers, NEW cands \in SUBSET Keys,
         NEW left \in SUBSET Keys, NEW k \in Keys,
         NEW s \in Statuses \union {"NONE"}
  PROVE  Job(pc, todo, p, cands, left, k, s) \in JobType
  BY DEF Job, JobType

\* An update makes a status of the status it read, and only resolved and
\* archived insights change to ACTIVE.
LEMMA NextStatusesTyped ==
  ASSUME NEW s \in Statuses
  PROVE  /\ NextStatuses(s) \subseteq Statuses
         /\ NextStatuses(s) \subseteq Shown
         /\ s = "ACKNOWLEDGED" => NextStatuses(s) = {"ACKNOWLEDGED"}
         /\ s \in {"RESOLVED", "ARCHIVED"} => NextStatuses(s) = {"ACTIVE"}
  BY DEF NextStatuses, Statuses, Open, Shown

\* A transition starts from a row.
LEMMA TransitionTyped ==
  ASSUME NEW s \in Statuses \union {"NONE"}, NEW to, <<s, to>> \in Transitions
  PROVE  s \in Statuses
  BY DEF Transitions, Statuses, Open

LEMMA NoneIsNoStatus == "NONE" \notin Statuses
  BY DEF Statuses, Open

-----------------------------------------------------------------------------
(* The type invariant.                                                     *)

Jobs == [Workers -> JobType]

LEMMA TypesInit == Init => InsightsTypeOK
<1> SUFFICES ASSUME Init PROVE InsightsTypeOK
  OBVIOUS
<1>1. Idle \in JobType
  BY AnyTypes, JobTyped DEF Idle, Stages
<1>2. jobs \in Jobs /\ \A w \in Workers : jobs[w].read = "NONE"
  BY <1>1 DEF Init, Jobs, Idle, Job
<1>3. edits \in [Users -> [key : Keys, to : Statuses \union {"NONE"}]]
  BY AnyTypes DEF Init, NoEdit
<1>4. faults \in 0 .. MaxFaults
  BY InsightsAssumption DEF Init
<1> QED BY <1>2, <1>3, <1>4 DEF Init, InsightsTypeOK, Jobs, JobType

LEMMA TypesNext ==
  ASSUME InsightsTypeOK, [InsightsNext]_vars
  PROVE  InsightsTypeOK'
<1> USE DEF JobType
<1>t. jobs \in Jobs
  BY DEF InsightsTypeOK, Jobs
\* A step that moves one job on and leaves the rows and the users alone.
<1>m. ASSUME NEW w \in Workers, NEW j \in JobType,
             jobs' = [jobs EXCEPT ![w] = j],
             j.read # "NONE" => status[j.key] # "NONE",
             status' = status, edits' = edits
      PROVE  /\ jobs' \in Jobs
             /\ \A v \in Workers : jobs'[v].read # "NONE"
                                     => status'[jobs'[v].key] # "NONE"
  <2>1. jobs' \in Jobs
    BY <1>t, <1>m DEF Jobs
  <2>2. \A v \in Workers : jobs'[v] = IF v = w THEN j ELSE jobs[v]
    BY <1>t, <1>m DEF Jobs
  <2> QED BY <2>1, <2>2, <1>m DEF InsightsTypeOK
<1>b. ASSUME NEW todo \in SUBSET Providers
      PROVE  /\ Between(todo) \in JobType
             /\ Between(todo).read = "NONE"
  <2>1. Between(todo) \in JobType
    BY AnyTypes, JobTyped DEF Between, Stages
  <2>2. Between(todo).read = "NONE"
    BY DEF Between, Job
  <2> QED BY <2>1, <2>2
<1>i. Idle \in JobType /\ Idle.read = "NONE"
  <2>1. Idle \in JobType
    BY AnyTypes, JobTyped DEF Idle, Stages
  <2>2. Idle.read = "NONE"
    BY DEF Idle, Job
  <2> QED BY <2>1, <2>2
<1>f. /\ faults \in Nat
      /\ faults < MaxFaults => faults + 1 \in 0 .. MaxFaults
  BY InsightsAssumption DEF InsightsTypeOK
<1>l. ASSUME NEW w \in Workers, Leave(w), status' = status, edits' = edits,
             faults' \in 0 .. MaxFaults
      PROVE  InsightsTypeOK'
  <2>1. jobs' = [jobs EXCEPT ![w] = Idle]
    BY <1>l DEF Leave
  <2>2. /\ jobs' \in Jobs
        /\ \A v \in Workers : jobs'[v].read # "NONE"
                                => status'[jobs'[v].key] # "NONE"
    BY <2>1, <1>i, <1>m, <1>l
  <2>3. /\ fresh' \in [Keys -> SUBSET Workers]
        /\ elders' \in [Workers -> SUBSET Workers]
        /\ alone' = {} /\ touched' = {}
    BY <1>l DEF Leave, InsightsTypeOK
  <2> QED BY <2>2, <2>3, <1>l DEF InsightsTypeOK, Jobs
\* The rows after one of them was written: no row disappears.
<1>w. ASSUME NEW k \in Keys, NEW s \in Statuses,
             status' = [status EXCEPT ![k] = s]
      PROVE  /\ status' \in [Keys -> Statuses \union {"NONE"}]
             /\ \A h \in Keys : status[h] # "NONE" => status'[h] # "NONE"
  <2>1. \A h \in Keys : status'[h] = IF h = k THEN s ELSE status[h]
    BY <1>w DEF InsightsTypeOK
  <2> QED BY <2>1, <1>w, NoneIsNoStatus DEF InsightsTypeOK
<1>1. CASE UNCHANGED vars
  BY <1>1 DEF vars, InsightsTypeOK
<1>2. ASSUME NEW w \in Workers, WorkerStep(w) PROVE InsightsTypeOK'
  <2>a. /\ jobs[w] \in JobType
        /\ jobs[w].read # "NONE" => status[jobs[w].key] # "NONE"
    BY <1>t DEF Jobs, InsightsTypeOK
  <2>1. ASSUME NEW runnable \in SUBSET Providers, Begin(w, runnable)
        PROVE  InsightsTypeOK'
    <3>1. /\ jobs' \in Jobs
          /\ \A v \in Workers : jobs'[v].read # "NONE"
                                  => status'[jobs'[v].key] # "NONE"
      BY <2>1, <1>m, <1>b DEF Begin
    <3>2. /\ elders' \in [Workers -> SUBSET Workers]
          /\ alone' \subseteq Workers /\ touched' \subseteq Keys
      BY <2>1 DEF Begin, InsightsTypeOK, Busy
    <3> QED BY <3>1, <3>2, <2>1 DEF Begin, InsightsTypeOK, Jobs
  <2>2. CASE Generate(w)
    <3>0. PICK p \in jobs[w].todo : \E found \in SUBSET KeysOf(p) :
            jobs' = [jobs EXCEPT ![w] =
                       Job("upsert", jobs[w].todo \ {p}, p, found, found,
                           AnyKey, "NONE")]
      BY <2>2 DEF Generate
    <3>1. PICK found \in SUBSET KeysOf(p) :
            jobs' = [jobs EXCEPT ![w] =
                       Job("upsert", jobs[w].todo \ {p}, p, found, found,
                           AnyKey, "NONE")]
      BY <3>0
    <3> DEFINE j == Job("upsert", jobs[w].todo \ {p}, p, found, found, AnyKey,
                        "NONE")
    <3>2. /\ p \in Providers /\ jobs[w].todo \ {p} \in SUBSET Providers
          /\ found \in SUBSET Keys
      BY <2>a DEF KeysOf
    <3>3. j \in JobType
      BY <3>2, AnyTypes, JobTyped DEF Stages
    <3>4. j.read = "NONE"
      BY DEF Job
    <3>5. jobs' = [jobs EXCEPT ![w] = j]
      BY <3>1
    <3> HIDE DEF j
    <3> QED BY <3>3, <3>4, <3>5, <2>2, <1>m DEF Generate, InsightsTypeOK, Jobs
  <2>3. CASE ReadExisting(w)
    <3>1. PICK k \in jobs[w].left :
            jobs' = [jobs EXCEPT ![w] =
                       Job("write", jobs[w].todo, jobs[w].provider,
                           jobs[w].cands, jobs[w].left, k, status[k])]
      BY <2>3 DEF ReadExisting
    <3> DEFINE j == Job("write", jobs[w].todo, jobs[w].provider, jobs[w].cands,
                        jobs[w].left, k, status[k])
    <3>2. k \in Keys /\ status[k] \in Statuses \union {"NONE"}
      BY <2>a DEF InsightsTypeOK
    <3>3. j \in JobType
      BY <3>2, <2>a, JobTyped DEF Stages
    <3>4. j.read = status[k] /\ j.key = k
      BY DEF Job
    <3>5. jobs' = [jobs EXCEPT ![w] = j]
      BY <3>1
    <3> HIDE DEF j
    <3> QED
      BY <3>3, <3>4, <3>5, <2>3, <1>m DEF ReadExisting, InsightsTypeOK, Jobs
  <2>4. CASE WriteInsight(w)
    <3> DEFINE k == jobs[w].key
               j == Upserting(jobs[w], jobs[w].left \ {k})
    <3>1. PICK s \in IF jobs[w].read = "NONE" THEN {"NEW"}
                                              ELSE NextStatuses(jobs[w].read) :
            status' = [status EXCEPT ![k] = s]
      BY <2>4 DEF WriteInsight
    <3>2. s \in Statuses
      <4>1. CASE jobs[w].read = "NONE"
        BY <4>1, <3>1 DEF Statuses, Open
      <4>2. CASE jobs[w].read # "NONE"
        BY <4>2, <3>1, <2>a, NextStatusesTyped
      <4> QED BY <4>1, <4>2
    <3>3. k \in Keys
      BY <2>a
    <3>4. /\ status' \in [Keys -> Statuses \union {"NONE"}]
          /\ \A h \in Keys : status[h] # "NONE" => status'[h] # "NONE"
      BY <3>1, <3>2, <3>3, <1>w
    <3>5. j \in JobType
      BY <2>a, AnyTypes, JobTyped DEF Upserting, Stages
    <3>6. j.read = "NONE"
      BY DEF Upserting, Job
    <3>7. jobs' = [jobs EXCEPT ![w] = j]
      BY <2>4 DEF WriteInsight
    <3> HIDE DEF j
    <3>8. /\ jobs' \in Jobs
          /\ \A v \in Workers : jobs'[v] = IF v = w THEN j ELSE jobs[v]
      BY <3>5, <3>7, <1>t DEF Jobs
    <3>9. \A v \in Workers : jobs'[v].read # "NONE"
                               => status'[jobs'[v].key] # "NONE"
      BY <3>4, <3>6, <3>8, <1>t DEF InsightsTypeOK, Jobs
    <3>10. fresh' \in [Keys -> SUBSET Workers]
      BY <2>4 DEF WriteInsight, InsightsTypeOK
    <3>11. \A u \in Users : edits[u] # NoEdit => status'[edits[u].key] # "NONE"
      BY <3>4 DEF InsightsTypeOK
    <3> QED BY <2>4, <3>4, <3>8, <3>9, <3>10, <3>11
            DEF WriteInsight, InsightsTypeOK, Jobs
  <2>5. ASSUME jobs' = [jobs EXCEPT ![w] = Between(jobs[w].todo)],
               faults' \in 0 .. MaxFaults,
               UNCHANGED <<status, fresh, elders, edits, alone, touched>>
        PROVE  InsightsTypeOK'
    BY <2>5, <2>a, <1>b, <1>m DEF InsightsTypeOK, Jobs
  <2>6. CASE CreateConflicts(w) \/ RecordProviderRun(w)
    BY <2>5, <2>6 DEF CreateConflicts, RecordProviderRun, InsightsTypeOK
  <2>7. CASE UpsertFails(w)
    BY <2>5, <2>7, <1>f DEF UpsertFails
  <2>8. CASE GenerateFails(w)
    <3>1. PICK p \in jobs[w].todo :
            jobs' = [jobs EXCEPT ![w] = Between(jobs[w].todo \ {p})]
      BY <2>8 DEF GenerateFails
    <3>2. jobs[w].todo \ {p} \in SUBSET Providers
      BY <2>a
    <3> QED BY <3>1, <3>2, <2>8, <1>b, <1>m, <1>f
            DEF GenerateFails, InsightsTypeOK, Jobs
  <2>9. CASE ArchiveCleared(w)
    <3> DEFINE j == Job("record", jobs[w].todo, jobs[w].provider,
                        jobs[w].cands, {}, AnyKey, "NONE")
    <3>1. j \in JobType
      BY <2>a, AnyTypes, JobTyped DEF Stages
    <3>2. j.read = "NONE"
      BY DEF Job
    <3>3. jobs' = [jobs EXCEPT ![w] = j]
      BY <2>9 DEF ArchiveCleared
    <3> HIDE DEF j
    <3>4. /\ jobs' \in Jobs
          /\ \A v \in Workers : jobs'[v] = IF v = w THEN j ELSE jobs[v]
      BY <3>1, <3>3, <1>t DEF Jobs
    <3>5. /\ status' \in [Keys -> Statuses \union {"NONE"}]
          /\ \A h \in Keys : status[h] # "NONE" => status'[h] # "NONE"
      BY <2>9 DEF ArchiveCleared, InsightsTypeOK, Statuses
    <3>6. \A v \in Workers : jobs'[v].read # "NONE"
                               => status'[jobs'[v].key] # "NONE"
      BY <3>2, <3>4, <3>5, <1>t DEF InsightsTypeOK, Jobs
    <3>7. \A u \in Users : edits[u] # NoEdit => status'[edits[u].key] # "NONE"
      BY <3>5 DEF InsightsTypeOK
    <3> QED BY <2>9, <3>4, <3>5, <3>6, <3>7
            DEF ArchiveCleared, InsightsTypeOK, Jobs
  <2>10. CASE Finish(w)
    BY <2>10, <1>l DEF Finish, InsightsTypeOK
  <2>11. CASE Crash(w)
    BY <2>11, <1>l, <1>f DEF Crash
  <2> QED BY <1>2, <2>1, <2>2, <2>3, <2>4, <2>6, <2>7, <2>8, <2>9, <2>10,
             <2>11 DEF WorkerStep, RunStep
<1>3. ASSUME NEW u \in Users, UserStep(u) PROVE InsightsTypeOK'
  <2>1. CASE CheckTransition(u)
    <3>1. PICK k \in Keys, to \in Statuses :
            /\ <<status[k], to>> \in Transitions
            /\ edits' = [edits EXCEPT ![u] = [key |-> k, to |-> to]]
      BY <2>1 DEF CheckTransition
    <3>2. status[k] # "NONE"
      BY <3>1, TransitionTyped, NoneIsNoStatus DEF InsightsTypeOK
    <3>3. \A v \in Users : edits'[v] = IF v = u THEN [key |-> k, to |-> to]
                                                ELSE edits[v]
      BY <3>1 DEF InsightsTypeOK
    <3>4. edits' \in [Users -> [key : Keys, to : Statuses \union {"NONE"}]]
      BY <3>1 DEF InsightsTypeOK
    <3> QED BY <2>1, <3>2, <3>3, <3>4 DEF CheckTransition, InsightsTypeOK
  <2>2. CASE WriteTransition(u)
    <3> DEFINE k == edits[u].key
    <3>1. edits[u].to \in Statuses /\ k \in Keys
      BY <2>2 DEF WriteTransition, InsightsTypeOK
    <3>2. /\ status' \in [Keys -> Statuses \union {"NONE"}]
          /\ \A h \in Keys : status[h] # "NONE" => status'[h] # "NONE"
      BY <2>2, <3>1, <1>w DEF WriteTransition
    <3>3. \A v \in Users : edits'[v] = IF v = u THEN NoEdit ELSE edits[v]
      BY <2>2 DEF WriteTransition, InsightsTypeOK
    <3>4. edits' \in [Users -> [key : Keys, to : Statuses \union {"NONE"}]]
      BY <2>2, AnyTypes DEF WriteTransition, InsightsTypeOK, NoEdit
    <3>5. touched' \subseteq Keys
      BY <2>2, <3>1 DEF WriteTransition, InsightsTypeOK
    <3> QED BY <2>2, <3>2, <3>3, <3>4, <3>5 DEF WriteTransition, InsightsTypeOK
  <2>3. CASE DropTransition(u)
    <3>1. \A v \in Users : edits'[v] = IF v = u THEN NoEdit ELSE edits[v]
      BY <2>3 DEF DropTransition, InsightsTypeOK
    <3>2. edits' \in [Users -> [key : Keys, to : Statuses \union {"NONE"}]]
      BY <2>3, AnyTypes DEF DropTransition, InsightsTypeOK, NoEdit
    <3> QED BY <2>3, <3>1, <3>2 DEF DropTransition, InsightsTypeOK
  <2> QED BY <1>3, <2>1, <2>2, <2>3 DEF UserStep
<1> QED BY <1>1, <1>2, <1>3 DEF InsightsNext

-----------------------------------------------------------------------------
(* Runs under way.                                                         *)

\* A step of the run at w keeps the set of runs under way unless it is the
\* first or the last one.
LEMMA BusyAfter ==
  ASSUME InsightsTypeOK, NEW w \in Workers, NEW j \in JobType,
         jobs' = [jobs EXCEPT ![w] = j]
  PROVE  /\ jobs'[w] = j
         /\ \A v \in Workers \ {w} : jobs'[v] = jobs[v]
         /\ j.pc # "idle" => Busy' = Busy \union {w}
         /\ j.pc = "idle" => Busy' = Busy \ {w}
<1>1. /\ jobs'[w] = j
      /\ \A v \in Workers \ {w} : jobs'[v] = jobs[v]
  BY DEF InsightsTypeOK
<1> QED BY <1>1 DEF Busy

\* The jobs that a step of a run that goes on leaves behind.
LEMMA BetweenTyped ==
  ASSUME NEW todo \in SUBSET Providers
  PROVE  /\ Between(todo) \in JobType
         /\ Between(todo).pc = "next"
         /\ Between(todo).todo = todo
         /\ Between(todo).cands = {}
<1>1. Between(todo) \in JobType
  BY AnyTypes, JobTyped DEF Between, Stages
<1> QED BY <1>1 DEF Between, Job

LEMMA IdleTyped == Idle \in JobType /\ Idle.pc = "idle"
<1>1. Idle \in JobType
  BY AnyTypes, JobTyped DEF Idle, Stages
<1> QED BY <1>1 DEF Idle, Job

LEMMA UnderWayInit == Init => UnderWay
  BY DEF Init, UnderWay

LEMMA UnderWayNext ==
  ASSUME InsightsTypeOK, UnderWay, [InsightsNext]_vars
  PROVE  UnderWay'
<1>t. \A w \in Workers : jobs[w] \in JobType
  BY DEF InsightsTypeOK, JobType
\* A step of a run that goes on, dating at most one row.
<1>g. ASSUME NEW w \in Workers, w \in Busy, NEW j \in JobType, j.pc # "idle",
             jobs' = [jobs EXCEPT ![w] = j],
             \A k \in Keys : fresh'[k] = fresh[k] \/ fresh'[k] = elders[w],
             elders' = elders
      PROVE  UnderWay'
  <2>1. Busy' = Busy \union {w}
    BY <1>g, BusyAfter
  <2>2. Busy' = Busy
    BY <2>1, <1>g
  <2> QED BY <2>2, <1>g DEF UnderWay
<1>l. ASSUME NEW w \in Workers, Leave(w) PROVE UnderWay'
  <2>1. Busy' = Busy \ {w}
    BY <1>l, IdleTyped, BusyAfter DEF Leave
  <2> QED BY <2>1, <1>l DEF UnderWay, Leave
<1>1. CASE UNCHANGED vars
  BY <1>1 DEF vars, UnderWay, Busy
<1>2. ASSUME NEW w \in Workers, WorkerStep(w) PROVE UnderWay'
  <2>1. ASSUME NEW runnable \in SUBSET Providers, Begin(w, runnable)
        PROVE  UnderWay'
    <3>1. Busy' = Busy \union {w}
      BY <2>1, BetweenTyped, BusyAfter DEF Begin
    <3>2. \A v \in Workers :
            elders'[v] = IF v = w THEN Busy \union {w} ELSE elders[v]
      BY <2>1 DEF Begin, InsightsTypeOK
    <3> QED BY <3>1, <3>2, <2>1 DEF Begin, UnderWay
  <2>2. CASE Generate(w)
    <3>0. PICK p \in jobs[w].todo : \E found \in SUBSET KeysOf(p) :
            jobs' = [jobs EXCEPT ![w] =
                       Job("upsert", jobs[w].todo \ {p}, p, found, found,
                           AnyKey, "NONE")]
      BY <2>2 DEF Generate
    <3>1. PICK found \in SUBSET KeysOf(p) :
            jobs' = [jobs EXCEPT ![w] =
                       Job("upsert", jobs[w].todo \ {p}, p, found, found,
                           AnyKey, "NONE")]
      BY <3>0
    <3> DEFINE j == Job("upsert", jobs[w].todo \ {p}, p, found, found, AnyKey,
                        "NONE")
    <3>2. /\ p \in Providers /\ jobs[w].todo \ {p} \in SUBSET Providers
          /\ found \in SUBSET Keys
      BY <1>t DEF JobType, KeysOf
    <3>3. j \in JobType
      BY <3>2, AnyTypes, JobTyped DEF Stages
    <3>4. j.pc = "upsert"
      BY DEF Job
    <3>5. jobs' = [jobs EXCEPT ![w] = j]
      BY <3>1
    <3> HIDE DEF j
    <3> QED BY <3>3, <3>4, <3>5, <2>2, <1>g DEF Generate, Busy
  <2>3. CASE ReadExisting(w)
    <3>1. PICK k \in jobs[w].left :
            jobs' = [jobs EXCEPT ![w] =
                       Job("write", jobs[w].todo, jobs[w].provider,
                           jobs[w].cands, jobs[w].left, k, status[k])]
      BY <2>3 DEF ReadExisting
    <3> DEFINE j == Job("write", jobs[w].todo, jobs[w].provider, jobs[w].cands,
                        jobs[w].left, k, status[k])
    <3>2. k \in Keys /\ status[k] \in Statuses \union {"NONE"}
      BY <1>t DEF InsightsTypeOK, JobType
    <3>3. j \in JobType
      BY <3>2, <1>t, JobTyped DEF JobType, Stages
    <3>4. j.pc = "write"
      BY DEF Job
    <3>5. jobs' = [jobs EXCEPT ![w] = j]
      BY <3>1
    <3> HIDE DEF j
    <3> QED BY <3>3, <3>4, <3>5, <2>3, <1>g DEF ReadExisting, Busy
  <2>4. CASE WriteInsight(w)
    <3> DEFINE j == Upserting(jobs[w], jobs[w].left \ {jobs[w].key})
    <3>1. j \in JobType
      BY <1>t, AnyTypes, JobTyped DEF Upserting, JobType, Stages
    <3>2. j.pc = "upsert"
      BY DEF Upserting, Job
    <3>3. jobs' = [jobs EXCEPT ![w] = j]
      BY <2>4 DEF WriteInsight
    <3>4. \A k \in Keys : fresh'[k] = fresh[k] \/ fresh'[k] = elders[w]
      BY <2>4 DEF WriteInsight, InsightsTypeOK
    <3> HIDE DEF j
    <3> QED BY <3>1, <3>2, <3>3, <3>4, <2>4, <1>g DEF WriteInsight, Busy
  <2>5. CASE CreateConflicts(w) \/ RecordProviderRun(w) \/ UpsertFails(w)
    <3>1. jobs[w].todo \in SUBSET Providers
      BY <1>t DEF JobType
    <3> QED BY <2>5, <3>1, BetweenTyped, <1>g
            DEF CreateConflicts, RecordProviderRun, UpsertFails, Busy
  <2>6. CASE GenerateFails(w)
    <3>1. PICK p \in jobs[w].todo :
            jobs' = [jobs EXCEPT ![w] = Between(jobs[w].todo \ {p})]
      BY <2>6 DEF GenerateFails
    <3>2. jobs[w].todo \ {p} \in SUBSET Providers
      BY <1>t DEF JobType
    <3> QED BY <3>1, <3>2, <2>6, BetweenTyped, <1>g DEF GenerateFails, Busy
  <2>7. CASE ArchiveCleared(w)
    <3> DEFINE j == Job("record", jobs[w].todo, jobs[w].provider,
                        jobs[w].cands, {}, AnyKey, "NONE")
    <3>1. j \in JobType
      BY <1>t, AnyTypes, JobTyped DEF JobType, Stages
    <3>2. j.pc = "record"
      BY DEF Job
    <3>3. jobs' = [jobs EXCEPT ![w] = j]
      BY <2>7 DEF ArchiveCleared
    <3> HIDE DEF j
    <3> QED BY <3>1, <3>2, <3>3, <2>7, <1>g DEF ArchiveCleared, Busy
  <2>8. CASE Finish(w) \/ Crash(w)
    BY <2>8, <1>l DEF Finish, Crash
  <2> QED BY <1>2, <2>1, <2>2, <2>3, <2>4, <2>5, <2>6, <2>7, <2>8
          DEF WorkerStep, RunStep
<1>3. ASSUME NEW u \in Users, UserStep(u) PROVE UnderWay'
  BY <1>3 DEF UserStep, CheckTransition, WriteTransition, DropTransition,
              UnderWay, Busy
<1> QED BY <1>1, <1>2, <1>3 DEF InsightsNext

-----------------------------------------------------------------------------
(* The run that overlaps no other.                                         *)

LEMMA SolitudeInit == Init => Solitude
  BY DEF Init, Solitude

LEMMA SolitudeNext ==
  ASSUME InsightsTypeOK, UnderWay, Solitude, [InsightsNext]_vars
  PROVE  Solitude'
<1>t. \A w \in Workers : jobs[w] \in JobType
  BY DEF InsightsTypeOK, JobType
\* A run that goes on is alone only if it is the only one under way.
<1>g. ASSUME NEW w \in Workers, w \in Busy, NEW j \in JobType, j.pc # "idle",
             jobs' = [jobs EXCEPT ![w] = j],
             alone' = alone, elders' = elders,
             w \in alone =>
               /\ \A k \in Keys : ProviderOf[k] \in j.todo => w \notin fresh'[k]
               /\ j.cands \subseteq KeysOf(j.provider)
               /\ j.pc \in {"upsert", "write", "record"} => Settling(w)'
      PROVE  Solitude'
  <2> SUFFICES ASSUME NEW v \in alone' PROVE Sole(v)'
    BY DEF Solitude
  <2>1. Busy' = Busy \union {w} /\ jobs'[w] = j
    BY <1>g, BusyAfter
  <2>2. Sole(v)
    BY <1>g DEF Solitude
  <2>3. v = w
    BY <2>2, <1>g DEF Sole
  <2>4. Busy' = Busy
    BY <2>1, <1>g
  <2>5. /\ w \in Busy'
        /\ \A x \in Busy' : x = w
        /\ w \in elders'[w]
    BY <2>2, <2>3, <2>4, <1>g DEF Sole
  <2>6. /\ \A k \in Keys : ProviderOf[k] \in j.todo => w \notin fresh'[k]
        /\ j.cands \subseteq KeysOf(j.provider)
        /\ j.pc \in {"upsert", "write", "record"} => Settling(w)'
    BY <2>3, <1>g
  <2> QED BY <2>1, <2>3, <2>5, <2>6 DEF Sole, KeysOf
<1>l. ASSUME NEW w \in Workers, Leave(w) PROVE Solitude'
  BY <1>l DEF Leave, Solitude
\* The provider the run is at is left: the row dates have not changed.
<1>b. ASSUME NEW w \in Workers, w \in Busy, NEW todo \in SUBSET jobs[w].todo,
             jobs' = [jobs EXCEPT ![w] = Between(todo)],
             UNCHANGED <<fresh, elders, alone>>
      PROVE  Solitude'
  <2>1. todo \in SUBSET Providers
    BY <1>t DEF JobType
  <2>2. w \in alone => \A k \in Keys :
                         ProviderOf[k] \in jobs[w].todo => w \notin fresh[k]
    BY DEF Solitude, Sole
  <2> DEFINE j == Between(todo)
  <2>3. /\ j \in JobType /\ j.pc = "next" /\ j.todo = todo /\ j.cands = {}
        /\ jobs' = [jobs EXCEPT ![w] = j]
    BY <2>1, <1>b, BetweenTyped
  <2> HIDE DEF j
  <2>4. w \in alone =>
          /\ \A k \in Keys : ProviderOf[k] \in j.todo => w \notin fresh'[k]
          /\ j.cands \subseteq KeysOf(j.provider)
          /\ j.pc \in {"upsert", "write", "record"} => Settling(w)'
    BY <2>2, <2>3, <1>b
  <2> QED BY <2>3, <2>4, <1>b, <1>g
<1>1. CASE UNCHANGED vars
  BY <1>1 DEF vars, Solitude, Sole, Settling, Busy, KeysOf
<1>2. ASSUME NEW w \in Workers, WorkerStep(w) PROVE Solitude'
  <2>a. w \in alone => Sole(w)
    BY DEF Solitude
  <2>1. ASSUME NEW runnable \in SUBSET Providers, Begin(w, runnable)
        PROVE  Solitude'
    <3> SUFFICES ASSUME NEW v \in alone' PROVE Sole(v)'
      BY DEF Solitude
    <3>1. Busy = {} /\ v = w
      BY <2>1 DEF Begin
    <3>2. /\ Busy' = Busy \union {w}
          /\ jobs'[w] = Between(runnable)
      BY <2>1, BetweenTyped, BusyAfter DEF Begin
    <3>3. w \in elders'[w]
      BY <2>1 DEF Begin, InsightsTypeOK
    <3>4. \A k \in Keys : w \notin fresh'[k]
      BY <2>1, <3>1 DEF Begin, UnderWay
    <3>5. jobs'[w].pc = "next" /\ jobs'[w].cands = {}
      BY <3>2, BetweenTyped
    <3> QED BY <3>1, <3>2, <3>3, <3>4, <3>5 DEF Sole
  <2>2. CASE Generate(w)
    <3>0. PICK p \in jobs[w].todo : \E found \in SUBSET KeysOf(p) :
            jobs' = [jobs EXCEPT ![w] =
                       Job("upsert", jobs[w].todo \ {p}, p, found, found,
                           AnyKey, "NONE")]
      BY <2>2 DEF Generate
    <3>1. PICK found \in SUBSET KeysOf(p) :
            jobs' = [jobs EXCEPT ![w] =
                       Job("upsert", jobs[w].todo \ {p}, p, found, found,
                           AnyKey, "NONE")]
      BY <3>0
    <3> DEFINE j == Job("upsert", jobs[w].todo \ {p}, p, found, found, AnyKey,
                        "NONE")
    <3>2. /\ p \in Providers /\ jobs[w].todo \ {p} \in SUBSET Providers
          /\ found \in SUBSET Keys
      BY <1>t DEF JobType, KeysOf
    <3>3. j \in JobType
      BY <3>2, AnyTypes, JobTyped DEF Stages
    <3>4. /\ j.pc = "upsert" /\ j.todo = jobs[w].todo \ {p} /\ j.provider = p
          /\ j.cands = found /\ j.left = found
      BY DEF Job
    <3>5. jobs' = [jobs EXCEPT ![w] = j]
      BY <3>1
    <3> HIDE DEF j
    <3>6. w \in alone => \A k \in Keys :
                           ProviderOf[k] \in jobs[w].todo => w \notin fresh[k]
      BY <2>a DEF Sole
    <3>7. jobs'[w] = j
      BY <3>3, <3>5, BusyAfter
    <3>8. w \in alone => Settling(w)'
      BY <3>4, <3>6, <3>7, <2>2 DEF Generate, Settling, KeysOf
    <3> QED BY <3>3, <3>4, <3>5, <3>6, <3>8, <2>2, <1>g DEF Generate, Busy
  <2>3. CASE ReadExisting(w)
    <3>1. PICK k \in jobs[w].left :
            jobs' = [jobs EXCEPT ![w] =
                       Job("write", jobs[w].todo, jobs[w].provider,
                           jobs[w].cands, jobs[w].left, k, status[k])]
      BY <2>3 DEF ReadExisting
    <3> DEFINE j == Job("write", jobs[w].todo, jobs[w].provider, jobs[w].cands,
                        jobs[w].left, k, status[k])
    <3>2. k \in Keys /\ status[k] \in Statuses \union {"NONE"}
      BY <1>t DEF InsightsTypeOK, JobType
    <3>3. j \in JobType
      BY <3>2, <1>t, JobTyped DEF JobType, Stages
    <3>4. /\ j.pc = "write" /\ j.todo = jobs[w].todo
          /\ j.provider = jobs[w].provider /\ j.cands = jobs[w].cands
          /\ j.left = jobs[w].left /\ j.key = k /\ j.read = status[k]
      BY DEF Job
    <3>5. jobs' = [jobs EXCEPT ![w] = j]
      BY <3>1
    <3> HIDE DEF j
    <3>6. jobs'[w] = j
      BY <3>3, <3>5, BusyAfter
    <3>7. w \in alone => /\ Settling(w) /\ Sole(w)
      BY <2>a, <2>3 DEF Sole, ReadExisting
    <3>8. w \in alone => k \in KeysOf(jobs[w].provider)
      BY <3>7 DEF Settling, Sole
    <3>9. w \in alone => Settling(w)'
      BY <3>4, <3>6, <3>7, <3>8, <2>3 DEF ReadExisting, Settling, KeysOf
    <3>10. w \in alone =>
            /\ \A h \in Keys : ProviderOf[h] \in j.todo => w \notin fresh'[h]
            /\ j.cands \subseteq KeysOf(j.provider)
      BY <3>4, <3>7, <2>3 DEF ReadExisting, Sole
    <3>11. w \in Busy /\ alone' = alone /\ elders' = elders
      BY <2>3 DEF ReadExisting, Busy
    <3>12. j.pc # "idle"
      BY <3>4
    <3> QED BY <3>3, <3>5, <3>9, <3>10, <3>11, <3>12, <1>g
  <2>4. CASE WriteInsight(w)
    <3> DEFINE k == jobs[w].key
               j == Upserting(jobs[w], jobs[w].left \ {jobs[w].key})
    <3>1. j \in JobType
      BY <1>t, AnyTypes, JobTyped DEF Upserting, JobType, Stages
    <3>2. /\ j.pc = "upsert" /\ j.todo = jobs[w].todo
          /\ j.provider = jobs[w].provider /\ j.cands = jobs[w].cands
          /\ j.left = jobs[w].left \ {k}
      BY DEF Upserting, Job
    <3>3. jobs' = [jobs EXCEPT ![w] = j]
      BY <2>4 DEF WriteInsight
    <3> HIDE DEF j
    <3>4. jobs'[w] = j
      BY <3>1, <3>3, BusyAfter
    <3>5. /\ \A h \in Keys : fresh'[h] = IF h = k THEN elders[w] ELSE fresh[h]
          /\ k \in Keys
      BY <2>4, <1>t DEF WriteInsight, InsightsTypeOK, JobType
    <3>6. PICK s \in IF jobs[w].read = "NONE" THEN {"NEW"}
                                              ELSE NextStatuses(jobs[w].read) :
            status' = [status EXCEPT ![k] = s]
      BY <2>4 DEF WriteInsight
    <3>7. s \in Shown
      <4>1. CASE jobs[w].read = "NONE"
        BY <4>1, <3>6 DEF Shown, Open
      <4>2. CASE jobs[w].read # "NONE"
        BY <4>2, <3>6, <1>t, NextStatusesTyped DEF JobType
      <4> QED BY <4>1, <4>2
    <3>8. \A h \in Keys : status'[h] = IF h = k THEN s ELSE status[h]
      BY <3>6 DEF InsightsTypeOK
    <3>9. w \in alone => Settling(w) /\ Sole(w)
      BY <2>a, <2>4 DEF Sole, WriteInsight
    <3>10. w \in alone => /\ k \in jobs[w].left /\ k \in jobs[w].cands
                          /\ ProviderOf[k] = jobs[w].provider
                          /\ w \in elders[w]
      BY <3>9, <2>4 DEF Settling, Sole, WriteInsight, KeysOf
    <3>11. w \in alone => Settling(w)'
      <4> SUFFICES ASSUME w \in alone PROVE Settling(w)'
        OBVIOUS
      <4>1. /\ j.left \subseteq j.cands
            /\ j.provider \notin j.todo
        BY <3>2, <3>9 DEF Settling
      <4>2. ASSUME NEW h \in KeysOf(j.provider)
            PROVE  /\ h \in j.left \/ h \notin j.cands => w \notin fresh'[h]
                   /\ h \in j.cands \ j.left => w \in fresh'[h]
                   /\ h \in (j.cands \ j.left) \ touched
                        => status'[h] \in Shown
        <5>1. h \in Keys /\ h \in KeysOf(jobs[w].provider)
          BY <3>2 DEF KeysOf
        <5>2. CASE h = k
          BY <5>1, <5>2, <3>2, <3>5, <3>7, <3>8, <3>10
        <5>3. CASE h # k
          BY <5>1, <5>3, <3>2, <3>5, <3>8, <3>9, <2>4 DEF Settling, WriteInsight
        <5> QED BY <5>2, <5>3
      <4>3. touched' = touched
        BY <2>4 DEF WriteInsight
      <4> QED BY <4>1, <4>2, <4>3, <3>2, <3>4 DEF Settling, KeysOf
    <3>12. w \in alone =>
            /\ \A h \in Keys : ProviderOf[h] \in j.todo => w \notin fresh'[h]
            /\ j.cands \subseteq KeysOf(j.provider)
      BY <3>2, <3>5, <3>9, <3>10 DEF Sole, Settling
    <3>13. w \in Busy /\ alone' = alone /\ elders' = elders
      BY <2>4 DEF WriteInsight, Busy
    <3>14. j.pc # "idle"
      BY <3>2
    <3> QED BY <3>1, <3>3, <3>11, <3>12, <3>13, <3>14, <1>g
  <2>5. CASE CreateConflicts(w) \/ RecordProviderRun(w) \/ UpsertFails(w)
    <3>1. /\ w \in Busy
          /\ jobs' = [jobs EXCEPT ![w] = Between(jobs[w].todo)]
          /\ UNCHANGED <<fresh, elders, alone>>
      BY <2>5 DEF CreateConflicts, RecordProviderRun, UpsertFails, Busy
    <3> QED BY <3>1, <1>b
  <2>6. CASE GenerateFails(w)
    <3>1. PICK p \in jobs[w].todo :
            jobs' = [jobs EXCEPT ![w] = Between(jobs[w].todo \ {p})]
      BY <2>6 DEF GenerateFails
    <3>2. w \in Busy /\ UNCHANGED <<fresh, elders, alone>>
      BY <2>6 DEF GenerateFails, Busy
    <3>3. jobs[w].todo \ {p} \in SUBSET jobs[w].todo
      OBVIOUS
    <3> QED BY <3>1, <3>2, <3>3, <1>b
  <2>7. CASE ArchiveCleared(w)
    <3> DEFINE j == Job("record", jobs[w].todo, jobs[w].provider,
                        jobs[w].cands, {}, AnyKey, "NONE")
    <3>1. j \in JobType
      BY <1>t, AnyTypes, JobTyped DEF JobType, Stages
    <3>2. /\ j.pc = "record" /\ j.todo = jobs[w].todo /\ j.left = {}
          /\ j.provider = jobs[w].provider /\ j.cands = jobs[w].cands
      BY DEF Job
    <3>3. jobs' = [jobs EXCEPT ![w] = j]
      BY <2>7 DEF ArchiveCleared
    <3> HIDE DEF j
    <3>4. jobs'[w] = j
      BY <3>1, <3>3, BusyAfter
    <3>5. w \in alone => Settling(w) /\ Sole(w)
      BY <2>a, <2>7 DEF Sole, ArchiveCleared
    <3>6. \A k \in Keys : status'[k] = IF Archivable(w, k) THEN "ARCHIVED"
                                                          ELSE status[k]
      BY <2>7 DEF ArchiveCleared
    <3>7. /\ jobs[w].pc = "upsert" /\ jobs[w].left = {}
          /\ fresh' = fresh /\ touched' = touched
      BY <2>7 DEF ArchiveCleared
    <3>8. w \in alone => Settling(w)'
      <4> SUFFICES ASSUME w \in alone PROVE Settling(w)'
        OBVIOUS
      <4>1. ASSUME NEW k \in KeysOf(jobs[w].provider) \ touched
            PROVE  /\ status'[k] \in Open => k \in jobs[w].cands
                   /\ k \in jobs[w].cands => status'[k] \in Shown
        <5>0. k \in Keys /\ ProviderOf[k] = jobs[w].provider
          BY DEF KeysOf
        <5>1. CASE k \in jobs[w].cands
          <6>1. w \in fresh[k] /\ status[k] \in Shown
            BY <5>1, <3>5, <3>7 DEF Settling
          <6> QED BY <6>1, <5>0, <5>1, <3>6 DEF Archivable
        <5>2. CASE k \notin jobs[w].cands
          <6>1. w \notin fresh[k]
            BY <5>2, <3>5, <3>7 DEF Settling
          <6> QED BY <6>1, <5>0, <5>2, <3>6 DEF Archivable, Open
        <5> QED BY <5>1, <5>2
      <4>2. jobs[w].provider \notin jobs[w].todo
        BY <3>5 DEF Settling
      <4> QED BY <4>1, <4>2, <3>2, <3>4, <3>7 DEF Settling, KeysOf
    <3>9. w \in alone =>
            /\ \A k \in Keys : ProviderOf[k] \in j.todo => w \notin fresh'[k]
            /\ j.cands \subseteq KeysOf(j.provider)
      BY <3>2, <3>5, <3>7 DEF Sole
    <3>10. w \in Busy /\ alone' = alone /\ elders' = elders
      BY <2>7 DEF ArchiveCleared, Busy
    <3>11. j.pc # "idle"
      BY <3>2
    <3> QED BY <3>1, <3>3, <3>8, <3>9, <3>10, <3>11, <1>g
  <2>8. CASE Finish(w) \/ Crash(w)
    BY <2>8, <1>l DEF Finish, Crash
  <2> QED BY <1>2, <2>1, <2>2, <2>3, <2>4, <2>5, <2>6, <2>7, <2>8
          DEF WorkerStep, RunStep
<1>3. ASSUME NEW u \in Users, UserStep(u) PROVE Solitude'
  <2>1. CASE CheckTransition(u) \/ DropTransition(u)
    BY <2>1 DEF CheckTransition, DropTransition, Solitude, Sole, Settling, Busy,
                KeysOf
  <2>2. CASE WriteTransition(u)
    <3> SUFFICES ASSUME NEW w \in alone' PROVE Sole(w)'
      BY DEF Solitude
    <3> DEFINE k == edits[u].key
    <3>1. /\ UNCHANGED <<fresh, jobs, elders, alone>>
          /\ touched' = touched \union {k}
          /\ \A h \in Keys \ {k} : status'[h] = status[h]
      BY <2>2 DEF WriteTransition, InsightsTypeOK
    <3>2. Sole(w)
      BY <3>1 DEF Solitude
    <3> HIDE DEF k
    <3>3. Settling(w) => Settling(w)'
      BY <3>1 DEF Settling, KeysOf
    <3> QED BY <3>1, <3>2, <3>3 DEF Sole, Busy, KeysOf
  <2> QED BY <1>3, <2>1, <2>2 DEF UserStep
<1> QED BY <1>1, <1>2, <1>3 DEF InsightsNext

-----------------------------------------------------------------------------
(* The theorems.                                                           *)

\* Every step keeps the invariant the theorems rest on.
THEOREM InvariantHolds == InsightsSpec => []InsightsInv
<1>1. Init => InsightsInv
  BY TypesInit, UnderWayInit, SolitudeInit DEF InsightsInv
<1>2. InsightsInv /\ [InsightsNext]_vars => InsightsInv'
  BY TypesNext, UnderWayNext, SolitudeNext DEF InsightsInv
<1> QED BY <1>1, <1>2, PTL DEF InsightsSpec

\* Rows, runs and pending transitions keep their types in every execution of
\* the generation runs and of transition().
THEOREM InsightsTypes == InsightsSpec => []InsightsTypeOK
<1>1. InsightsInv => InsightsTypeOK
  BY DEF InsightsInv
<1> QED BY <1>1, InvariantHolds, PTL

\* A generation run that overlapped no other leaves exactly what it detected on
\* display, for any number of workers, users, conditions and providers.
THEOREM SoleRunsSettle == InsightsSpec => []SoleRunSettles
<1>1. InsightsInv => SoleRunSettles
  <2> SUFFICES ASSUME InsightsInv, NEW w \in alone, jobs[w].pc = "record",
                      NEW k \in KeysOf(jobs[w].provider) \ touched
               PROVE  /\ status[k] \in Open => k \in jobs[w].cands
                      /\ k \in jobs[w].cands
                           => status[k] \in Open \union {"ACKNOWLEDGED"}
    BY DEF SoleRunSettles
  <2>1. Settling(w)
    BY DEF InsightsInv, Solitude, Sole
  <2> QED BY <2>1 DEF Settling, Shown
<1> QED BY <1>1, InvariantHolds, PTL

\* Only a user, a redetection of a closed condition or a run that had read the
\* row before it was decided changes an insight a user acknowledged, resolved
\* or archived: the archival of generateForTenant never does.
THEOREM UserDecisionsStand == InsightsSpec => DecisionsStand
<1> DEFINE Kept(k) ==
      /\ status[k] \in Statuses \ Open
      /\ status'[k] # status[k]
      /\ edits' = edits
      => \E w \in Workers :
           /\ jobs[w].pc = "write" /\ jobs[w].key = k
           /\ \/ jobs[w].read # status[k]
              \/ status[k] # "ACKNOWLEDGED" /\ status'[k] = "ACTIVE"
<1>1. ASSUME InsightsTypeOK, InsightsNext, NEW k \in Keys,
             status[k] \in Statuses \ Open, status'[k] # status[k],
             edits' = edits
      PROVE  \E w \in Workers :
               /\ jobs[w].pc = "write" /\ jobs[w].key = k
               /\ \/ jobs[w].read # status[k]
                  \/ status[k] # "ACKNOWLEDGED" /\ status'[k] = "ACTIVE"
  <2>1. ASSUME NEW u \in Users, UserStep(u) PROVE FALSE
    BY <2>1, <1>1 DEF UserStep, CheckTransition, WriteTransition,
                      DropTransition, InsightsTypeOK
  <2>2. PICK w \in Workers : WorkerStep(w)
    BY <1>1, <2>1 DEF InsightsNext
  <2>3. CASE WriteInsight(w)
    <3>1. PICK s \in IF jobs[w].read = "NONE" THEN {"NEW"}
                                              ELSE NextStatuses(jobs[w].read) :
            status' = [status EXCEPT ![jobs[w].key] = s]
      BY <2>3 DEF WriteInsight
    <3>2. jobs[w].pc = "write" /\ jobs[w].key = k /\ status'[k] = s
      BY <2>3, <3>1, <1>1 DEF WriteInsight, InsightsTypeOK
    <3>3. CASE jobs[w].read = status[k]
      <4>1. s \in NextStatuses(status[k])
        BY <3>1, <3>3, <1>1, NoneIsNoStatus
      <4>2. \/ NextStatuses(status[k]) = {status[k]}
            \/ /\ NextStatuses(status[k]) = {"ACTIVE"}
               /\ status[k] # "ACKNOWLEDGED"
        BY <1>1 DEF NextStatuses, Statuses, Open
      <4> QED BY <3>2, <4>1, <4>2, <1>1
    <3> QED BY <3>2, <3>3
  <2>4. CASE ArchiveCleared(w)
    BY <2>4, <1>1 DEF ArchiveCleared, Archivable
  <2>5. CASE ~WriteInsight(w) /\ ~ArchiveCleared(w)
    <3>1. UNCHANGED status
      BY <2>2, <2>5 DEF WorkerStep, RunStep, Begin, Generate, GenerateFails,
           ReadExisting, CreateConflicts, UpsertFails, RecordProviderRun,
           Finish, Crash
    <3> QED BY <3>1, <1>1
  <2> QED BY <2>3, <2>4, <2>5
<1>2. InsightsInv /\ [InsightsNext]_vars => [\A k \in Keys : Kept(k)]_vars
  <2>1. CASE UNCHANGED vars
    BY <2>1
  <2>2. ASSUME InsightsInv, InsightsNext PROVE \A k \in Keys : Kept(k)
    BY <2>2, <1>1 DEF InsightsInv
  <2> QED BY <2>1, <2>2
<1> QED BY <1>2, InvariantHolds, PTL DEF InsightsSpec, DecisionsStand
=============================================================================
