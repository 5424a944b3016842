--------------------------- MODULE ApprovalsProofs --------------------------
(***************************************************************************)
(* Proofs about Approvals, for any users, templates, number of requests    *)
(* and instances.                                                          *)
(***************************************************************************)
EXTENDS Approvals, FiniteSetTheorems, TLAPS

\* Enough users signed step s of instance i in a table of approvals.
QuorumIn(rows, i, s) ==
    Cardinality({u \in Users : [id |-> i, step |-> s, user |-> u] \in rows}) >= Required[s]

\* What a request has read is still there when it writes: its instance exists,
\* and so do the approvals below the step it read.  A request about to write
\* APPROVED or LOCKED to the plan rests on a complete instance.
JobOK(job, table, rows) ==
    /\ job.pc \in {"record", "decide", "write"} => job.id \in Ids /\ table[job.id].status # "NONE"
    /\ job.pc = "record" => job.user \in MayApprove[job.step]
    /\ job.pc = "write" => job.write \in {"REJECTED", "ON_HOLD", "CANCELLED", "IN_PROGRESS"}
    /\ job.pc \in {"check", "create"} => job.id = 0
    /\ job.pc = "plan" => job.plan # ""
    /\ job.pc \in {"record", "decide"} => \A s \in Steps : s < job.step => QuorumIn(rows, job.id, s)
    /\ job.pc = "plan" /\ job.plan \in {"APPROVED", "LOCKED"} /\ job.id # 0
       => \A s \in Steps : QuorumIn(rows, job.id, s)

\* The steps below an instance's step have their quorum, and all the steps of
\* an instance that is APPROVED.
RowOK(row, i, rows) ==
    /\ \A s \in Steps : s < row.step => QuorumIn(rows, i, s)
    /\ row.status = "APPROVED" => \A s \in Steps : QuorumIn(rows, i, s)

PlanOK(row, rows) ==
    row.status \in {"APPROVED", "LOCKED"} /\ row.basis # 0 => \A s \in Steps : QuorumIn(rows, row.basis, s)

TasksOK == \A t \in Tasks : JobOK(tasks[t], instances, approvals)
RowsOK == \A i \in Ids : RowOK(instances[i], i, approvals)
Backed == TasksOK /\ RowsOK /\ PlanOK(plan, approvals)

Working(t) == tasks[t].pc \in {"record", "decide", "write"}

\* As long as no two requests overlapped on the same instance, a request works
\* on an instance that is undecided and is alone with it, and one about to
\* create an instance is the only one and finds none active.
Uncontested ==
    ~contested =>
        /\ \A t \in Tasks : Working(t) => instances[tasks[t].id].status \in {"IN_PROGRESS", "ON_HOLD"}
        /\ \A t, r \in Tasks : Working(t) /\ Working(r) /\ tasks[t].id = tasks[r].id => t = r
        /\ \A t, r \in Tasks : tasks[t].pc = "create" /\ tasks[r].pc = "create" => t = r
        /\ \A t \in Tasks : tasks[t].pc = "create" => ActiveInstances = {}
        /\ \A i, j \in ActiveInstances : i = j

ApprovalsInv == ApprovalsTypeOK /\ Backed /\ Uncontested

-----------------------------------------------------------------------------
(* Constants and helpers.                                                  *)

InstanceRow == [status : Statuses, step : Steps, by : Users]

\* What the constructors build.
LEMMA JobType ==
    ASSUME NEW pc \in {"idle", "record", "decide", "write", "check", "create", "plan"},
           NEW u \in Users, NEW i \in 0..MaxInstances, NEW s \in Steps,
           NEW write \in Statuses \cup {""}, NEW to \in PlanStatuses \cup {"", "UNLOCKED"}
    PROVE  /\ Job(pc, u, i, s, write, to) \in Task
           /\ Job(pc, u, i, s, write, to).pc = pc
           /\ Job(pc, u, i, s, write, to).user = u
           /\ Job(pc, u, i, s, write, to).id = i
           /\ Job(pc, u, i, s, write, to).step = s
           /\ Job(pc, u, i, s, write, to).write = write
           /\ Job(pc, u, i, s, write, to).plan = to
BY DEF Job, Task

LEMMA InstanceType ==
    ASSUME NEW status \in Statuses, NEW s \in Steps, NEW u \in Users
    PROVE  /\ Instance(status, s, u) \in InstanceRow
           /\ Instance(status, s, u).status = status
           /\ Instance(status, s, u).step = s
           /\ Instance(status, s, u).by = u
BY DEF Instance, InstanceRow

LEMMA EmptyTypes ==
    /\ Anyone \in Users /\ 1 \in Steps /\ 0 \in 0..MaxInstances
    /\ "" \in Statuses \cup {""} /\ "" \in PlanStatuses \cup {"", "UNLOCKED"}
    /\ Rest \in Task /\ Rest.pc = "idle"
    /\ NoInstance \in InstanceRow /\ NoInstance.status = "NONE" /\ NoInstance.step = 1
    /\ \A i \in Ids : i \in 0..MaxInstances /\ i # 0
<1>1. Anyone \in Users
  BY ApprovalsAssumption DEF Anyone
<1>2. 1 \in Steps /\ 0 \in 0..MaxInstances
  BY ApprovalsAssumption DEF Steps
<1>3. "NONE" \in Statuses /\ "" \in Statuses \cup {""}
  BY DEF Statuses
<1>4. "" \in PlanStatuses \cup {"", "UNLOCKED"}
  OBVIOUS
<1>5. Rest \in Task /\ Rest.pc = "idle"
  BY <1>1, <1>2, <1>3, <1>4 DEF Rest, Job, Task
<1>6. NoInstance \in InstanceRow /\ NoInstance.status = "NONE" /\ NoInstance.step = 1
  BY <1>1, <1>2, <1>3, InstanceType DEF NoInstance
<1>7. \A i \in Ids : i \in 0..MaxInstances /\ i # 0
  BY ApprovalsAssumption DEF Ids
<1> QED BY <1>1, <1>2, <1>3, <1>4, <1>5, <1>6, <1>7

\* Every entry of the two tables is a row.
LEMMA RowTypes ==
    ASSUME ApprovalsTypeOK
    PROVE  /\ \A i \in Ids : /\ instances[i] \in InstanceRow
                             /\ instances[i].status \in Statuses
                             /\ instances[i].step \in Steps /\ instances[i].by \in Users
           /\ \A t \in Tasks : /\ tasks[t] \in Task
                               /\ tasks[t].user \in Users /\ tasks[t].id \in 0..MaxInstances
                               /\ tasks[t].step \in Steps
                               /\ tasks[t].write \in Statuses \cup {""}
                               /\ tasks[t].plan \in PlanStatuses \cup {"", "UNLOCKED"}
BY DEF ApprovalsTypeOK, InstanceRow, Task

\* Only the last step has none after it.
LEMMA NextStepType ==
    ASSUME NEW s \in Steps
    PROVE  ~IsLastStep(s) => s + 1 \in Steps
BY ApprovalsAssumption DEF IsLastStep, Steps

\* The task that PlanNext hands on.
LEMMA PlanJobType ==
    ASSUME NEW i \in 0..MaxInstances, NEW to \in PlanStatuses \cup {"", "UNLOCKED"}
    PROVE  Job("plan", Anyone, i, 1, "", to) \in Task
BY EmptyTypes DEF Job, Task

LEMMA PlanNextType ==
    ASSUME ApprovalsTypeOK, NEW t \in Tasks, NEW i \in 0..MaxInstances, PlanNext(t, i)
    PROVE  \E job \in Task :
              /\ Become(t, job) /\ job.pc \in {"idle", "plan"}
              /\ job.pc = "plan" => job.id = i /\ job.plan # ""
<1>1. CASE tasks[t].plan = ""
  BY <1>1, EmptyTypes DEF PlanNext, End
<1>2. CASE tasks[t].plan # ""
  <2> DEFINE job == Job("plan", Anyone, i, 1, "", tasks[t].plan)
  <2>1. job \in Task
    BY RowTypes, PlanJobType
  <2>2. job.pc = "plan" /\ job.id = i /\ job.plan = tasks[t].plan
    BY DEF Job
  <2>3. Become(t, job)
    BY <1>2 DEF PlanNext
  <2> HIDE DEF job
  <2> QED BY <1>2, <2>1, <2>2, <2>3
<1> QED BY <1>1, <1>2

\* The order of the steps.
LEMMA StepOrder ==
    ASSUME NEW r \in Steps, NEW s \in Steps
    PROVE  /\ ~(r < 1)
           /\ r < s + 1 => r < s \/ r = s
           /\ IsLastStep(s) => r < s \/ r = s
BY ApprovalsAssumption DEF Steps, IsLastStep

\* A quorum is not lost when approvals are added (RecordApproval).
LEMMA QuorumGrows ==
    ASSUME NEW rows, NEW more, rows \subseteq more, NEW i, NEW s \in Steps, QuorumIn(rows, i, s)
    PROVE  QuorumIn(more, i, s)
<1> DEFINE few == {u \in Users : [id |-> i, step |-> s, user |-> u] \in rows}
           many == {u \in Users : [id |-> i, step |-> s, user |-> u] \in more}
<1>1. few \subseteq many /\ many \subseteq Users
  OBVIOUS
<1>2. Cardinality(few) >= Required[s]
  BY DEF QuorumIn
<1> HIDE DEF few, many
<1>3. IsFiniteSet(many)
  BY <1>1, ApprovalsAssumption, FS_Subset
<1>4. Cardinality(few) <= Cardinality(many) /\ IsFiniteSet(few)
  BY <1>1, <1>3, FS_Subset
<1>5. Cardinality(few) \in Nat /\ Cardinality(many) \in Nat /\ Required[s] \in Nat
  BY <1>3, <1>4, FS_CardinalityType, ApprovalsAssumption
<1>6. Cardinality(many) >= Required[s]
  BY <1>2, <1>4, <1>5
<1> QED BY <1>6 DEF QuorumIn, many

-----------------------------------------------------------------------------
(* Types.                                                                  *)

LEMMA InitType == ApprovalsInit => ApprovalsTypeOK
<1> SUFFICES ASSUME ApprovalsInit PROVE ApprovalsTypeOK
  OBVIOUS
<1>1. active \in BOOLEAN /\ contested \in BOOLEAN /\ approvals \subseteq [id : Ids, step : Steps, user : Users]
  BY DEF ApprovalsInit
<1>2. plan \in [status : PlanStatuses, locked : BOOLEAN, basis : 0..MaxInstances]
  BY EmptyTypes DEF ApprovalsInit, PlanStatuses
<1>3. instances \in [Ids -> [status : Statuses, step : Steps, by : Users]]
  BY EmptyTypes DEF ApprovalsInit, InstanceRow
<1>4. tasks \in [Tasks -> Task]
  BY EmptyTypes DEF ApprovalsInit
<1>5. requests \in 0..MaxRequests
  BY ApprovalsAssumption DEF ApprovalsInit
<1> QED BY <1>1, <1>2, <1>3, <1>4, <1>5 DEF ApprovalsTypeOK

\* The bookkeeping of a request that is taken.
LEMMA RequestType ==
    ASSUME NEW t, requests \in 0..MaxRequests, Request(t)
    PROVE  requests' \in 0..MaxRequests
BY ApprovalsAssumption DEF Request

LEMMA ContestType ==
    ASSUME NEW t, NEW i, Contest(t, i)
    PROVE  contested' \in BOOLEAN
BY Zenon DEF Contest

\* Writing one row of a table keeps the table's type.
LEMMA TasksType ==
    ASSUME NEW t \in Tasks, NEW job \in Task, tasks \in [Tasks -> Task], Become(t, job)
    PROVE  /\ tasks' \in [Tasks -> Task]
           /\ \A r \in Tasks : tasks'[r] = IF r = t THEN job ELSE tasks[r]
BY DEF Become

LEMMA TypeStep ==
    ASSUME ApprovalsTypeOK, TasksOK, [ApprovalsNext]_approvalVars
    PROVE  ApprovalsTypeOK'
<1> USE EmptyTypes, RowTypes DEF ApprovalsTypeOK
<1>1. ASSUME SwitchTemplate PROVE ApprovalsTypeOK'
  BY <1>1 DEF SwitchTemplate
<1>2. ASSUME NEW t \in Tasks, NEW u \in Users, NEW i \in Ids, NEW onPlan \in BOOLEAN,
             ReadForApproval(t, u, i, onPlan)
      PROVE  ApprovalsTypeOK'
  <2> DEFINE to == IF onPlan THEN "APPROVED" ELSE ""
             job == Job("record", u, i, instances[i].step, "", to)
  <2>1. to \in PlanStatuses \cup {"", "UNLOCKED"}
    BY DEF PlanStatuses
  <2>2. job \in Task
    <3> HIDE DEF to
    <3> QED BY <2>1, JobType
  <2>3. Become(t, job) /\ requests' \in 0..MaxRequests /\ contested' \in BOOLEAN
        /\ UNCHANGED <<active, plan, instances, approvals>>
    <3>1. Become(t, job) /\ Request(t) /\ Contest(t, i) /\ UNCHANGED <<active, plan, instances, approvals>>
      BY <1>2 DEF ReadForApproval
    <3> QED BY <3>1, RequestType, ContestType
  <2> HIDE DEF job
  <2> QED BY <2>2, <2>3, TasksType
<1>3. ASSUME NEW t \in Tasks, NEW u \in Users, NEW i \in Ids, NEW onPlan \in BOOLEAN,
             NEW write \in {"REJECTED", "ON_HOLD", "CANCELLED", "IN_PROGRESS"},
             ReadForVerdict(t, u, i, write, onPlan)
      PROVE  ApprovalsTypeOK'
  <2> DEFINE to == IF onPlan THEN "DRAFT" ELSE ""
             job == Job("write", Anyone, i, 1, write, to)
  <2>1. to \in PlanStatuses \cup {"", "UNLOCKED"} /\ write \in Statuses \cup {""}
    BY DEF PlanStatuses, Statuses
  <2>2. job \in Task
    <3> HIDE DEF to
    <3> QED BY <2>1, JobType
  <2>3. Become(t, job) /\ requests' \in 0..MaxRequests /\ contested' \in BOOLEAN
        /\ UNCHANGED <<active, plan, instances, approvals>>
    <3>1. Become(t, job) /\ Request(t) /\ Contest(t, i) /\ UNCHANGED <<active, plan, instances, approvals>>
      BY <1>3 DEF ReadForVerdict
    <3> QED BY <3>1, RequestType, ContestType
  <2> HIDE DEF job
  <2> QED BY <2>2, <2>3, TasksType
<1>4. ASSUME NEW t \in Tasks, NEW u \in Users, StartWorkflow(t, u) \/ Submit(t, u)
      PROVE  ApprovalsTypeOK'
  <2>1. /\ Job("check", u, 0, 1, "", "") \in Task
        /\ Job("check", u, 0, 1, "", "IN_REVIEW") \in Task
        /\ Job("plan", Anyone, 0, 1, "", "APPROVED") \in Task
    BY JobType, ZenonT(60) DEF PlanStatuses
  <2>2. PICK job \in Task : Become(t, job)
    BY <1>4, <2>1 DEF StartWorkflow, Submit
  <2>3. requests' \in 0..MaxRequests /\ UNCHANGED <<active, plan, instances, approvals, contested>>
    BY <1>4, RequestType DEF StartWorkflow, Submit
  <2> QED BY <2>2, <2>3, TasksType
<1>5. ASSUME NEW t \in Tasks, Lock(t) \/ Unlock(t) \/ Archive(t)
      PROVE  ApprovalsTypeOK'
  <2>1. /\ \A i \in 0..MaxInstances : Job("plan", Anyone, i, 1, "", "LOCKED") \in Task
        /\ Job("plan", Anyone, 0, 1, "", "UNLOCKED") \in Task
        /\ Job("plan", Anyone, 0, 1, "", "ARCHIVED") \in Task
    BY JobType, ZenonT(60) DEF PlanStatuses
  <2>2. PICK job \in Task : Become(t, job)
    BY <1>5, <2>1 DEF Lock, Unlock, Archive
  <2>3. requests' \in 0..MaxRequests /\ UNCHANGED <<active, plan, instances, approvals, contested>>
    BY <1>5, RequestType DEF Lock, Unlock, Archive
  <2> QED BY <2>2, <2>3, TasksType
<1>6. ASSUME NEW t \in Tasks, RecordApproval(t)
      PROVE  ApprovalsTypeOK'
  <2>1. Job("decide", Anyone, tasks[t].id, tasks[t].step, "", tasks[t].plan) \in Task
    BY JobType
  <2>2. PICK job \in Task : Become(t, job)
    BY <1>6, <2>1 DEF RecordApproval, End
  <2>3. tasks[t].id \in Ids
    BY <1>6 DEF RecordApproval, TasksOK, JobOK
  <2>4. [id |-> tasks[t].id, step |-> tasks[t].step, user |-> tasks[t].user] \in [id : Ids, step : Steps, user : Users]
    BY <2>3
  <2>5. approvals' \subseteq [id : Ids, step : Steps, user : Users]
    BY <1>6, <2>4 DEF RecordApproval
  <2>6. UNCHANGED <<active, plan, instances, requests, contested>>
    BY <1>6 DEF RecordApproval
  <2> QED BY <2>2, <2>5, <2>6, TasksType
<1>7. ASSUME NEW t \in Tasks, Decide(t)
      PROVE  ApprovalsTypeOK'
  <2> DEFINE i == tasks[t].id
             s == tasks[t].step
  <2>2. PICK job \in Task : Become(t, job)
    <3>1. End(t) \/ PlanNext(t, tasks[t].id)
      BY <1>7 DEF Decide
    <3> QED BY <3>1, PlanNextType DEF End
  <2>3. i \in Ids
    BY <1>7 DEF Decide, TasksOK, JobOK
  <2>4. ~IsLastStep(s) => Instance(instances[i].status, s + 1, instances[i].by) \in InstanceRow
    <3>1. ~IsLastStep(s) => s + 1 \in Steps
      BY NextStepType
    <3> QED BY <2>3, <3>1, InstanceType
  <2>5. Instance("APPROVED", instances[i].step, instances[i].by) \in InstanceRow
    BY <2>3, InstanceType DEF Statuses
  <2>6. instances' \in [Ids -> InstanceRow]
    BY <1>7, <2>3, <2>4, <2>5 DEF Decide, InstanceRow
  <2>7. UNCHANGED <<active, plan, approvals, requests, contested>>
    BY <1>7 DEF Decide
  <2> QED BY <2>2, <2>6, <2>7, TasksType DEF InstanceRow
<1>8. ASSUME NEW t \in Tasks, WriteVerdict(t)
      PROVE  ApprovalsTypeOK'
  <2> DEFINE i == tasks[t].id
  <2>2. PICK job \in Task : Become(t, job)
    BY <1>8, PlanNextType DEF WriteVerdict
  <2>3. i \in Ids /\ tasks[t].write \in Statuses
    BY <1>8 DEF WriteVerdict, TasksOK, JobOK, Statuses
  <2>4. Instance(tasks[t].write, IF tasks[t].write = "IN_PROGRESS" THEN 1 ELSE instances[i].step, instances[i].by) \in InstanceRow
    BY <2>3, InstanceType
  <2>5. instances' \in [Ids -> InstanceRow]
    BY <1>8, <2>3, <2>4 DEF WriteVerdict, InstanceRow
  <2>6. UNCHANGED <<active, plan, approvals, requests, contested>>
    BY <1>8 DEF WriteVerdict
  <2> QED BY <2>2, <2>5, <2>6, TasksType DEF InstanceRow
<1>9. ASSUME NEW t \in Tasks, CheckActive(t)
      PROVE  ApprovalsTypeOK'
  <2>1. Job("create", tasks[t].user, 0, 1, "", tasks[t].plan) \in Task
    BY JobType
  <2>2. PICK job \in Task : Become(t, job)
    BY <1>9, <2>1 DEF CheckActive, End
  <2>3. contested' \in BOOLEAN /\ UNCHANGED <<active, plan, instances, approvals, requests>>
    BY <1>9, ContestType DEF CheckActive
  <2> QED BY <2>2, <2>3, TasksType
<1>10. ASSUME NEW t \in Tasks, NEW i \in Ids, CreateInstance(t, i)
       PROVE  ApprovalsTypeOK'
  <2>2. PICK job \in Task : Become(t, job)
    BY <1>10, PlanNextType DEF CreateInstance
  <2>3. Instance("IN_PROGRESS", 1, tasks[t].user) \in InstanceRow
    BY InstanceType DEF Statuses
  <2>4. instances' \in [Ids -> InstanceRow]
    BY <1>10, <2>3 DEF CreateInstance, InstanceRow
  <2>5. UNCHANGED <<active, plan, approvals, requests, contested>>
    BY <1>10 DEF CreateInstance
  <2> QED BY <2>2, <2>4, <2>5, TasksType DEF InstanceRow
<1>11. ASSUME NEW t \in Tasks, WritePlan(t)
       PROVE  ApprovalsTypeOK'
  <2>1. Become(t, Rest) /\ UNCHANGED <<active, instances, approvals, requests, contested>>
    BY <1>11 DEF WritePlan, End
  <2>2. tasks[t].plan # "" => plan' \in [status : PlanStatuses, locked : BOOLEAN, basis : 0..MaxInstances]
    BY <1>11 DEF WritePlan, PlanStatuses
  <2>3. tasks[t].plan # ""
    BY <1>11 DEF WritePlan, TasksOK, JobOK
  <2> QED BY <2>1, <2>2, <2>3, TasksType
<1>12. ASSUME NEW t \in Tasks, GiveUp(t)
       PROVE  ApprovalsTypeOK'
  BY <1>12, TasksType DEF GiveUp, End
<1>13. CASE UNCHANGED approvalVars
  BY <1>13 DEF approvalVars
<1>14. Submitters \subseteq Users
  BY ApprovalsAssumption
<1> HIDE DEF ApprovalsTypeOK
<1> QED
  BY <1>1, <1>2, <1>3, <1>4, <1>5, <1>6, <1>7, <1>8, <1>9, <1>10, <1>11, <1>12, <1>13, <1>14 DEF ApprovalsNext, Step

-----------------------------------------------------------------------------
(* Approvals are never removed, so what rests on them stays.               *)

LEMMA InitBacked == ApprovalsInit => Backed
<1> SUFFICES ASSUME ApprovalsInit PROVE Backed
  OBVIOUS
<1>1. TasksOK
  BY EmptyTypes DEF ApprovalsInit, TasksOK, JobOK
<1>2. RowsOK
  <2>1. \A s \in Steps : ~(s < 1)
    BY DEF Steps
  <2> QED BY <2>1, EmptyTypes DEF ApprovalsInit, RowsOK, RowOK
<1>3. PlanOK(plan, approvals)
  BY DEF ApprovalsInit, PlanOK
<1> QED BY <1>1, <1>2, <1>3 DEF Backed

\* No step of a request removes an approval or an instance.
LEMMA JobStays ==
    ASSUME NEW job, NEW table, NEW later, NEW rows, NEW more, rows \subseteq more,
           \A i \in Ids : table[i].status # "NONE" => later[i].status # "NONE",
           JobOK(job, table, rows)
    PROVE  JobOK(job, later, more)
BY QuorumGrows DEF JobOK

LEMMA RowStays ==
    ASSUME NEW row, NEW i, NEW rows, NEW more, rows \subseteq more, RowOK(row, i, rows)
    PROVE  RowOK(row, i, more)
BY QuorumGrows DEF RowOK

LEMMA PlanStays ==
    ASSUME NEW row, NEW rows, NEW more, rows \subseteq more, PlanOK(row, rows)
    PROVE  PlanOK(row, more)
BY QuorumGrows DEF PlanOK

\* A request that writes no row of the two tables needs only its own task.
LEMMA TaskBacked ==
    ASSUME ApprovalsTypeOK, Backed, NEW t \in Tasks, NEW job \in Task, Become(t, job),
           JobOK(job, instances, approvals), UNCHANGED <<plan, instances, approvals>>
    PROVE  Backed'
<1>1. TasksOK'
  BY TasksType DEF ApprovalsTypeOK, Backed, TasksOK
<1> QED BY <1>1 DEF Backed, RowsOK

\* A request that writes instance i: the row it writes, and its next task.
LEMMA InstanceBacked ==
    ASSUME ApprovalsTypeOK, Backed, NEW t \in Tasks, NEW job \in Task, Become(t, job),
           NEW i \in Ids, NEW row \in InstanceRow, instances' = [instances EXCEPT ![i] = row],
           row.status # "NONE", RowOK(row, i, approvals),
           JobOK(job, instances', approvals), UNCHANGED <<plan, approvals>>
    PROVE  Backed'
<1>1. \A j \in Ids : instances'[j] = IF j = i THEN row ELSE instances[j]
  BY DEF ApprovalsTypeOK
<1>2. \A j \in Ids : instances[j].status # "NONE" => instances'[j].status # "NONE"
  BY <1>1
<1>3. TasksOK'
  <2> SUFFICES ASSUME NEW r \in Tasks PROVE JobOK(tasks'[r], instances', approvals')
    BY DEF TasksOK
  <2>1. CASE r = t
    BY <2>1, TasksType DEF ApprovalsTypeOK
  <2>2. CASE r # t
    <3>1. JobOK(tasks[r], instances, approvals) /\ tasks'[r] = tasks[r]
      BY <2>2, TasksType DEF ApprovalsTypeOK, Backed, TasksOK
    <3> QED BY <3>1, <1>2, JobStays
  <2> QED BY <2>1, <2>2
<1>4. RowsOK'
  BY <1>1 DEF Backed, RowsOK
<1> QED BY <1>3, <1>4 DEF Backed

LEMMA BackedStep ==
    ASSUME ApprovalsTypeOK, Backed, [ApprovalsNext]_approvalVars
    PROVE  Backed'
<1> USE EmptyTypes, RowTypes
<1>0. /\ \A t \in Tasks : JobOK(tasks[t], instances, approvals)
      /\ \A i \in Ids : RowOK(instances[i], i, approvals)
      /\ PlanOK(plan, approvals)
  BY DEF Backed, TasksOK, RowsOK
<1>1. CASE SwitchTemplate \/ UNCHANGED approvalVars
  BY <1>1 DEF SwitchTemplate, approvalVars, Backed, TasksOK, RowsOK
<1>2. ASSUME NEW t \in Tasks, NEW u \in Users, NEW i \in Ids, NEW onPlan \in BOOLEAN,
             ReadForApproval(t, u, i, onPlan)
      PROVE  Backed'
  <2> DEFINE job == Job("record", u, i, instances[i].step, "", IF onPlan THEN "APPROVED" ELSE "")
  <2>1. job \in Task
    BY DEF Job, Task, PlanStatuses
  <2>2. Become(t, job) /\ UNCHANGED <<plan, instances, approvals>>
    BY <1>2 DEF ReadForApproval
  <2>3. instances[i].status # "NONE" /\ u \in MayApprove[instances[i].step]
    BY <1>2 DEF ReadForApproval
  <2>4. JobOK(job, instances, approvals)
    BY <1>0, <2>3 DEF JobOK, RowOK, Job
  <2> QED BY <2>1, <2>2, <2>4, TaskBacked
<1>3. ASSUME NEW t \in Tasks, NEW u \in Users, NEW i \in Ids, NEW onPlan \in BOOLEAN,
             NEW write \in {"REJECTED", "ON_HOLD", "CANCELLED", "IN_PROGRESS"},
             ReadForVerdict(t, u, i, write, onPlan)
      PROVE  Backed'
  <2> DEFINE job == Job("write", Anyone, i, 1, write, IF onPlan THEN "DRAFT" ELSE "")
  <2>1. job \in Task
    BY DEF Job, Task, PlanStatuses, Statuses
  <2>2. Become(t, job) /\ UNCHANGED <<plan, instances, approvals>>
    BY <1>3 DEF ReadForVerdict
  <2>3. instances[i].status # "NONE"
    BY <1>3 DEF ReadForVerdict, MayReject, MayReturn, MayCancel, MayResubmit
  <2>4. JobOK(job, instances, approvals)
    BY <2>3 DEF JobOK, Job
  <2> QED BY <2>1, <2>2, <2>4, TaskBacked
<1>4. ASSUME NEW t \in Tasks, NEW u \in Users, StartWorkflow(t, u) \/ Submit(t, u)
      PROVE  Backed'
  <2>1. /\ Job("check", u, 0, 1, "", "") \in Task
        /\ Job("check", u, 0, 1, "", "IN_REVIEW") \in Task
        /\ Job("plan", Anyone, 0, 1, "", "APPROVED") \in Task
    BY JobType, ZenonT(60) DEF PlanStatuses
  <2>2. /\ JobOK(Job("check", u, 0, 1, "", ""), instances, approvals)
        /\ JobOK(Job("check", u, 0, 1, "", "IN_REVIEW"), instances, approvals)
        /\ JobOK(Job("plan", Anyone, 0, 1, "", "APPROVED"), instances, approvals)
    BY DEF JobOK, Job
  <2>3. PICK job \in Task : Become(t, job) /\ JobOK(job, instances, approvals)
    BY <1>4, <2>1, <2>2 DEF StartWorkflow, Submit
  <2>4. UNCHANGED <<plan, instances, approvals>>
    BY <1>4 DEF StartWorkflow, Submit
  <2> QED BY <2>3, <2>4, TaskBacked
<1>5. ASSUME NEW t \in Tasks, Lock(t) \/ Unlock(t) \/ Archive(t)
      PROVE  Backed'
  <2>1. /\ \A i \in 0..MaxInstances : Job("plan", Anyone, i, 1, "", "LOCKED") \in Task
        /\ Job("plan", Anyone, 0, 1, "", "UNLOCKED") \in Task
        /\ Job("plan", Anyone, 0, 1, "", "ARCHIVED") \in Task
    BY JobType, ZenonT(60) DEF PlanStatuses
  <2>2. /\ JobOK(Job("plan", Anyone, 0, 1, "", "LOCKED"), instances, approvals)
        /\ JobOK(Job("plan", Anyone, 0, 1, "", "UNLOCKED"), instances, approvals)
        /\ JobOK(Job("plan", Anyone, 0, 1, "", "ARCHIVED"), instances, approvals)
    BY DEF JobOK, Job
  <2>3. ASSUME NEW i \in Ids, EnsureApproved(i)
        PROVE  JobOK(Job("plan", Anyone, i, 1, "", "LOCKED"), instances, approvals)
    <3>1. \A s \in Steps : QuorumIn(approvals, i, s)
      BY <1>0, <2>3 DEF EnsureApproved, RowOK
    <3> QED BY <3>1 DEF JobOK, Job
  <2>4. PICK job \in Task : Become(t, job) /\ JobOK(job, instances, approvals)
    BY <1>5, <2>1, <2>2, <2>3 DEF Lock, Unlock, Archive
  <2>5. UNCHANGED <<plan, instances, approvals>>
    BY <1>5 DEF Lock, Unlock, Archive
  <2> QED BY <2>4, <2>5, TaskBacked
<1>6. ASSUME NEW t \in Tasks, RecordApproval(t)
      PROVE  Backed'
  <2> DEFINE row == [id |-> tasks[t].id, step |-> tasks[t].step, user |-> tasks[t].user]
             next == Job("decide", Anyone, tasks[t].id, tasks[t].step, "", tasks[t].plan)
  <2>1. next \in Task
    BY JobType
  <2>2. JobOK(next, instances, approvals) /\ JobOK(Rest, instances, approvals)
    BY <1>0, <1>6 DEF RecordApproval, JobOK, Job, Rest
  <2>3. PICK job \in {Rest, next} : Become(t, job)
    BY <1>6 DEF RecordApproval, End
  <2>4. approvals \subseteq approvals' /\ UNCHANGED <<plan, instances>>
    BY <1>6 DEF RecordApproval
  <2> HIDE DEF next
  <2>5. TasksOK'
    <3> SUFFICES ASSUME NEW r \in Tasks PROVE JobOK(tasks'[r], instances, approvals')
      BY <2>4 DEF TasksOK
    <3>1. tasks'[r] = IF r = t THEN job ELSE tasks[r]
      BY <2>1, <2>3, TasksType DEF ApprovalsTypeOK
    <3>2. JobOK(tasks'[r], instances, approvals)
      BY <1>0, <2>2, <2>3, <3>1
    <3> QED BY <2>4, <3>2, JobStays
  <2>6. RowsOK'
    BY <1>0, <2>4, RowStays DEF RowsOK
  <2>7. PlanOK(plan', approvals')
    BY <1>0, <2>4, PlanStays
  <2> QED BY <2>5, <2>6, <2>7 DEF Backed
<1>7. ASSUME NEW t \in Tasks, Decide(t)
      PROVE  Backed'
  <2> DEFINE i == tasks[t].id
             s == tasks[t].step
             moved == Instance(instances[i].status, s + 1, instances[i].by)
             done == Instance("APPROVED", instances[i].step, instances[i].by)
  <2>1. i \in Ids /\ s \in Steps /\ Exists(i) /\ \A r \in Steps : r < s => QuorumIn(approvals, i, r)
    BY <1>0, <1>7 DEF Decide, JobOK, Exists
  <2>2. JobOK(Rest, instances, approvals)
    BY DEF JobOK
  <2>3. CASE ~HasQuorum(i, s)
    BY <1>7, <2>2, <2>3, TaskBacked DEF Decide, End
  <2>4. CASE HasQuorum(i, s) /\ ~IsLastStep(s)
    <3>1. QuorumIn(approvals, i, s)
      BY <2>4 DEF HasQuorum, UniqueApprovals, QuorumIn
    <3>2. moved \in InstanceRow /\ moved.status = instances[i].status /\ moved.step = s + 1
      BY <2>1, <2>4, NextStepType DEF Instance, InstanceRow
    <3>3. \A r \in Steps : r < s + 1 => QuorumIn(approvals, i, r)
      <4> SUFFICES ASSUME NEW r \in Steps, r < s + 1 PROVE QuorumIn(approvals, i, r)
        OBVIOUS
      <4>1. r < s \/ r = s
        BY <2>1, StepOrder
      <4> QED BY <2>1, <3>1, <4>1
    <3>4. RowOK(moved, i, approvals)
      BY <1>0, <2>1, <3>2, <3>3 DEF RowOK
    <3>5. instances' = [instances EXCEPT ![i] = moved] /\ UNCHANGED <<plan, approvals>>
      BY <1>7, <2>4 DEF Decide
    <3>6. moved.status # "NONE"
      BY <2>1, <3>2 DEF Exists
    <3>7. PICK job \in Task : /\ Become(t, job) /\ job.pc \in {"idle", "plan"}
                              /\ job.pc = "plan" => job.id = i /\ job.plan # "" /\ instances[i].status = "APPROVED"
      <4>1. CASE instances[i].status = "APPROVED"
        <5>1. PlanNext(t, i)
          BY <1>7, <2>4, <4>1 DEF Decide
        <5> HIDE DEF i
        <5> QED BY <2>1, <4>1, <5>1, PlanNextType, ZenonT(60)
      <4>2. CASE instances[i].status # "APPROVED"
        <5>1. Become(t, Rest)
          BY <1>7, <2>4, <4>2 DEF Decide, End
        <5> QED BY <5>1
      <4> QED BY <4>1, <4>2
    <3>8. JobOK(job, instances', approvals)
      BY <1>0, <2>1, <3>7 DEF JobOK, RowOK
    <3> HIDE DEF i, s, moved
    <3> QED BY <2>1, <3>2, <3>4, <3>5, <3>6, <3>7, <3>8, InstanceBacked
  <2>5. CASE HasQuorum(i, s) /\ IsLastStep(s)
    <3>1. \A r \in Steps : QuorumIn(approvals, i, r)
      <4> SUFFICES ASSUME NEW r \in Steps PROVE QuorumIn(approvals, i, r)
        OBVIOUS
      <4>1. QuorumIn(approvals, i, s)
        BY <2>5 DEF HasQuorum, UniqueApprovals, QuorumIn
      <4>2. r < s \/ r = s
        BY <2>1, <2>5, StepOrder
      <4> QED BY <2>1, <4>1, <4>2
    <3>2. done \in InstanceRow /\ done.status = "APPROVED"
      BY <2>1 DEF Statuses, Instance, InstanceRow
    <3>3. RowOK(done, i, approvals)
      BY <3>1 DEF RowOK
    <3>4. PICK job \in Task : /\ Become(t, job) /\ job.pc \in {"idle", "plan"}
                              /\ job.pc = "plan" => job.id = i /\ job.plan # ""
      BY <1>7, <2>1, <2>5, PlanNextType DEF Decide
    <3>5. instances' = [instances EXCEPT ![i] = done] /\ UNCHANGED <<plan, approvals>>
      BY <1>7, <2>5 DEF Decide
    <3>6. JobOK(job, instances', approvals)
      BY <3>1, <3>4 DEF JobOK
    <3> HIDE DEF i, s, done
    <3> QED BY <2>1, <3>2, <3>3, <3>4, <3>5, <3>6, InstanceBacked
  <2> QED BY <2>3, <2>4, <2>5
<1>8. ASSUME NEW t \in Tasks, WriteVerdict(t)
      PROVE  Backed'
  <2> DEFINE i == tasks[t].id
             st == IF tasks[t].write = "IN_PROGRESS" THEN 1 ELSE instances[i].step
             row == Instance(tasks[t].write, st, instances[i].by)
  <2>1. i \in Ids /\ tasks[t].write \in Statuses /\ tasks[t].write \notin {"NONE", "APPROVED"}
    BY <1>0, <1>8 DEF WriteVerdict, JobOK, Statuses
  <2>2. st \in Steps /\ \A s \in Steps : s < st => s < instances[i].step
    BY <2>1, StepOrder
  <2>3. row \in InstanceRow /\ row.status = tasks[t].write /\ row.step = st
    <3> HIDE DEF st
    <3> QED BY <2>1, <2>2 DEF Instance, InstanceRow
  <2>4. RowOK(row, i, approvals)
    BY <1>0, <2>1, <2>2, <2>3 DEF RowOK
  <2>5. PICK job \in Task : /\ Become(t, job) /\ job.pc \in {"idle", "plan"}
                            /\ job.pc = "plan" => job.id = 0 /\ job.plan # ""
    BY <1>8, PlanNextType DEF WriteVerdict
  <2>6. instances' = [instances EXCEPT ![i] = row] /\ UNCHANGED <<plan, approvals>>
    BY <1>8 DEF WriteVerdict
  <2>7. JobOK(job, instances', approvals)
    BY <2>5 DEF JobOK
  <2> HIDE DEF i, row
  <2> QED BY <2>1, <2>3, <2>4, <2>5, <2>6, <2>7, InstanceBacked
<1>9. ASSUME NEW t \in Tasks, CheckActive(t)
      PROVE  Backed'
  <2> DEFINE next == Job("create", tasks[t].user, 0, 1, "", tasks[t].plan)
  <2>1. next \in Task
    BY JobType
  <2>2. JobOK(next, instances, approvals) /\ JobOK(Rest, instances, approvals)
    BY DEF JobOK, Job, Rest
  <2>3. PICK job \in {Rest, next} : Become(t, job)
    BY <1>9 DEF CheckActive, End
  <2>4. UNCHANGED <<plan, instances, approvals>>
    BY <1>9 DEF CheckActive
  <2> HIDE DEF next
  <2> QED BY <2>1, <2>2, <2>3, <2>4, TaskBacked
<1>10. ASSUME NEW t \in Tasks, NEW i \in Ids, CreateInstance(t, i)
       PROVE  Backed'
  <2> DEFINE row == Instance("IN_PROGRESS", 1, tasks[t].user)
  <2>1. row \in InstanceRow /\ row.status = "IN_PROGRESS" /\ row.step = 1
    BY DEF Statuses, Instance, InstanceRow
  <2>2. RowOK(row, i, approvals)
    <3>1. \A s \in Steps : ~(s < 1)
      BY StepOrder
    <3> QED BY <2>1, <3>1 DEF RowOK
  <2>3. PICK job \in Task : /\ Become(t, job) /\ job.pc \in {"idle", "plan"}
                            /\ job.pc = "plan" => job.id = 0 /\ job.plan # ""
    BY <1>10, PlanNextType DEF CreateInstance
  <2>4. instances' = [instances EXCEPT ![i] = row] /\ UNCHANGED <<plan, approvals>>
    BY <1>10 DEF CreateInstance
  <2>5. JobOK(job, instances', approvals)
    BY <2>3 DEF JobOK
  <2> HIDE DEF row
  <2> QED BY <2>1, <2>2, <2>3, <2>4, <2>5, InstanceBacked
<1>11. ASSUME NEW t \in Tasks, WritePlan(t)
       PROVE  Backed'
  <2>1. Become(t, Rest) /\ UNCHANGED <<instances, approvals>>
    BY <1>11 DEF WritePlan, End
  <2>2. TasksOK'
    <3>1. JobOK(Rest, instances, approvals)
      BY DEF JobOK
    <3>2. \A r \in Tasks : tasks'[r] = IF r = t THEN Rest ELSE tasks[r]
      BY <2>1, TasksType DEF ApprovalsTypeOK
    <3> QED BY <1>0, <2>1, <3>1, <3>2 DEF TasksOK
  <2>3. PlanOK(plan', approvals)
    BY <1>0, <1>11 DEF WritePlan, JobOK, PlanOK
  <2> QED BY <1>0, <2>1, <2>2, <2>3 DEF Backed, RowsOK
<1>12. ASSUME NEW t \in Tasks, GiveUp(t)
       PROVE  Backed'
  <2>1. Become(t, Rest) /\ UNCHANGED <<plan, instances, approvals>>
    BY <1>12 DEF GiveUp, End
  <2>2. JobOK(Rest, instances, approvals)
    BY DEF JobOK
  <2> QED BY <2>1, <2>2, TaskBacked
<1>13. Submitters \subseteq Users
  BY ApprovalsAssumption
<1> QED
  BY <1>1, <1>2, <1>3, <1>4, <1>5, <1>6, <1>7, <1>8, <1>9, <1>10, <1>11, <1>12, <1>13 DEF ApprovalsNext, Step

-----------------------------------------------------------------------------
(* Requests that do not overlap.                                           *)

Undecided == {"IN_PROGRESS", "ON_HOLD"}

LEMMA InitUncontested == ApprovalsInit => Uncontested
BY EmptyTypes DEF ApprovalsInit, Uncontested, Working, ActiveInstances

\* A request that stops working on instances, or has not read one, and writes
\* no instance.
LEMMA QuietStep ==
    ASSUME ApprovalsTypeOK, Uncontested, NEW t \in Tasks, NEW job \in Task, Become(t, job),
           job.pc \in {"idle", "check", "plan"}, UNCHANGED <<instances, contested>>
    PROVE  Uncontested'
<1>1. \A r \in Tasks : tasks'[r] = IF r = t THEN job ELSE tasks[r]
  BY TasksType DEF ApprovalsTypeOK
<1>2. \A r \in Tasks : Working(r)' => Working(r) /\ r # t /\ tasks'[r] = tasks[r]
  BY <1>1 DEF Working
<1>3. \A r \in Tasks : tasks'[r].pc = "create" => tasks[r].pc = "create"
  BY <1>1
<1>4. ActiveInstances' = ActiveInstances
  BY DEF ActiveInstances
<1> QED BY <1>2, <1>3, <1>4 DEF Uncontested

\* A request that reads an undecided instance nobody else is working on.
LEMMA ReadStep ==
    ASSUME ApprovalsTypeOK, TasksOK, Uncontested, NEW t \in Tasks, NEW i \in Ids,
           NEW job \in Task, Become(t, job), job.pc \in {"record", "write"}, job.id = i,
           instances[i].status \in Undecided, Contest(t, i), UNCHANGED instances
    PROVE  Uncontested'
<1> SUFFICES ASSUME ~contested' PROVE Uncontested'
  BY DEF Uncontested
<1>1. \A r \in Tasks : tasks'[r] = IF r = t THEN job ELSE tasks[r]
  BY TasksType DEF ApprovalsTypeOK
<1>2. ~contested /\ \A r \in Tasks : r # t /\ Working(r) => tasks[r].id # i
  BY DEF Contest, Working
<1>3. \A r \in Tasks : Working(r)' => \/ r = t /\ tasks'[r].id = i
                                      \/ r # t /\ Working(r) /\ tasks'[r] = tasks[r]
  BY <1>1 DEF Working
<1>4. \A r \in Tasks : tasks'[r].pc = "create" => tasks[r].pc = "create"
  BY <1>1
<1>5. ActiveInstances' = ActiveInstances
  BY DEF ActiveInstances
<1> QED BY <1>2, <1>3, <1>4, <1>5 DEF Uncontested, Undecided

\* A request that writes the instance it is working on.
LEMMA WriteStep ==
    ASSUME ApprovalsTypeOK, TasksOK, Uncontested, NEW t \in Tasks, Working(t),
           NEW job \in Task, Become(t, job), job.pc \in {"idle", "plan"},
           NEW row \in InstanceRow, instances' = [instances EXCEPT ![tasks[t].id] = row],
           UNCHANGED contested
    PROVE  Uncontested'
<1> SUFFICES ASSUME ~contested PROVE Uncontested'
  BY DEF Uncontested
<1> DEFINE i == tasks[t].id
<1>1. \A r \in Tasks : tasks'[r] = IF r = t THEN job ELSE tasks[r]
  BY TasksType DEF ApprovalsTypeOK
<1>2. i \in Ids
  BY DEF TasksOK, JobOK, Working
<1>3. \A j \in Ids : instances'[j] = IF j = i THEN row ELSE instances[j]
  BY <1>2 DEF ApprovalsTypeOK
<1>4. \A r \in Tasks : Working(r)' => Working(r) /\ r # t /\ tasks'[r] = tasks[r]
  BY <1>1 DEF Working
<1>5. \A r \in Tasks : Working(r) => tasks[r].id \in Ids
  BY DEF TasksOK, JobOK, Working
<1>6. i \in ActiveInstances
  BY <1>2 DEF Uncontested, ActiveInstances
<1>7. \A r \in Tasks : tasks'[r].pc = "create" => tasks[r].pc = "create"
  BY <1>1
<1>8. ActiveInstances' \subseteq ActiveInstances
  BY <1>3, <1>6 DEF ActiveInstances
<1>9. \A r \in Tasks : Working(r)' => instances'[tasks'[r].id].status \in {"IN_PROGRESS", "ON_HOLD"}
  BY <1>3, <1>4, <1>5 DEF Uncontested
<1> QED BY <1>4, <1>6, <1>7, <1>8, <1>9 DEF Uncontested

LEMMA UncontestedStep ==
    ASSUME ApprovalsTypeOK, TasksOK, Uncontested, [ApprovalsNext]_approvalVars
    PROVE  Uncontested'
<1>1. CASE SwitchTemplate \/ UNCHANGED approvalVars
  BY <1>1 DEF SwitchTemplate, approvalVars, Uncontested, Working, ActiveInstances
<1>2. ASSUME NEW t \in Tasks, NEW u \in Users, NEW i \in Ids, NEW onPlan \in BOOLEAN,
             ReadForApproval(t, u, i, onPlan)
      PROVE  Uncontested'
  <2> DEFINE job == Job("record", u, i, instances[i].step, "", IF onPlan THEN "APPROVED" ELSE "")
  <2>1. job \in Task /\ job.pc = "record" /\ job.id = i
    BY EmptyTypes, RowTypes DEF Job, Task, PlanStatuses
  <2>2. Become(t, job) /\ instances[i].status \in Undecided /\ Contest(t, i) /\ UNCHANGED instances
    BY <1>2 DEF ReadForApproval, Undecided
  <2> HIDE DEF job
  <2> QED BY <2>1, <2>2, ReadStep
<1>3. ASSUME NEW t \in Tasks, NEW u \in Users, NEW i \in Ids, NEW onPlan \in BOOLEAN,
             NEW write \in {"REJECTED", "ON_HOLD", "CANCELLED", "IN_PROGRESS"},
             ReadForVerdict(t, u, i, write, onPlan)
      PROVE  Uncontested'
  <2> DEFINE job == Job("write", Anyone, i, 1, write, IF onPlan THEN "DRAFT" ELSE "")
  <2>1. job \in Task /\ job.pc = "write" /\ job.id = i
    BY EmptyTypes DEF Job, Task, PlanStatuses, Statuses
  <2>2. Become(t, job) /\ Contest(t, i) /\ UNCHANGED instances
    BY <1>3 DEF ReadForVerdict
  <2>3. instances[i].status \in Undecided
    BY <1>3 DEF ReadForVerdict, MayReject, MayReturn, MayCancel, MayResubmit, Undecided
  <2> HIDE DEF job
  <2> QED BY <2>1, <2>2, <2>3, ReadStep
<1>4. ASSUME NEW t \in Tasks, NEW u \in Users, StartWorkflow(t, u) \/ Submit(t, u)
      PROVE  Uncontested'
  <2>1. /\ Job("check", u, 0, 1, "", "") \in Task
        /\ Job("check", u, 0, 1, "", "IN_REVIEW") \in Task
        /\ Job("plan", Anyone, 0, 1, "", "APPROVED") \in Task
    BY EmptyTypes, JobType, ZenonT(60) DEF PlanStatuses
  <2>2. /\ Job("check", u, 0, 1, "", "").pc = "check"
        /\ Job("check", u, 0, 1, "", "IN_REVIEW").pc = "check"
        /\ Job("plan", Anyone, 0, 1, "", "APPROVED").pc = "plan"
    BY DEF Job
  <2>3. PICK job \in Task : Become(t, job) /\ job.pc \in {"idle", "check", "plan"}
    BY <1>4, <2>1, <2>2 DEF StartWorkflow, Submit
  <2>4. UNCHANGED <<instances, contested>>
    BY <1>4 DEF StartWorkflow, Submit
  <2> QED BY <2>3, <2>4, QuietStep
<1>5. ASSUME NEW t \in Tasks, Lock(t) \/ Unlock(t) \/ Archive(t)
      PROVE  Uncontested'
  <2>1. ASSUME NEW i \in 0..MaxInstances, NEW to \in {"LOCKED", "UNLOCKED", "ARCHIVED"}
        PROVE  Job("plan", Anyone, i, 1, "", to) \in Task /\ Job("plan", Anyone, i, 1, "", to).pc = "plan"
    BY EmptyTypes DEF Job, Task, PlanStatuses
  <2>2. PICK job \in Task : Become(t, job) /\ job.pc \in {"idle", "check", "plan"}
    BY <1>5, <2>1, EmptyTypes DEF Lock, Unlock, Archive
  <2>3. UNCHANGED <<instances, contested>>
    BY <1>5 DEF Lock, Unlock, Archive
  <2> QED BY <2>2, <2>3, QuietStep
<1>6. ASSUME NEW t \in Tasks, RecordApproval(t)
      PROVE  Uncontested'
  <2> DEFINE next == Job("decide", Anyone, tasks[t].id, tasks[t].step, "", tasks[t].plan)
  <2>1. next \in Task /\ next.pc = "decide" /\ next.id = tasks[t].id
    BY EmptyTypes, RowTypes, JobType DEF Job
  <2>2. Working(t) /\ UNCHANGED <<instances, contested>>
    BY <1>6 DEF RecordApproval, Working
  <2>3. CASE Become(t, Rest)
    BY <2>2, <2>3, EmptyTypes, QuietStep
  <2>4. CASE Become(t, next)
    <3> HIDE DEF next
    <3>1. \A r \in Tasks : tasks'[r] = IF r = t THEN next ELSE tasks[r]
      BY <2>1, <2>4, TasksType DEF ApprovalsTypeOK
    <3>2. \A r \in Tasks : Working(r)' => Working(r) /\ tasks'[r].id = tasks[r].id
      BY <2>1, <2>2, <3>1 DEF Working
    <3>3. \A r \in Tasks : tasks'[r].pc = "create" => tasks[r].pc = "create"
      BY <2>1, <3>1
    <3>4. ActiveInstances' = ActiveInstances
      BY <2>2 DEF ActiveInstances
    <3> QED BY <2>2, <3>2, <3>3, <3>4 DEF Uncontested
  <2> QED BY <1>6, <2>3, <2>4 DEF RecordApproval, End
<1>7. ASSUME NEW t \in Tasks, Decide(t)
      PROVE  Uncontested'
  <2>1. Working(t) /\ UNCHANGED contested /\ tasks[t].id \in Ids /\ tasks[t].step \in Steps
    BY <1>7, RowTypes DEF Decide, Working, TasksOK, JobOK
  <2>2. CASE ~HasQuorum(tasks[t].id, tasks[t].step)
    <3>1. Become(t, Rest) /\ UNCHANGED <<instances, contested>>
      BY <1>7, <2>2 DEF Decide, End
    <3> QED BY <3>1, EmptyTypes, QuietStep
  <2>3. CASE HasQuorum(tasks[t].id, tasks[t].step)
    <3>1. PICK job \in Task : Become(t, job) /\ job.pc \in {"idle", "plan"}
      BY <1>7, <2>1, <2>3, EmptyTypes, PlanNextType DEF Decide, End
    <3>2. PICK row \in InstanceRow : instances' = [instances EXCEPT ![tasks[t].id] = row]
      <4>1. ~IsLastStep(tasks[t].step) =>
               Instance(instances[tasks[t].id].status, tasks[t].step + 1, instances[tasks[t].id].by) \in InstanceRow
        BY <2>1, RowTypes, NextStepType DEF Instance, InstanceRow
      <4>2. Instance("APPROVED", instances[tasks[t].id].step, instances[tasks[t].id].by) \in InstanceRow
        BY <2>1, RowTypes DEF Instance, InstanceRow, Statuses
      <4> QED BY <1>7, <2>3, <4>1, <4>2 DEF Decide
    <3> QED BY <2>1, <3>1, <3>2, WriteStep
  <2> QED BY <2>2, <2>3
<1>8. ASSUME NEW t \in Tasks, WriteVerdict(t)
      PROVE  Uncontested'
  <2>1. /\ Working(t) /\ UNCHANGED contested /\ tasks[t].id \in Ids
        /\ tasks[t].write \in {"REJECTED", "ON_HOLD", "CANCELLED", "IN_PROGRESS"}
    BY <1>8 DEF WriteVerdict, Working, TasksOK, JobOK
  <2>2. PICK job \in Task : Become(t, job) /\ job.pc \in {"idle", "plan"}
    BY <1>8, EmptyTypes, PlanNextType DEF WriteVerdict
  <2>3. PICK row \in InstanceRow : instances' = [instances EXCEPT ![tasks[t].id] = row]
    <3>1. Instance(tasks[t].write, IF tasks[t].write = "IN_PROGRESS" THEN 1 ELSE instances[tasks[t].id].step,
                   instances[tasks[t].id].by) \in InstanceRow
      BY <2>1, EmptyTypes, RowTypes DEF Instance, InstanceRow, Statuses
    <3> QED BY <1>8, <3>1 DEF WriteVerdict
  <2> QED BY <2>1, <2>2, <2>3, WriteStep
<1>9. ASSUME NEW t \in Tasks, CheckActive(t)
      PROVE  Uncontested'
  <2> DEFINE next == Job("create", tasks[t].user, 0, 1, "", tasks[t].plan)
  <2>1. next \in Task /\ next.pc = "create"
    BY EmptyTypes, RowTypes, JobType DEF Job
  <2>2. CASE ~(active /\ NoActiveInstance)
    BY <1>9, <2>2, EmptyTypes, QuietStep DEF CheckActive, End
  <2>3. CASE active /\ NoActiveInstance
    <3>1. Become(t, next) /\ Contest(t, 0) /\ UNCHANGED instances /\ ActiveInstances = {}
      BY <1>9, <2>3 DEF CheckActive, NoActiveInstance
    <3> HIDE DEF next
    <3> SUFFICES ASSUME ~contested' PROVE Uncontested'
      BY DEF Uncontested
    <3>2. \A r \in Tasks : tasks'[r] = IF r = t THEN next ELSE tasks[r]
      BY <2>1, <3>1, TasksType DEF ApprovalsTypeOK
    <3>3. ~contested /\ \A r \in Tasks : r # t => tasks[r].pc # "create"
      BY <3>1 DEF Contest, TasksOK, JobOK
    <3>4. \A r \in Tasks : Working(r)' => Working(r) /\ tasks'[r] = tasks[r]
      BY <2>1, <3>2 DEF Working
    <3>5. ActiveInstances' = {}
      BY <3>1 DEF ActiveInstances
    <3>6. \A r \in Tasks : tasks'[r].pc = "create" => r = t
      BY <3>2, <3>3
    <3> QED BY <3>1, <3>3, <3>4, <3>5, <3>6 DEF Uncontested
  <2> QED BY <2>2, <2>3
<1>10. ASSUME NEW t \in Tasks, NEW i \in Ids, CreateInstance(t, i)
       PROVE  Uncontested'
  <2>1. /\ tasks[t].pc = "create" /\ UNCHANGED contested /\ ~Exists(i)
        /\ instances' = [instances EXCEPT ![i] = Instance("IN_PROGRESS", 1, tasks[t].user)]
    BY <1>10 DEF CreateInstance
  <2>2. PICK job \in Task : Become(t, job) /\ job.pc \in {"idle", "plan"}
    BY <1>10, EmptyTypes, PlanNextType DEF CreateInstance
  <2> SUFFICES ASSUME ~contested PROVE Uncontested'
    BY <2>1 DEF Uncontested
  <2>3. \A r \in Tasks : tasks'[r] = IF r = t THEN job ELSE tasks[r]
    BY <2>2, TasksType DEF ApprovalsTypeOK
  <2>4. \A j \in Ids : j # i => instances'[j] = instances[j]
    BY <2>1 DEF ApprovalsTypeOK
  <2>5. \A r \in Tasks : Working(r)' => Working(r) /\ tasks'[r] = tasks[r] /\ tasks[r].id \in Ids \ {i}
    BY <2>1, <2>2, <2>3 DEF Working, TasksOK, JobOK, Exists
  <2>6. \A r \in Tasks : tasks'[r].pc # "create"
    BY <2>1, <2>2, <2>3 DEF Uncontested
  <2>7. ActiveInstances' \subseteq {i}
    BY <2>1, <2>4 DEF Uncontested, ActiveInstances
  <2> QED BY <2>4, <2>5, <2>6, <2>7 DEF Uncontested
<1>11. ASSUME NEW t \in Tasks, WritePlan(t) \/ GiveUp(t)
       PROVE  Uncontested'
  <2>1. Become(t, Rest) /\ UNCHANGED <<instances, contested>>
    BY <1>11 DEF WritePlan, GiveUp, End
  <2> QED BY <2>1, EmptyTypes, QuietStep
<1>12. Submitters \subseteq Users
  BY ApprovalsAssumption
<1> QED
  BY <1>1, <1>2, <1>3, <1>4, <1>5, <1>6, <1>7, <1>8, <1>9, <1>10, <1>11, <1>12 DEF ApprovalsNext, Step

-----------------------------------------------------------------------------
(* The theorems.                                                           *)

LEMMA InductiveInvariant == ApprovalsSpec => []ApprovalsInv
<1>1. ApprovalsInit => ApprovalsInv
  BY InitType, InitBacked, InitUncontested DEF ApprovalsInv
<1>2. ApprovalsInv /\ [ApprovalsNext]_approvalVars => ApprovalsInv'
  <2> SUFFICES ASSUME ApprovalsInv, [ApprovalsNext]_approvalVars PROVE ApprovalsInv'
    OBVIOUS
  <2>1. ApprovalsTypeOK /\ Backed /\ TasksOK /\ Uncontested
    BY DEF ApprovalsInv, Backed
  <2>2. ApprovalsTypeOK'
    BY <2>1, TypeStep
  <2>3. Backed'
    BY <2>1, BackedStep
  <2>4. Uncontested'
    BY <2>1, UncontestedStep
  <2> QED BY <2>2, <2>3, <2>4 DEF ApprovalsInv
<1> QED BY <1>1, <1>2, PTL DEF ApprovalsSpec

\* The rows and the requests in flight keep their types, for every template
\* (assertTemplateStepsIntegrity) and number of requests.
THEOREM ApprovalsTypes == ApprovalsSpec => []ApprovalsTypeOK
<1>1. ApprovalsInv => ApprovalsTypeOK
  BY DEF ApprovalsInv
<1> QED BY <1>1, InductiveInvariant, PTL

\* What approve wrote as APPROVED, and a plan approved or locked on it, has the
\* required approvals at every step, however the requests interleave.
THEOREM ApprovedHasQuorums == ApprovalsSpec => []ApprovedIsSignedOff
<1>1. ApprovalsInv => ApprovedIsSignedOff
  <2> SUFFICES ASSUME ApprovalsInv PROVE ApprovedIsSignedOff
    OBVIOUS
  <2>1. ASSUME NEW i, \A s \in Steps : QuorumIn(approvals, i, s)
        PROVE  SignedOff(i)
    BY <2>1 DEF SignedOff, QuorumIn
  <2>2. \A i \in Ids : instances[i].status = "APPROVED" => SignedOff(i)
    BY <2>1 DEF ApprovalsInv, Backed, RowsOK, RowOK
  <2>3. plan.status \in {"APPROVED", "LOCKED"} /\ plan.basis # 0 => SignedOff(plan.basis)
    BY <2>1 DEF ApprovalsInv, Backed, PlanOK
  <2> QED BY <2>2, <2>3 DEF ApprovedIsSignedOff
<1> QED BY <1>1, InductiveInvariant, PTL

\* "An active workflow already exists for this entity" (startWorkflow) keeps
\* its word unless two requests overlapped.
THEOREM OneActive == ApprovalsSpec => []OneActiveInstance
<1>1. ApprovalsInv => OneActiveInstance
  <2> SUFFICES ASSUME ApprovalsInv, ~contested PROVE Cardinality(ActiveInstances) <= 1
    BY DEF OneActiveInstance
  <2>1. \A i, j \in ActiveInstances : i = j
    BY DEF ApprovalsInv, Uncontested
  <2>2. CASE ActiveInstances = {}
    <3>1. Cardinality({}) = 0
      BY FS_EmptySet
    <3> QED BY <2>2, <3>1
  <2>3. CASE ActiveInstances # {}
    <3>1. PICK i \in ActiveInstances : TRUE
      BY <2>3
    <3>2. ActiveInstances = {i}
      BY <2>1, <3>1
    <3>3. Cardinality({i}) = 1
      BY FS_Singleton
    <3> QED BY <3>2, <3>3
  <2> QED BY <2>2, <2>3
<1> QED BY <1>1, InductiveInvariant, PTL

\* A step that writes instance i: a new one, or the one its request has read.
Writes(i) ==
    /\ UNCHANGED approvals
    /\ \A j \in Ids : j # i => instances'[j] = instances[j]
    /\ instances'[i].status # "NONE"
    /\ ~Exists(i) \/ \E t \in Tasks : Working(t) /\ tasks[t].id = i

LEMMA InstanceWrites ==
    ASSUME ApprovalsTypeOK, TasksOK, ApprovalsNext
    PROVE  \/ UNCHANGED <<instances, approvals>>
           \/ \E t \in Tasks : RecordApproval(t)
           \/ \E i \in Ids : Writes(i)
<1>1. ASSUME NEW t \in Tasks, Decide(t) \/ WriteVerdict(t)
      PROVE  UNCHANGED <<instances, approvals>> \/ \E i \in Ids : Writes(i)
  <2>1. Working(t) /\ tasks[t].id \in Ids /\ Exists(tasks[t].id) /\ UNCHANGED approvals
    BY <1>1 DEF Decide, WriteVerdict, Working, TasksOK, JobOK, Exists
  <2>2. instances' = instances \/ \E row : instances' = [instances EXCEPT ![tasks[t].id] = row] /\ row.status # "NONE"
    <3>1. CASE Decide(t)
      BY <2>1, <3>1 DEF Decide, Instance, Exists
    <3>2. CASE WriteVerdict(t)
      <4>1. tasks[t].write # "NONE"
        BY <3>2 DEF WriteVerdict, TasksOK, JobOK
      <4> DEFINE row == Instance(tasks[t].write, IF tasks[t].write = "IN_PROGRESS" THEN 1 ELSE instances[tasks[t].id].step,
                                 instances[tasks[t].id].by)
      <4>2. instances' = [instances EXCEPT ![tasks[t].id] = row]
        BY <3>2 DEF WriteVerdict
      <4>3. row.status # "NONE"
        BY <4>1 DEF Instance
      <4> HIDE DEF row
      <4> QED BY <4>2, <4>3
    <3> QED BY <1>1, <3>1, <3>2
  <2>3. CASE instances' # instances
    <3>1. Writes(tasks[t].id)
      BY <2>1, <2>2, <2>3 DEF ApprovalsTypeOK, Writes
    <3> QED BY <2>1, <3>1
  <2> QED BY <2>1, <2>3
<1>2. ASSUME NEW t \in Tasks, NEW i \in Ids, CreateInstance(t, i)
      PROVE  Writes(i)
  BY <1>2 DEF CreateInstance, Writes, ApprovalsTypeOK, Instance
<1>3. ASSUME NEW t \in Tasks, NEW u \in Users, NEW i \in Ids, NEW onPlan \in BOOLEAN,
             \/ ReadForApproval(t, u, i, onPlan)
             \/ \E write \in {"REJECTED", "ON_HOLD", "CANCELLED", "IN_PROGRESS"} :
                   ReadForVerdict(t, u, i, write, onPlan)
      PROVE  UNCHANGED <<instances, approvals>>
  BY <1>3 DEF ReadForApproval, ReadForVerdict
<1>4. ASSUME NEW t \in Tasks, NEW u \in Submitters, StartWorkflow(t, u) \/ Submit(t, u)
      PROVE  UNCHANGED <<instances, approvals>>
  BY <1>4 DEF StartWorkflow, Submit
<1>5. ASSUME NEW t \in Tasks,
             \/ Lock(t) \/ Unlock(t) \/ Archive(t)
             \/ CheckActive(t) \/ WritePlan(t) \/ GiveUp(t)
      PROVE  UNCHANGED <<instances, approvals>>
  BY <1>5 DEF Lock, Unlock, Archive, CheckActive, WritePlan, GiveUp
<1>6. SwitchTemplate => UNCHANGED <<instances, approvals>>
  BY DEF SwitchTemplate
<1>7. CASE SwitchTemplate
  BY <1>6, <1>7
<1>8. CASE \E t \in Tasks, u \in Users, i \in Ids, onPlan \in BOOLEAN :
              \/ ReadForApproval(t, u, i, onPlan)
              \/ \E write \in {"REJECTED", "ON_HOLD", "CANCELLED", "IN_PROGRESS"} :
                    ReadForVerdict(t, u, i, write, onPlan)
  BY <1>3, <1>8
<1>9. CASE \E t \in Tasks, u \in Submitters : StartWorkflow(t, u) \/ Submit(t, u)
  BY <1>4, <1>9
<1>10. CASE \E t \in Tasks : \/ Lock(t) \/ Unlock(t) \/ Archive(t)
                             \/ CheckActive(t) \/ WritePlan(t) \/ GiveUp(t)
  BY <1>5, <1>10
<1>11. CASE \E t \in Tasks : Decide(t) \/ WriteVerdict(t)
  BY <1>1, <1>11
<1>12. CASE \E t \in Tasks, i \in Ids : CreateInstance(t, i)
  BY <1>2, <1>12
<1>13. CASE \E t \in Tasks : RecordApproval(t)
  BY <1>13
<1> QED BY <1>13, <1>7, <1>8, <1>9, <1>10, <1>11, <1>12 DEF ApprovalsNext, Step

\* "Workflow is not in progress" (approve, reject): a decided instance is not
\* written again unless two requests overlapped on one.
THEOREM VerdictsAreFinal == ApprovalsSpec => VerdictsStand
<1>1. ApprovalsInv /\ [ApprovalsNext]_approvalVars
      => [\A i \in Ids : Decided(i) /\ instances'[i] # instances[i] => contested]_approvalVars
  <2> SUFFICES ASSUME ApprovalsInv, ApprovalsNext, NEW i \in Ids, Decided(i), instances'[i] # instances[i], ~contested
               PROVE  FALSE
    OBVIOUS
  <2>1. ApprovalsTypeOK /\ TasksOK /\ Uncontested
    BY DEF ApprovalsInv, Backed
  <2>2. \/ \E t \in Tasks : Working(t) /\ tasks[t].id = i
        \/ ~Exists(i)
    BY <2>1, InstanceWrites DEF RecordApproval, Writes
  <2>3. instances[i].status \in {"IN_PROGRESS", "ON_HOLD", "NONE"}
    BY <2>1, <2>2 DEF Uncontested, Exists
  <2> QED BY <2>3 DEF Decided
<1> QED BY <1>1, InductiveInvariant, PTL DEF ApprovalsSpec, VerdictsStand

-----------------------------------------------------------------------------
(* The rows implement SignOff.                                             *)

LEMMA SameQuorum ==
    ASSUME NEW rows, NEW i, NEW s
    PROVE  Promise!Quorum(rows, i, s) <=> QuorumIn(rows, i, s)
BY DEF Promise!Quorum, Promise!Signers, QuorumIn, Cardinality, Promise!Cardinality, IsFiniteSet, Promise!IsFiniteSet

\* What backs a row is what a verdict of SignOff asks for.
LEMMA WriteIsRule ==
    ASSUME ApprovalsTypeOK, ApprovalsTypeOK', RowsOK', NEW i \in Ids, Writes(i)
    PROVE  \E yes \in BOOLEAN : Promise!Rule(i, instances'[i].step, yes)
<1> DEFINE row == instances'[i]
           reached == [j \in Ids |-> IF Exists(j) THEN instances[j].step ELSE 0]
           approved == {j \in Ids : instances[j].status = "APPROVED"}
<1>1. row.step \in Steps /\ row.status # "NONE" /\ approvals' = approvals
  BY DEF ApprovalsTypeOK, Writes
<1>2. RowOK(row, i, approvals)
  BY <1>1 DEF RowsOK
<1>3. Promise!CompleteBelow(approvals, i, row.step)
  BY <1>2, SameQuorum DEF RowOK, Promise!CompleteBelow, Promise!Steps, Steps
<1>4. row.status = "APPROVED" => Promise!CompleteBelow(approvals, i, NSteps + 1)
  BY <1>2, SameQuorum DEF RowOK, Promise!CompleteBelow, Promise!Steps, Steps
<1>5. reached' = [reached EXCEPT ![i] = row.step]
  BY <1>1 DEF Writes, Exists
<1>6. CASE row.status = "APPROVED"
  <2>1. approved' = approved \cup {i}
    BY <1>6 DEF Writes
  <2>2. Promise!Rule(i, row.step, TRUE)
    BY <1>1, <1>3, <1>4, <1>5, <1>6, <2>1 DEF Promise!Rule, Promise!MoveTo
  <2> QED BY <2>2
<1>7. CASE row.status # "APPROVED"
  <2>1. approved' = approved \ {i}
    BY <1>7 DEF Writes
  <2>2. Promise!Rule(i, row.step, FALSE)
    BY <1>1, <1>3, <1>5, <2>1 DEF Promise!Rule, Promise!MoveTo
  <2> QED BY <2>2
<1> QED BY <1>6, <1>7

LEMMA RecordIsSign ==
    ASSUME ApprovalsTypeOK, TasksOK, NEW t \in Tasks, RecordApproval(t)
    PROVE  UNCHANGED Promise!signOffVars \/ Promise!Sign(tasks[t].id, tasks[t].step, tasks[t].user)
<1> DEFINE i == tasks[t].id
           s == tasks[t].step
           row == [id |-> tasks[t].id, step |-> tasks[t].step, user |-> tasks[t].user]
<1>1. UNCHANGED instances /\ (approvals' = approvals \/ approvals' = approvals \cup {row})
  BY DEF RecordApproval
<1>2. tasks[t].user \in MayApprove[s] /\ \A r \in Steps : r < s => QuorumIn(approvals, i, r)
  BY DEF RecordApproval, TasksOK, JobOK
<1>3. Promise!CompleteBelow(approvals, i, s)
  BY <1>2, SameQuorum DEF Promise!CompleteBelow, Promise!Steps, Steps
<1> QED BY <1>1, <1>2, <1>3 DEF Promise!Sign, Promise!signOffVars, Exists

\* Whatever the interleaving of the requests, every behaviour of the code is
\* one of SignOff: signatures are permanent, authorised and in the order of the
\* steps, and the verdict APPROVED has them all.
THEOREM ApprovalsImplementSignOff == ApprovalsSpec => SignOffSpec
<1>1. ApprovalsInit => Promise!SignOffInit
  BY EmptyTypes DEF ApprovalsInit, Promise!SignOffInit, Promise!Ids, Ids, Exists
<1>2. ApprovalsInv /\ ApprovalsInv' /\ [ApprovalsNext]_approvalVars => [Promise!SignOffNext]_(Promise!signOffVars)
  <2> SUFFICES ASSUME ApprovalsInv, ApprovalsInv', [ApprovalsNext]_approvalVars
               PROVE  Promise!SignOffNext \/ UNCHANGED Promise!signOffVars
    OBVIOUS
  <2>1. ApprovalsTypeOK /\ TasksOK /\ ApprovalsTypeOK' /\ RowsOK'
    BY DEF ApprovalsInv, Backed
  <2>2. CASE UNCHANGED <<instances, approvals>>
    BY <2>2 DEF Promise!signOffVars, Exists
  <2>3. ASSUME NEW t \in Tasks, RecordApproval(t)
        PROVE  Promise!SignOffNext \/ UNCHANGED Promise!signOffVars
    <3>1. tasks[t].id \in Ids /\ tasks[t].step \in Steps /\ tasks[t].user \in Users
      BY <2>1, <2>3, RowTypes DEF RecordApproval, TasksOK, JobOK
    <3>2. UNCHANGED Promise!signOffVars \/ Promise!Sign(tasks[t].id, tasks[t].step, tasks[t].user)
      BY <2>1, <2>3, RecordIsSign
    <3> QED BY <3>1, <3>2 DEF Promise!SignOffNext, Promise!Ids, Promise!Steps, Ids, Steps
  <2>4. ASSUME NEW i \in Ids, Writes(i)
        PROVE  Promise!SignOffNext
    <3>1. \E yes \in BOOLEAN : Promise!Rule(i, instances'[i].step, yes)
      BY <2>1, <2>4, WriteIsRule
    <3>2. instances'[i].step \in Steps
      BY <2>1 DEF ApprovalsTypeOK
    <3> QED BY <3>1, <3>2 DEF Promise!SignOffNext, Promise!Ids, Promise!Steps, Ids, Steps
  <2>5. UNCHANGED approvalVars => UNCHANGED <<instances, approvals>>
    BY DEF approvalVars
  <2> QED BY <2>1, <2>2, <2>3, <2>4, <2>5, InstanceWrites
<1> QED BY <1>1, <1>2, InductiveInvariant, PTL DEF ApprovalsSpec, SignOffSpec, Promise!SignOffSpec
=============================================================================
