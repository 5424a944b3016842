------------------------------ MODULE Approvals -----------------------------
(***************************************************************************)
(* Approval workflows (workflow.service.ts), the requests that act on an   *)
(* instance directly (manufacturing.service.ts) and the plan version that  *)
(* is approved through them (plans.service.ts; scenarios follow the same   *)
(* code).  One plan, its instances in the order they were submitted, and   *)
(* one template whose steps stay as they are.                              *)
(*                                                                         *)
(* No request uses a transaction.  A task is a request between two of its  *)
(* writes: it reads, checks, and writes later by id without looking again. *)
(***************************************************************************)
EXTENDS Naturals, FiniteSets

CONSTANTS
    Users, NSteps, Required, MayApprove, MaxInstances,   \* as in SignOff
    Rejectable,     \* steps with canReject
    Submitters,     \* users that start workflows
    Admins,         \* users with the role ADMIN
    Tasks,          \* requests in flight
    MaxRequests     \* bound: requests

Steps == 1..NSteps
Ids == 1..MaxInstances

ASSUME ApprovalsAssumption ==
    /\ IsFiniteSet(Users) /\ Admins \subseteq Users
    /\ Submitters \subseteq Users /\ Submitters # {}
    /\ NSteps \in Nat /\ NSteps >= 3       \* MIN_APPROVAL_STEPS
    /\ MaxInstances \in Nat /\ MaxRequests \in Nat
    /\ Required \in [Steps -> Nat \ {0}]
    /\ MayApprove \in [Steps -> SUBSET Users]
    /\ Rejectable \subseteq Steps

VARIABLES
    active,         \* the tenant's template for plans is active
    plan,           \* the plan_versions row; basis (history): the instance its
                    \* status rests on, 0 if no workflow was asked for
    instances,      \* the workflow_instances rows of the plan
    approvals,      \* the APPROVE rows of workflow_actions; no other is read
    tasks,          \* what each request has read and has still to write
    requests,       \* requests so far
    contested       \* history: two requests had read the same instance, or that
                    \* there is none, before either wrote

approvalVars == <<active, plan, instances, approvals, tasks, requests, contested>>

\* An instance row, and a task: who asked, the instance and the step that were
\* read, and the status to write to the instance and to the plan.
Instance(status, step, by) == [status |-> status, step |-> step, by |-> by]
Job(pc, user, id, step, write, to) ==
    [pc |-> pc, user |-> user, id |-> id, step |-> step, write |-> write, plan |-> to]

Anyone == CHOOSE u \in Submitters : TRUE
NoInstance == Instance("NONE", 1, Anyone)
Rest == Job("idle", Anyone, 0, 1, "", "")

ApprovalsInit ==
    /\ active \in BOOLEAN
    /\ plan = [status |-> "DRAFT", locked |-> FALSE, basis |-> 0]
    /\ instances = [i \in Ids |-> NoInstance]
    /\ approvals = {}
    /\ tasks = [t \in Tasks |-> Rest]
    /\ requests = 0
    /\ contested = FALSE

Exists(i) == instances[i].status # "NONE"
Latest(i) == Exists(i) /\ \A j \in Ids : Exists(j) => j <= i
ActiveInstances == {i \in Ids : instances[i].status \in {"IN_PROGRESS", "ON_HOLD"}}

\* A free task takes the next request.
Request(t) ==
    /\ tasks[t].pc = "idle"
    /\ requests < MaxRequests /\ requests' = requests + 1

Become(t, task) == tasks' = [tasks EXCEPT ![t] = task]
End(t) == Become(t, Rest)

\* A request that came through the plan goes on to write it.
PlanNext(t, i) ==
    IF tasks[t].plan = "" THEN End(t)
    ELSE Become(t, Job("plan", Anyone, i, 1, "", tasks[t].plan))

\* History: another request has read instance i (0: that there is none) and
\* may still write.
Contest(t, i) ==
    contested' = (contested \/ \E r \in Tasks \ {t} :
                      tasks[r].pc \notin {"idle", "check", "plan"} /\ tasks[r].id = i)

-----------------------------------------------------------------------------
(* workflow.service.ts: approve and reject.                                *)

\* What approve and reject of a plan look for first.
InReview(i) == plan.status = "IN_REVIEW" /\ Latest(i)

\* Read the instance, find the current step and check the user (approve).
ReadForApproval(t, u, i, onPlan) ==
    /\ Request(t)
    /\ onPlan => InReview(i)
    /\ instances[i].status = "IN_PROGRESS"
    /\ u \in MayApprove[instances[i].step]
    /\ Become(t, Job("record", u, i, instances[i].step, "", IF onPlan THEN "APPROVED" ELSE ""))
    /\ Contest(t, i)
    /\ UNCHANGED <<active, plan, instances, approvals>>

\* "User has already approved the current step", or the APPROVE row.
RecordApproval(t) ==
    /\ tasks[t].pc = "record"
    /\ LET row == [id |-> tasks[t].id, step |-> tasks[t].step, user |-> tasks[t].user]
       IN  \/ row \in approvals /\ End(t) /\ UNCHANGED approvals
           \/ /\ row \notin approvals
              /\ approvals' = approvals \cup {row}
              /\ Become(t, Job("decide", Anyone, tasks[t].id, tasks[t].step, "", tasks[t].plan))
    /\ UNCHANGED <<active, plan, instances, requests, contested>>

\* Mutated: rows are counted over all the steps.
UniqueApprovalsOfAnyStep(i, s) == {a.user : a \in {b \in approvals : b.id = i}}

UniqueApprovals(i, s) == {u \in Users : [id |-> i, step |-> s, user |-> u] \in approvals}

\* Mutated: one approval short.
HasQuorumButOne(i, s) == Cardinality(UniqueApprovals(i, s)) + 1 >= Required[s]

HasQuorum(i, s) == Cardinality(UniqueApprovals(i, s)) >= Required[s]

\* Mutated: the last step is not recognised.
IsLastStepByIndex(s) == s = NSteps + 1

IsLastStep(s) == s = NSteps

\* The approvals are counted and the instance is written by id: the next
\* step, or APPROVED after the last; short of a quorum nothing is written.  The
\* plan follows when the row that comes back says APPROVED, also by another's
\* hand.
Decide(t) ==
    /\ tasks[t].pc = "decide"
    /\ LET i == tasks[t].id
           s == tasks[t].step
       IN  \/ ~HasQuorum(i, s) /\ End(t) /\ UNCHANGED instances
           \/ /\ HasQuorum(i, s) /\ ~IsLastStep(s)
              /\ instances' = [instances EXCEPT ![i] = Instance(@.status, s + 1, @.by)]
              /\ IF instances[i].status = "APPROVED" THEN PlanNext(t, i) ELSE End(t)
           \/ /\ HasQuorum(i, s) /\ IsLastStep(s)
              /\ instances' = [instances EXCEPT ![i] = Instance("APPROVED", @.step, @.by)]
              /\ PlanNext(t, i)
    /\ UNCHANGED <<active, plan, approvals, requests, contested>>

-----------------------------------------------------------------------------
(* The other verdicts: what is read, and the status written later by id.   *)

MayReject(u, i) ==
    /\ instances[i].status = "IN_PROGRESS"
    /\ instances[i].step \in Rejectable
    /\ u \in MayApprove[instances[i].step]

\* requestWorkflowChanges.
MayReturn(u, i) ==
    /\ instances[i].status = "IN_PROGRESS"
    /\ u \in MayApprove[instances[i].step]

\* Mutated: any instance can be cancelled.
MayCancelAny(u, i) == Exists(i) /\ (u = instances[i].by \/ u \in Admins)

\* cancelWorkflow, by the submitter or an administrator.
MayCancel(u, i) ==
    /\ instances[i].status \in {"IN_PROGRESS", "ON_HOLD"}
    /\ u = instances[i].by \/ u \in Admins

\* resubmitWorkflow, by the submitter.
MayResubmit(u, i) == instances[i].status = "ON_HOLD" /\ u = instances[i].by

ReadForVerdict(t, u, i, write, onPlan) ==
    /\ Request(t)
    /\ onPlan => write = "REJECTED" /\ InReview(i)
    /\ \/ write = "REJECTED" /\ MayReject(u, i)
       \/ write = "ON_HOLD" /\ MayReturn(u, i)
       \/ write = "CANCELLED" /\ MayCancel(u, i)
       \/ write = "IN_PROGRESS" /\ MayResubmit(u, i)
    /\ Become(t, Job("write", Anyone, i, 1, write, IF onPlan THEN "DRAFT" ELSE ""))
    /\ Contest(t, i)
    /\ UNCHANGED <<active, plan, instances, approvals>>

\* A resubmitted instance starts again at the first step; the approvals of the
\* first round stay.
WriteVerdict(t) ==
    /\ tasks[t].pc = "write"
    /\ instances' = [instances EXCEPT ![tasks[t].id] =
            Instance(tasks[t].write, IF tasks[t].write = "IN_PROGRESS" THEN 1 ELSE @.step, @.by)]
    /\ PlanNext(t, 0)
    /\ UNCHANGED <<active, plan, approvals, requests, contested>>

-----------------------------------------------------------------------------
(* Starting a workflow, by itself or through submit of the plan.           *)

\* startWorkflow of the manufacturing module leaves the plan alone.
StartWorkflow(t, u) ==
    /\ Request(t)
    /\ Become(t, Job("check", u, 0, 1, "", ""))
    /\ UNCHANGED <<active, plan, instances, approvals, contested>>

\* A plan goes to review, or is approved at once where no template is active.
Submit(t, u) ==
    /\ Request(t)
    /\ plan.status = "DRAFT"
    /\ IF active
       THEN Become(t, Job("check", u, 0, 1, "", "IN_REVIEW"))
       ELSE Become(t, Job("plan", Anyone, 0, 1, "", "APPROVED"))
    /\ UNCHANGED <<active, plan, instances, approvals, contested>>

\* Mutated: only an instance in progress counts as active.
NoActiveInstanceInProgress == \A i \in Ids : instances[i].status # "IN_PROGRESS"

\* "An active workflow already exists for this entity".
NoActiveInstance == ActiveInstances = {}

CheckActive(t) ==
    /\ tasks[t].pc = "check"
    /\ \/ /\ active /\ NoActiveInstance
          /\ Become(t, Job("create", tasks[t].user, 0, 1, "", tasks[t].plan))
          /\ Contest(t, 0)
       \/ /\ ~(active /\ NoActiveInstance)
          /\ End(t)
          /\ UNCHANGED contested
    /\ UNCHANGED <<active, plan, instances, approvals, requests>>

CreateInstance(t, i) ==
    /\ tasks[t].pc = "create"
    /\ ~Exists(i) /\ \A j \in Ids : j < i => Exists(j)
    /\ instances' = [instances EXCEPT ![i] = Instance("IN_PROGRESS", 1, tasks[t].user)]
    /\ PlanNext(t, 0)
    /\ UNCHANGED <<active, plan, approvals, requests, contested>>

-----------------------------------------------------------------------------
(* plans.service.ts: lock, unlock, archive, and the writes of the plan.    *)

\* ensureApproved: the latest instance.
EnsureApproved(i) == Latest(i) /\ instances[i].status = "APPROVED"

Lock(t) ==
    /\ Request(t)
    /\ ~plan.locked /\ plan.status = "APPROVED"
    /\ \/ /\ active
          /\ \E i \in Ids : EnsureApproved(i) /\ Become(t, Job("plan", Anyone, i, 1, "", "LOCKED"))
       \/ /\ ~active
          /\ Become(t, Job("plan", Anyone, 0, 1, "", "LOCKED"))
    /\ UNCHANGED <<active, plan, instances, approvals, contested>>

Unlock(t) ==
    /\ Request(t)
    /\ plan.locked
    /\ Become(t, Job("plan", Anyone, 0, 1, "", "UNLOCKED"))
    /\ UNCHANGED <<active, plan, instances, approvals, contested>>

Archive(t) ==
    /\ Request(t)
    /\ Become(t, Job("plan", Anyone, 0, 1, "", "ARCHIVED"))
    /\ UNCHANGED <<active, plan, instances, approvals, contested>>

\* The plan is written by id; only lock and unlock touch isLocked.
WritePlan(t) ==
    /\ tasks[t].pc = "plan"
    /\ plan' = [status |-> IF tasks[t].plan = "UNLOCKED" THEN "DRAFT" ELSE tasks[t].plan,
                locked |-> tasks[t].plan = "LOCKED" \/ (plan.locked /\ tasks[t].plan # "UNLOCKED"),
                basis |-> tasks[t].id]
    /\ End(t)
    /\ UNCHANGED <<active, instances, approvals, requests, contested>>

-----------------------------------------------------------------------------
\* updateWorkflowTemplate switches the template on or off.
SwitchTemplate ==
    /\ active' = ~active
    /\ UNCHANGED <<plan, instances, approvals, tasks, requests, contested>>

\* The process dies, or a statement fails: what was written stays.
GiveUp(t) ==
    /\ tasks[t].pc # "idle"
    /\ End(t)
    /\ UNCHANGED <<active, plan, instances, approvals, requests, contested>>

Step(t) ==
    \/ RecordApproval(t) \/ Decide(t) \/ WriteVerdict(t)
    \/ CheckActive(t) \/ (\E i \in Ids : CreateInstance(t, i))
    \/ WritePlan(t) \/ GiveUp(t)

ApprovalsNext ==
    \/ SwitchTemplate
    \/ \E t \in Tasks :
          \/ \E u \in Users, i \in Ids, onPlan \in BOOLEAN :
                \/ ReadForApproval(t, u, i, onPlan)
                \/ \E write \in {"REJECTED", "ON_HOLD", "CANCELLED", "IN_PROGRESS"} :
                      ReadForVerdict(t, u, i, write, onPlan)
          \/ \E u \in Submitters : StartWorkflow(t, u) \/ Submit(t, u)
          \/ Lock(t) \/ Unlock(t) \/ Archive(t)
          \/ Step(t)

ApprovalsSpec == ApprovalsInit /\ [][ApprovalsNext]_approvalVars

-----------------------------------------------------------------------------
(* Properties.                                                             *)

\* Different users approved every step, as many as it requires.
SignedOff(i) ==
    \A s \in Steps :
        Cardinality({u \in Users : [id |-> i, step |-> s, user |-> u] \in approvals}) >= Required[s]

Statuses == {"NONE", "IN_PROGRESS", "ON_HOLD", "APPROVED", "REJECTED", "CANCELLED"}
PlanStatuses == {"DRAFT", "IN_REVIEW", "APPROVED", "LOCKED", "ARCHIVED"}
Task == [pc : {"idle", "record", "decide", "write", "check", "create", "plan"},
         user : Users, id : 0..MaxInstances, step : Steps,
         write : Statuses \cup {""}, plan : PlanStatuses \cup {"", "UNLOCKED"}]

\* Type invariant of the rows and of the requests in flight.
ApprovalsTypeOK ==
    /\ active \in BOOLEAN
    /\ plan \in [status : PlanStatuses, locked : BOOLEAN, basis : 0..MaxInstances]
    /\ instances \in [Ids -> [status : Statuses, step : Steps, by : Users]]
    /\ approvals \subseteq [id : Ids, step : Steps, user : Users]
    /\ tasks \in [Tasks -> Task]
    /\ requests \in 0..MaxRequests /\ contested \in BOOLEAN

\* A workflow that says APPROVED (approve), and a plan that was approved or
\* locked on the strength of one (plans.service.ts approve, lock), has the
\* required approvals of different users at every step, however requests race.
ApprovedIsSignedOff ==
    /\ \A i \in Ids : instances[i].status = "APPROVED" => SignedOff(i)
    /\ plan.status \in {"APPROVED", "LOCKED"} /\ plan.basis # 0 => SignedOff(plan.basis)

\* "An active workflow already exists for this entity" (startWorkflow): a plan
\* has one active instance, unless two requests started one at the same time
\* or a request wrote over the verdict of another.
OneActiveInstance == Cardinality(ActiveInstances) <= 1 \/ contested

Decided(i) == instances[i].status \in {"APPROVED", "REJECTED", "CANCELLED"}

\* "Workflow is not in progress" (approve, reject): a verdict stands, unless
\* two requests had read the instance before either wrote it.
VerdictsStand ==
    [][\A i \in Ids : Decided(i) /\ instances'[i] # instances[i] => contested]_approvalVars

\* Whatever the races, the rows implement the promise of SignOff.
Promise == INSTANCE SignOff WITH
    signatures <- approvals,
    reached <- [i \in Ids |-> IF Exists(i) THEN instances[i].step ELSE 0],
    approved <- {i \in Ids : instances[i].status = "APPROVED"}
SignOffSpec == Promise!SignOffSpec
=============================================================================
