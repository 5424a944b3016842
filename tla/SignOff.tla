------------------------------- MODULE SignOff ------------------------------
(***************************************************************************)
(* What an approval workflow promises, whatever requests race: signatures  *)
(* are permanent and come from authorised users, nobody is asked before    *)
(* the steps below are complete, and the verdict APPROVED needs all steps. *)
(***************************************************************************)
EXTENDS Naturals, FiniteSets

CONSTANTS
    Users,          \* users of the tenant
    NSteps,         \* steps of the template
    Required,       \* [step -> requiredApprovals]
    MayApprove,     \* [step -> users that may approve it]
    MaxInstances    \* bound: workflow instances of the entity

Steps == 1..NSteps
Ids == 1..MaxInstances

VARIABLES
    signatures,     \* set of [id, step, user]
    reached,        \* [id -> the step that is asked now, 0 before the start]
    approved        \* the ids whose verdict is APPROVED

signOffVars == <<signatures, reached, approved>>

Signature == [id : Ids, step : Steps, user : Users]
Signers(signed, i, s) == {u \in Users : [id |-> i, step |-> s, user |-> u] \in signed}
Quorum(signed, i, s) == Cardinality(Signers(signed, i, s)) >= Required[s]

\* Every step below s has its quorum.
CompleteBelow(signed, i, s) == \A t \in Steps : t < s => Quorum(signed, i, t)

SignOffInit ==
    /\ signatures = {}
    /\ reached = [i \in Ids |-> 0]
    /\ approved = {}

Sign(i, s, u) ==
    /\ u \in MayApprove[s]
    /\ CompleteBelow(signatures, i, s)
    /\ signatures' = signatures \cup {[id |-> i, step |-> s, user |-> u]}
    /\ UNCHANGED <<reached, approved>>

\* The instance moves to a step, up or down.
MoveTo(i, s) ==
    /\ CompleteBelow(signatures, i, s)
    /\ reached' = [reached EXCEPT ![i] = s]

\* ... and its verdict is given or taken back.
Rule(i, s, yes) ==
    /\ MoveTo(i, s)
    /\ yes => CompleteBelow(signatures, i, NSteps + 1)
    /\ approved' = IF yes THEN approved \cup {i} ELSE approved \ {i}
    /\ UNCHANGED signatures

SignOffNext ==
    \E i \in Ids, s \in Steps :
        \/ \E u \in Users : Sign(i, s, u)
        \/ \E yes \in BOOLEAN : Rule(i, s, yes)

SignOffSpec == SignOffInit /\ [][SignOffNext]_signOffVars
=============================================================================
