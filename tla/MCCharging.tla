----------------------------- MODULE MCCharging -----------------------------
(* A small instance of Charging for TLC. *)
EXTENDS Charging, TLC

CONSTANTS r1, r2, u1

\* Both requests are made for the one user, so that they share a limit.
MCUserOf == r1 :> u1 @@ r2 :> u1

Row(status, limit, maxSpend) == [status |-> status, limit |-> limit, maxSpend |-> maxSpend]

\* The plan allows two requests and two units a day; the tenant may be suspended.
MCPlanRow == Row("ENABLED", 2, 2)
MCTenantRows == {Row("SUSPENDED", NoLimit, NoLimit)}
=============================================================================
