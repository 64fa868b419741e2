-------------------------- MODULE MCOrderWorkflow --------------------------
(***************************************************************************)
(* Instances of the order workflow for TLC.                                *)
(***************************************************************************)
EXTENDS OrderProperties

\* One process per role, as `make up` starts them.
OnePerRole == Queues
SingleRole == [w \in OnePerRole |-> w]

\* Two payment workers, as `make scale` starts several, and a second coordinator, as
\* the same option of docker compose can; none of the roles behind the join, so what
\* they would take stays ready.
Scaled == {"payment", "payment2", "inventory", "coordinator", "coordinator2"}
ScaledRole ==
  [w \in Scaled |-> IF w = "payment2" THEN "payment"
                    ELSE IF w = "coordinator2" THEN "coordinator" ELSE w]

\* Everybody but the notification worker: what it would take stays ready.
NoNotification == OnePerRole \ {"notification"}
NoNotificationRole == [w \in NoNotification |-> w]

TwoCoordinator == OnePerRole \cup {"coordinator2"}
TwoCoordinatorRole ==
  [w \in TwoCoordinator |-> IF w = "coordinator2" THEN "coordinator" ELSE w]

TwoRestaurant == OnePerRole \cup {"restaurant2"}
TwoRestaurantRole ==
  [w \in TwoRestaurant |-> IF w = "restaurant2" THEN "restaurant" ELSE w]

=============================================================================
