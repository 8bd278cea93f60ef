-------------------------- MODULE AnalyticsEvents --------------------------
(***************************************************************************)
(* The domain events of the analytics stream, and the sections of the      *)
(* manager analytics that the worker rebuilds for each of them.            *)
(***************************************************************************)
Sections == {"summary", "trend", "warnings", "finance-queue"}

EventTypes == {"order_created", "order_status_changed", "cash_handoff", "cash_settled",
               "manual_refresh", "driver_location_upsert", "driver_presence_update"}

sectionForEventType ==
  [t \in EventTypes |->
     CASE t \in {"order_created", "order_status_changed", "manual_refresh"} -> Sections
       [] t \in {"cash_handoff", "cash_settled"} -> Sections \ {"trend"}
       [] OTHER -> {}]
=============================================================================
