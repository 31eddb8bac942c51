----------------------------- MODULE OrderStatus -----------------------------
(***************************************************************************)
(* The order status table of apps/api/app/enums/order_status.ts: which     *)
(* (from, to) pairs are legal and which side effects each one names.       *)
(* OrderStateMachine.transition() consults nothing else to decide whether  *)
(* a status change may happen and what it does to the stock.               *)
(***************************************************************************)
EXTENDS Integers

OrderStatuses == {"draft", "pending", "on_hold", "processing",
                  "completed", "cancelled", "refunded", "failed"}

Effects == {"reserve_stock", "restore_stock", "set_paid_at",
            "set_completed_at", "grant_downloads"}

Row(from, to, effects) == [from |-> from, to |-> to, effects |-> effects]

ORDER_TRANSITIONS ==
    { Row("draft", "pending", {"reserve_stock"}),
      Row("draft", "cancelled", {}),
      Row("pending", "on_hold", {}),
      Row("pending", "processing", {"set_paid_at"}),
      Row("pending", "failed", {}),
      Row("pending", "cancelled", {"restore_stock"}),
      Row("on_hold", "processing", {"set_paid_at"}),
      Row("on_hold", "cancelled", {"restore_stock"}),
      Row("on_hold", "failed", {}),
      Row("processing", "completed", {"set_completed_at", "grant_downloads"}),
      Row("processing", "cancelled", {"restore_stock"}),
      Row("processing", "refunded", {}),
      Row("completed", "refunded", {}),
      Row("failed", "pending", {"reserve_stock"}) }

\* findTransition(from, to) !== null
CanTransition(from, to) ==
    \E t \in ORDER_TRANSITIONS : t.from = from /\ t.to = to

\* The rows of the table findTransition looks through name each pair at most
\* once, so "the effects of (from, to)" is well defined.
HasEffect(from, to, effect) ==
    \E t \in ORDER_TRANSITIONS :
        t.from = from /\ t.to = to /\ effect \in t.effects

\* What the transition does to the stock of each line: reserveStock takes the
\* line's quantity, restoreStock gives it back, every other effect leaves the
\* stock alone.
StockSign(from, to) ==
    CASE HasEffect(from, to, "reserve_stock") -> -1
      [] HasEffect(from, to, "restore_stock") -> 1
      [] OTHER -> 0
=============================================================================
