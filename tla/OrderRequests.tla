--------------------------- MODULE OrderRequests ---------------------------
(***************************************************************************)
(* Requests that change the status of an order, at the grain at which they *)
(* interleave.                                                             *)
(*                                                                         *)
(* tenant_context_middleware.ts runs every request in one READ COMMITTED   *)
(* transaction that commits when the response status is below 400 and      *)
(* rolls back otherwise; withTenantTransaction() joins it.  So a request   *)
(*   - reads the order either without a lock (admin, pay-link, init) or    *)
(*     after SELECT ... FOR UPDATE (PSP callback, refund);                 *)
(*   - hands the order AS IT READ IT to OrderStateMachine.transition(),    *)
(*     which looks the pair up in the table, takes or returns the stock of *)
(*     the order's lines row by row (FOR UPDATE), then updates the order;  *)
(*   - holds every row it locked until its transaction ends, and shows its *)
(*     writes to the others only if it commits.                            *)
(*                                                                         *)
(* The committed database is status, stock, ledger, held, history, keyed.  An  *)
(* unfinished request keeps its uncommitted writes in its own record.      *)
(***************************************************************************)
EXTENDS Integers, Sequences, FiniteSets, OrderStatus

CONSTANTS
    Orders,         \* orders of one tenant
    Items,          \* rows of inventory_items the orders' lines resolve to
    Carts,          \* carts the drafts were made from
    Requests,       \* requests in flight at the same time
    CartOf,         \* the cart whose checkout finds the order as its draft
    Quantity,       \* Quantity[o][i]: what the lines of o take from item i
    InitialStock,   \* stock_quantity before the first request
    Backordered,    \* items with backorders 'yes' or 'notify'
    Unmanaged,      \* items with manage_stock = false
    Missing,        \* targets with no inventory_items row
    Handlers,       \* the request handlers of this instance
    MaxEntries,     \* bound: entries of one refund's body that name one line
    MaxRequests,    \* bound: requests issued in a behaviour
    None            \* no request, no order

ASSUME ConstantsAssumption ==
    /\ CartOf \in [Orders -> Carts]
    /\ Quantity \in [Orders -> [Items -> Nat]]
    /\ InitialStock \in [Items -> Int]
    /\ Backordered \subseteq Items
    /\ Unmanaged \subseteq Items
    /\ Missing \subseteq Items
    /\ MaxEntries \in Nat \ {0}
    /\ MaxRequests \in Nat
    /\ None \notin Requests

\* Stock starts non-negative where the shop does not accept backorders.
ASSUME StockAssumption ==
    \A i \in Items \ Backordered : InitialStock[i] >= 0

\* The rows a request can lock are rows of three different tables.
ASSUME RowsAssumption ==
    /\ Orders \cap Items = {}
    /\ Orders \cap Carts = {}
    /\ Items \cap Carts = {}

VARIABLES
    status,   \* orders.status, committed
    stock,    \* inventory_items.stock_quantity, committed
    ledger,   \* sum of inventory_movements.quantity_delta of the item
    held,     \* held[o][i]: sum of reservation less release rows of order o
    history,  \* order_status_history rows of the order, in commit order
    keyed,    \* orders with an order_key: only submit writes one
    owner,    \* the request that holds the row's lock, or None
    req,      \* the requests in flight
    issued    \* requests issued so far

db == <<status, stock, ledger, held, history, keyed>>
vars == <<status, stock, ledger, held, history, keyed, owner, req, issued>>

Rows == Orders \cup Items \cup Carts

Kinds == {"submit", "admin", "ship", "paylink", "init", "callback", "refund"}

\* Handlers that read the order again after they locked it.
LockedReaders == {"callback", "refund"}

\* The steps a handler asks for: statuses to move to, and the restock loop of
\* a refund.
PlanSteps == OrderStatuses \cup {"restock"}

\* What a refund can ask for: with or without restock, of a part or of the rest.
RefundPlans ==
    {<<>>, <<"restock">>, <<"refunded">>, <<"restock", "refunded">>}

\* What a callback can ask for besides: the PSP says paid, or not.
CallbackPlans == {<<"processing">>, <<"failed">>}

HistoryRow == [from : OrderStatuses, to : OrderStatuses]

Request ==
    [ pc    : {"idle", "cart", "order", "plan", "effects"},
      kind  : Kinds \cup {"none"},
      order : Orders \cup {None},
      view  : OrderStatuses,          \* order.status in memory
      plan  : Seq(PlanSteps),         \* steps still to take
      todo  : SUBSET Items,           \* lines the current step has to move
      put   : [Items -> Int],         \* new stock of the rows it has locked
      delta : [Items -> Int],         \* movement rows it has inserted
      hold  : [Items -> Int],         \* the part of them made for the order
      rows  : Seq(HistoryRow) ]       \* history rows it has inserted

Zero == [i \in Items |-> 0]

NewRequest(k, o, pc, view, plan) ==
    [ pc |-> pc, kind |-> k, order |-> o, view |-> view, plan |-> plan,
      todo |-> {}, put |-> Zero, delta |-> Zero, hold |-> Zero,
      rows |-> <<>> ]

Idle == NewRequest("none", None, "idle", "draft", <<>>)

Init ==
    /\ status = [o \in Orders |-> "draft"]
    /\ stock = InitialStock
    /\ ledger = Zero
    /\ held = [o \in Orders |-> Zero]
    /\ history = [o \in Orders |-> <<>>]
    /\ keyed = {}
    /\ owner = [w \in Rows |-> None]
    /\ req = [r \in Requests |-> Idle]
    /\ issued = 0
----------------------------------------------------------------------------
(* The transaction of a request.                                           *)

\* Mutant: SELECT without FOR UPDATE.
Unlocked(r, w) == TRUE

Free(r, w) == owner[w] \in {None, r}

Begin(r, q) ==
    /\ req[r].pc = "idle"
    /\ issued < MaxRequests
    /\ q.kind \in Handlers
    /\ req' = [req EXCEPT ![r] = q]
    /\ issued' = issued + 1
    /\ UNCHANGED <<db, owner>>

\* Mutant: the locks on the order and the cart outlive the transaction.
ReleasedItems(r) ==
    [w \in Rows |-> IF owner[w] = r /\ w \in Items THEN None ELSE owner[w]]

\* End of the transaction, committed or not: every lock goes.
Released(r) == [w \in Rows |-> IF owner[w] = r THEN None ELSE owner[w]]

End(r) ==
    /\ req' = [req EXCEPT ![r] = Idle]
    /\ owner' = Released(r)
    /\ UNCHANGED issued

\* Mutant: the stock moves outside the transaction of the request.
RollbackKeepsStock(r) ==
    LET q == req[r] IN
    /\ stock' = [i \in Items |-> IF owner[i] = r THEN q.put[i] ELSE stock[i]]
    /\ ledger' = [i \in Items |-> ledger[i] + q.delta[i]]
    /\ held' = [o \in Orders |->
                   [i \in Items |-> IF o = q.order
                                    THEN held[o][i] + q.hold[i] ELSE held[o][i]]]
    /\ UNCHANGED <<status, history, keyed>>
    /\ End(r)

Rollback(r) == End(r) /\ UNCHANGED db

\* The response is below 400: the writes of the request become visible at once.
Commit(r) ==
    LET q == req[r] IN
    /\ q.pc = "plan" /\ q.plan = <<>>
    /\ status' = IF q.rows = <<>> THEN status
                 ELSE [status EXCEPT ![q.order] = q.view]
    /\ stock' = [i \in Items |-> IF owner[i] = r THEN q.put[i] ELSE stock[i]]
    /\ ledger' = [i \in Items |-> ledger[i] + q.delta[i]]
    /\ held' = [held EXCEPT ![q.order] =
                   [i \in Items |-> held[q.order][i] + q.hold[i]]]
    /\ history' = [history EXCEPT ![q.order] = @ \o q.rows]
    /\ keyed' = IF q.kind = "submit" THEN keyed \cup {q.order} ELSE keyed
    /\ End(r)

\* An exception anywhere in the handler, a failing gateway call, a lost
\* connection or a restarted server: the transaction is rolled back.
RequestFails(r) == req[r].pc # "idle" /\ Rollback(r)
----------------------------------------------------------------------------
(* How each handler starts: what it reads, and what it will ask for.       *)

\* Gateways without a redirect (cod, bank_transfer) move a pending order to
\* on_hold inside paymentService.init(); redirect gateways leave it.
AfterInit == {<<>>, <<"on_hold">>}

\* CheckoutSubmitController.submit: the cart middleware has written the cart
\* row, which the request must lock, before the draft is looked up.
Submit(r) ==
    \E o \in Orders, hold \in AfterInit :
        Begin(r, NewRequest("submit", o, "cart", "draft", <<"pending">> \o hold))

\* OrdersController.transitionStatus: any status may be asked for; the order is
\* read without a lock.
AdminTransition(r) ==
    \E o \in Orders, to \in OrderStatuses :
        Begin(r, NewRequest("admin", o, "plan", status[o], <<to>>))

\* OrdersController.markShipped: read without a lock, then the shipping
\* attributes are saved (which locks the row), then the transition.
MarkShipped(r) ==
    \E o \in Orders :
        Begin(r, NewRequest("ship", o, "order", status[o],
                            IF status[o] = "processing"
                            THEN <<"completed">> ELSE <<>>))

\* PayLinkController.pay: read without a lock by the order_key that submit
\* wrote; saving the gateway snapshot locks the row only when it changed.
PayLink(r) ==
    \E o \in keyed, hold \in AfterInit, pc \in {"order", "plan"} :
        /\ status[o] \notin {"completed", "refunded"}
        /\ Begin(r, NewRequest("paylink", o, pc, status[o],
              (IF status[o] = "failed" THEN <<"pending">> ELSE <<>>) \o
              (IF status[o] \in {"failed", "pending"} THEN hold ELSE <<>>)))

\* PaymentController.init: like the pay-link, without the failed order's retry.
PaymentInit(r) ==
    \E o \in keyed, hold \in AfterInit :
        Begin(r, NewRequest("init", o, "plan", status[o],
                            IF status[o] = "pending" THEN hold ELSE <<>>))

\* PaymentController.callback -> verifyCallback: the PSP says paid or not.
\* What it does once the ledger takes its event; until then it is rolled back, as
\* any request may be (Payments has the reason: LockOrder, LedgerKeyed).
Callback(r) ==
    \E o \in keyed, plan \in CallbackPlans :
        Begin(r, NewRequest("callback", o, "order", status[o], plan))

\* RefundService.create: waits for the order row before it reads the order.
Refund(r) ==
    \E o \in Orders, plan \in RefundPlans :
        Begin(r, NewRequest("refund", o, "order", status[o], plan))
----------------------------------------------------------------------------
(* Waiting for the cart and the order row.                                 *)

\* Mutant: the cart is not saved, hence not locked, before the draft is read.
FindDraft(r) ==
    LET o == req[r].order IN
    /\ req[r].pc = "cart"
    /\ IF status[o] = "draft"
       THEN /\ req' = [req EXCEPT ![r].pc = "order"]
            /\ UNCHANGED <<db, owner, issued>>
       ELSE Rollback(r)

\* findDraft runs with the cart locked: it sees every checkout of the cart that
\* committed before, and finds no draft once one of them submitted it.
LockCart(r) ==
    LET o == req[r].order IN
    /\ req[r].pc = "cart"
    /\ Free(r, CartOf[o])
    /\ IF status[o] = "draft"
       THEN /\ owner' = [owner EXCEPT ![CartOf[o]] = r]
            /\ req' = [req EXCEPT ![r].pc = "order"]
            /\ UNCHANGED <<db, issued>>
       ELSE Rollback(r)

Refundable(s) == s \notin {"draft", "cancelled", "failed", "refunded"}

\* Mutant: the handlers keep the order they read before they locked it.
ViewBeforeLock(q) == q.view

\* The order a handler goes on with once it holds the row.  The callback and
\* the refund read the row they locked; submit ignores it and keeps the draft it
\* found; markShipped and the pay-link wrote it blindly.
ViewAfterLock(q) ==
    IF q.kind \in LockedReaders THEN status[q.order] ELSE q.view

\* verifyCallback moves the order only when it is pending.
PlanAfterLock(q) ==
    IF q.kind = "callback" /\ ViewAfterLock(q) # "pending" THEN <<>> ELSE q.plan

LockOrder(r) ==
    LET q == req[r] IN
    /\ q.pc = "order"
    /\ Free(r, q.order)
    /\ IF q.kind = "refund" /\ ~Refundable(ViewAfterLock(q))
       THEN Rollback(r)
       ELSE /\ owner' = [owner EXCEPT ![q.order] = r]
            /\ req' = [req EXCEPT ![r] =
                 [q EXCEPT !.pc = "plan", !.plan = PlanAfterLock(q),
                           !.view = ViewAfterLock(q)]]
            /\ UNCHANGED <<db, issued>>
----------------------------------------------------------------------------
(* OrderStateMachine.transition() and the restock loop, one step at a time. *)

StepSign(q) ==
    IF Head(q.plan) = "restock" THEN 1 ELSE StockSign(q.view, Head(q.plan))

Lines(o) == {i \in Items : Quantity[o][i] > 0}

\* A transition moves all the lines or none; a refund by line items returns the
\* lines its entries name, a refund by amount all of them.
LinesMoved(q) ==
    IF Head(q.plan) = "restock" THEN SUBSET Lines(q.order)
    ELSE IF StepSign(q) = 0 THEN {{}} ELSE {Lines(q.order)}

\* A transition moves a line whole.  restock() increments once for each entry of
\* the refund's body, and validateLineQuantities() holds each entry alone against
\* the line, so entries that repeat a line return more than was ordered; their
\* increments add up under the lock the first one took.
Pieces(q, i) ==
    IF Head(q.plan) = "restock" THEN 1..(MaxEntries * Quantity[q.order][i])
    ELSE {Quantity[q.order][i]}

\* The pair (order.status in memory, target) is not in the table: 422.
IllegalTransition(r) ==
    LET q == req[r] IN
    /\ q.pc = "plan" /\ q.plan # <<>>
    /\ Head(q.plan) # "restock"
    /\ ~CanTransition(q.view, Head(q.plan))
    /\ Rollback(r)

BeginStep(r) ==
    LET q == req[r] IN
    /\ q.pc = "plan" /\ q.plan # <<>>
    /\ Head(q.plan) = "restock" \/ CanTransition(q.view, Head(q.plan))
    /\ \E todo \in LinesMoved(q) :
         req' = [req EXCEPT ![r] = [q EXCEPT !.pc = "effects", !.todo = todo]]
    /\ UNCHANGED <<db, owner, issued>>

\* The stock a request sees in a row it has locked: its own write, or what was
\* committed when it got the lock.
StockSeen(r, i) == IF owner[i] = r THEN req[r].put[i] ELSE stock[i]

\* Mutant: the last piece can be sold twice.
RefusedLate(i, sign, next) == next < -1 /\ i \notin Backordered /\ sign < 0

Refused(i, sign, next) == next < 0 /\ i \notin Backordered /\ sign < 0

\* InventoryService.mutate on one line: lock the row, write the new stock, add
\* the movement.  The lines come in no particular order.
MovePieces(r, i, n) ==
    LET q    == req[r]
        sign == StepSign(q)
        d    == IF i \in Unmanaged THEN 0 ELSE sign * n
        next == StockSeen(r, i) + d
    IN
    /\ Free(r, i)
    /\ i \in Unmanaged \/ ~Refused(i, sign, next)
    /\ owner' = [owner EXCEPT ![i] = r]
    /\ req' = [req EXCEPT ![r] =
         [q EXCEPT !.todo = @ \ {i},
                   !.put[i] = next,
                   !.delta[i] = @ + d,
                   !.hold[i] = IF Head(q.plan) = "restock" THEN @ ELSE @ - d]]
    /\ UNCHANGED <<db, issued>>

MoveStock(r, i) ==
    /\ req[r].pc = "effects" /\ i \in req[r].todo \ Missing
    /\ \E n \in Pieces(req[r], i) : MovePieces(r, i, n)

\* InsufficientStockError and InventoryItemMissingError: the request fails.
StockRefused(r, i) ==
    LET q == req[r] IN
    /\ q.pc = "effects" /\ i \in q.todo
    /\ \/ i \in Missing
       \/ /\ i \notin Unmanaged
          /\ Free(r, i)
          /\ Refused(i, StepSign(q),
                     StockSeen(r, i) + StepSign(q) * Quantity[q.order][i])
    /\ Rollback(r)

\* order.status = to, order.save(), one history row.  The UPDATE names the order
\* by id alone: it waits for the row, and then overwrites whatever is there.
WriteStatus(r) ==
    LET q == req[r]  to == Head(req[r].plan) IN
    /\ q.pc = "effects" /\ q.todo = {}
    /\ to # "restock"
    /\ Free(r, q.order)
    /\ owner' = [owner EXCEPT ![q.order] = r]
    /\ req' = [req EXCEPT ![r] =
         [q EXCEPT !.pc = "plan", !.plan = Tail(@), !.view = to,
                   !.rows = Append(@, [from |-> q.view, to |-> to])]]
    /\ UNCHANGED <<db, issued>>

EndRestock(r) ==
    LET q == req[r] IN
    /\ q.pc = "effects" /\ q.todo = {}
    /\ Head(q.plan) = "restock"
    /\ req' = [req EXCEPT ![r] = [q EXCEPT !.pc = "plan", !.plan = Tail(@)]]
    /\ UNCHANGED <<db, owner, issued>>
----------------------------------------------------------------------------
(* Postgres' deadlock detector.                                            *)

\* The rows the request's next step needs.
Wants(r) ==
    LET q == req[r] IN
    CASE q.pc = "cart" -> {CartOf[q.order]}
      [] q.pc = "order" -> {q.order}
      [] q.pc = "effects" /\ q.todo # {} -> q.todo \ Missing
      [] q.pc = "effects" /\ q.todo = {} /\ Head(q.plan) # "restock" -> {q.order}
      [] OTHER -> {}

\* Every row a member of the set waits for is held by another member.
WaitCycle(S) ==
    \A p \in S : /\ Wants(p) # {}
                 /\ \A w \in Wants(p) : owner[w] \in S \ {p}

\* Mutant: no deadlock detector and no lock timeout.
NoVictim(r) == FALSE

DeadlockVictim(r) ==
    /\ \E S \in SUBSET Requests : r \in S /\ WaitCycle(S)
    /\ Rollback(r)
----------------------------------------------------------------------------
Arrives(r) ==
    \/ Submit(r) \/ AdminTransition(r) \/ MarkShipped(r) \/ PayLink(r)
    \/ PaymentInit(r) \/ Callback(r) \/ Refund(r)

Serve(r) ==
    \/ LockCart(r) \/ LockOrder(r)
    \/ IllegalTransition(r) \/ BeginStep(r)
    \/ \E i \in Items : MoveStock(r, i) \/ StockRefused(r, i)
    \/ WriteStatus(r) \/ EndRestock(r)
    \/ Commit(r)

Next == \E r \in Requests :
            Arrives(r) \/ Serve(r) \/ DeadlockVictim(r) \/ RequestFails(r)

Spec == Init /\ [][Next]_vars

\* Node serves every request it accepted and Postgres looks for deadlocks
\* whenever a lock wait lasts; neither promises that a request succeeds.
FairSpec == Spec /\ \A r \in Requests : WF_vars(Serve(r)) /\ WF_vars(DeadlockVictim(r))
----------------------------------------------------------------------------
(* What the requests guarantee, however they interleave.                   *)

\* Every variable has its type, and a row's lock belongs to a request that is
\* still running: no lock outlives the transaction that took it.
TypeOK ==
    /\ status \in [Orders -> OrderStatuses]
    /\ stock \in [Items -> Int]
    /\ ledger \in [Items -> Int]
    /\ held \in [Orders -> [Items -> Int]]
    /\ history \in [Orders -> Seq(HistoryRow)]
    /\ keyed \subseteq Orders
    /\ owner \in [Rows -> Requests \cup {None}]
    /\ req \in [Requests -> Request]
    /\ issued \in Nat
    /\ \A w \in Rows : owner[w] # None => req[owner[w]].pc # "idle"

\* inventory_service.ts:31-35: the stock of an item is what it started with plus
\* the sum of its movement rows.  Two requests that move the same row never
\* lose one another's update, although each writes an absolute quantity.
LedgerBalance == \A i \in Items : stock[i] = InitialStock[i] + ledger[i]

\* inventory_service.ts:37-38: where backorders are refused, no interleaving of
\* reservations drives the stock below zero.
NoOversell == \A i \in Items \ Backordered : stock[i] >= 0

RowCount(o, sign) ==
    Cardinality({k \in DOMAIN history[o] :
                    StockSign(history[o][k].from, history[o][k].to) = sign})

\* order_state_machine.ts:26-31: a status change and its stock effect are one
\* unit.  What the ledger says order o took from an item is its quantity times
\* the reserving rows of the audit trail less the restoring ones: a request that
\* fails after moving some of the lines leaves neither stock nor audit row.
HeldFollowsHistory ==
    \A o \in Orders, i \in Items \ Unmanaged :
        held[o][i] = Quantity[o][i] * (RowCount(o, -1) - RowCount(o, 1))

Commits(r) == req[r].pc # "idle" /\ req'[r].pc = "idle"

\* payment_service.ts:201 and refund_service.ts:107-111: the handlers that read
\* the order under its lock move it along the table from the status that is
\* committed at that moment; a PSP callback only ever moves a pending order.
LockedReadersFollowTable ==
    [][\A r \in Requests : LET o == req[r].order IN
         Commits(r) /\ req[r].kind \in LockedReaders /\ status' # status =>
            /\ CanTransition(status[o], status'[o])
            /\ req[r].kind = "callback" => status[o] = "pending"]_vars

\* cart_middleware.ts:55-60 and submit_controller.ts:51-72: a draft is turned into
\* an order once, however many submits of its cart run side by side and whatever
\* administrators and the PSP do to it meanwhile: no submit commits an order that
\* another submit has given its key.
SubmittedOnce ==
    [][\A r \in Requests :
         Commits(r) /\ req[r].kind = "submit" /\ history' # history =>
            req[r].order \notin keyed]_vars

\* Every request ends: lock waits are finite because transactions are, and
\* requests that wait for one another are told apart by the deadlock detector.
RequestsEnd == \A r \in Requests : req[r].pc # "idle" ~> req[r].pc = "idle"
----------------------------------------------------------------------------
(* The inductive invariant of the proofs.                                  *)

\* Where a request is in its life: only a started one has an order, only one
\* that has asked for a step carries it out, and it inserts history rows only
\* then, with the order row in hand.
RequestShape ==
    \A r \in Requests : LET q == req[r] IN
        /\ q.pc # "idle" => q.order \in Orders /\ q.kind # "none"
        /\ q.pc = "effects" =>
              /\ q.plan # <<>>
              /\ Head(q.plan) = "restock" \/ CanTransition(q.view, Head(q.plan))
        /\ q.rows # <<>> => /\ q.pc \in {"plan", "effects"}
                           /\ owner[q.order] = r

\* inventory_service.ts:109-146: what a request will write to a stock row is the
\* committed value plus its own movements, it never oversells, and it has
\* movements only on rows it has locked.
WritesUnderLock ==
    \A r \in Requests, i \in Items :
        /\ owner[i] = r =>
              /\ req[r].put[i] = stock[i] + req[r].delta[i]
              /\ i \notin Backordered => req[r].put[i] >= 0
        /\ owner[i] # r => req[r].delta[i] = 0

\* payment_service.ts:190-201, refund_service.ts:107-111: from the lock on, the
\* order in the memory of a callback or a refund is the committed one, or one
\* edge of the table further, and the request holds the row until it ends.
ViewUnderLock ==
    \A r \in Requests : LET q == req[r] IN
        q.kind \in LockedReaders /\ q.pc # "idle" =>
            /\ q.pc \in {"order", "plan", "effects"}
            /\ q.plan \in RefundPlans \cup CallbackPlans
            /\ q.pc # "order" =>
                 /\ owner[q.order] = r
                 /\ q.rows = <<>> => q.view = status[q.order]
                 /\ q.rows # <<>> => /\ q.plan = <<>>
                                    /\ CanTransition(status[q.order], q.view)
                 /\ q.kind = "callback" /\ (q.plan # <<>> \/ q.rows # <<>>) =>
                       status[q.order] = "pending"
----------------------------------------------------------------------------
(* What the requests promise together.                                     *)

\* The specification without requests that OrderRequests implements.
Atomic == INSTANCE AtomicOrders WITH
    Orders <- Orders, Items <- Items, Quantity <- Quantity,
    InitialStock <- InitialStock, Backordered <- Backordered, Unmanaged <- Unmanaged,
    MaxEntries <- MaxEntries,
    status <- status, stock <- stock, ledger <- ledger, held <- held,
    history <- history

\* order_state_machine.ts:24-34: seen from the committed database, a request is
\* one atomic step that applies the effects of the transitions it took.
ImplementsAtomicOrders == Atomic!Spec

----------------------------------------------------------------------------
(* What the code's comments say and the code does not do.                  *)

\* order_state_machine.ts:25-27: "Every status change goes through transition()
\* [...] Validate the (from, to) pair against the transition table": a commit
\* moves an order only along one or two edges of the table.
StatusFollowsTable ==
    [][\A o \in Orders :
         \/ status'[o] = status[o]
         \/ CanTransition(status[o], status'[o])
         \/ \E s \in OrderStatuses : /\ CanTransition(status[o], s)
                                     /\ CanTransition(s, status'[o])]_vars
=============================================================================
