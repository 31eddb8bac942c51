------------------------------ MODULE Refunds ------------------------------
(***************************************************************************)
(* Refunds of one order (apps/api/app/services/refund_service.ts).         *)
(*                                                                         *)
(* create() takes a Redis lease on the order, then the order row, then     *)
(* checks the request against the refunds booked so far, inserts its own,  *)
(* asks the PSP for the money, and moves the order to refunded when        *)
(* nothing is left.  The lease runs out after 30 s and is given back       *)
(* before the request's transaction commits: the row lock has to do.       *)
(*                                                                         *)
(* order_refunds is kept as what the code asks of it: the sum of its       *)
(* amounts, the quantity it names per order line, and the keys it holds.   *)
(* The stock that a restock returns is in OrderRequests.                   *)
(*                                                                         *)
(* The PSP is outside the transaction: what it has given back stays given  *)
(* back when the transaction is lost.  lost is a history variable.         *)
(***************************************************************************)
EXTENDS Naturals, OrderStatus

CONSTANTS
    Requests,      \* requests in flight at the same time
    Lines,         \* order lines
    Quantity,      \* order_line_items.quantity
    GrandTotal,    \* orders.grand_total
    Payloads,      \* request bodies, see Payload
    Keys,          \* Idempotency-Key header values
    NoKey,         \* the header is absent
    MaxRequests,   \* bound: requests issued in a behaviour
    None,          \* no request
    Lost           \* a process that died: its lease is still in Redis

\* A body names an amount, or lines, or (invalid) both or neither.  A line may
\* be named by several entries: largest is the biggest of them, total their sum.
Payload == [ kind : {"amount", "lines", "invalid"}, amount : Nat,
             largest : [Lines -> Nat], total : [Lines -> Nat] ]

ASSUME RefundsAssumption ==
    /\ Quantity \in [Lines -> Nat]
    /\ GrandTotal \in Nat
    /\ Payloads \subseteq Payload
    /\ MaxRequests \in Nat
    /\ NoKey \notin Keys
    /\ None \notin Requests /\ Lost \notin Requests

VARIABLES
    status,     \* orders.status, committed
    refunded,   \* SUM(order_refunds.amount_minor), committed
    returned,   \* SUM(order_refund_line_items.quantity) by line, committed
    keys,       \* order_refunds.idempotency_key, committed
    lease,      \* who holds the lock order:<id> in Redis
    owner,      \* the request that holds the order row's lock, or None
    req,        \* the requests in flight
    issued,     \* requests issued so far
    paidBack,   \* what the PSP has given back to the customer
    lost        \* the part of it whose transaction ended without a commit

db == <<status, refunded, returned, keys>>
psp == <<paidBack, lost>>
vars == <<status, refunded, returned, keys, lease, owner, req, issued,
          paidBack, lost>>

NoLines == [l \in Lines |-> 0]

Empty == [kind |-> "invalid", amount |-> 0, largest |-> NoLines, total |-> NoLines]

NewRequest(pc, body, k) == [pc |-> pc, body |-> body, key |-> k,
                            view |-> "draft", books |-> FALSE, full |-> FALSE,
                            paid |-> 0]

Idle == NewRequest("idle", Empty, NoKey)

Init ==
    /\ status \in OrderStatuses
    /\ refunded = 0
    /\ returned = NoLines
    /\ keys = {}
    /\ lease = None
    /\ owner = None
    /\ req = [r \in Requests |-> Idle]
    /\ issued = 0
    /\ paidBack = 0 /\ lost = 0
----------------------------------------------------------------------------
(* The lease, the row lock and the transaction.                            *)

\* Mutant: SELECT without FOR UPDATE; the lease alone.
Unlocked(r) == TRUE

Free(r) == owner \in {None, r}

\* Mutant: the row lock outlives the transaction.
StaysLocked(r) == owner' = owner

Unlock(r) == owner' = IF owner = r THEN None ELSE owner

Unlease(r) == lease' = IF lease = r THEN None ELSE lease

\* The refund row goes with its transaction, the money does not come back.
Loses(r) == lost' = lost + req[r].paid /\ paidBack' = paidBack

\* An exception after the lease: `finally` gives it back, the middleware rolls
\* back.
Rollback(r) ==
    /\ req' = [req EXCEPT ![r] = Idle]
    /\ Unlock(r) /\ Unlease(r) /\ Loses(r)
    /\ UNCHANGED <<db, issued>>

\* The process or its connection is gone: the row lock goes with it, the lease
\* stays until it runs out.
Crash(r) ==
    /\ req[r].pc # "idle"
    /\ req' = [req EXCEPT ![r] = Idle]
    /\ Unlock(r) /\ Loses(r)
    /\ lease' = IF lease = r THEN Lost ELSE lease
    /\ UNCHANGED <<db, issued>>

\* 30 seconds: the holder may still be waiting for the row or for the PSP.
LeaseExpires ==
    /\ lease # None
    /\ lease' = None
    /\ UNCHANGED <<db, psp, owner, req, issued>>

\* Any other request that moves the order.  It needs the row, and may put down
\* any status: OrderRequests has the transitions and the stale ones.
OtherRequest ==
    /\ owner = None
    /\ status' \in OrderStatuses
    /\ UNCHANGED <<refunded, returned, keys, psp, lease, owner, req, issued>>
----------------------------------------------------------------------------
(* RefundService.create.                                                   *)

\* A request that finds the lease taken is answered 409 at once.
Create(r) ==
    /\ req[r].pc = "idle"
    /\ issued < MaxRequests
    /\ issued' = issued + 1
    /\ IF lease = None
       THEN \E body \in Payloads, k \in Keys \cup {NoKey} :
              /\ req' = [req EXCEPT ![r] = NewRequest("order", body, k)]
              /\ lease' = r
       ELSE UNCHANGED <<req, lease>>
    /\ UNCHANGED <<db, psp, owner>>

\* The order has a refund with the request's key.
Known(q) == q.key \in keys

Refundable(s) == s \notin {"draft", "cancelled", "failed", "refunded"}

\* Mutant: the amount is checked against the order, not what is left of it.
WithinTotal(body) == body.amount > 0 /\ body.amount <= GrandTotal

WithinOutstanding(body) ==
    body.amount > 0 /\ body.amount <= GrandTotal - refunded

\* Mutant: quantities are checked against the order, not what is left of it.
WithinOrdered(body) == \A l \in Lines : body.largest[l] <= Quantity[l]

\* validateLineQuantities looks at one entry of the body at a time.
WithinRemaining(body) ==
    \A l \in Lines : body.largest[l] > 0 =>
        body.largest[l] + returned[l] <= Quantity[l]

Valid(body) ==
    /\ body.kind # "invalid"
    /\ refunded < GrandTotal
    /\ WithinOutstanding(body)
    /\ body.kind = "lines" => WithinRemaining(body)

\* Mutant: > instead of >=: the last refund leaves the order where it is.
MoreThanFull(body) == refunded + body.amount > GrandTotal

FullyRefunded(body) == refunded + body.amount >= GrandTotal

\* The order row is locked, then read, then the refunds: a retry is answered
\* with the refund it made.
AnswerRetry(r) ==
    LET q == req[r] IN
    /\ q.pc = "order" /\ Free(r) /\ Known(q)
    /\ owner' = r
    /\ req' = [req EXCEPT ![r].pc = "leave"]
    /\ UNCHANGED <<db, psp, lease, issued>>

Refuse(r) ==
    LET q == req[r] IN
    /\ q.pc = "order" /\ Free(r) /\ ~Known(q)
    /\ ~(Refundable(status) /\ Valid(q.body))
    /\ Rollback(r)

\* INSERT of the refund and its lines.
Book(r) ==
    LET q == req[r] IN
    /\ q.pc = "order" /\ Free(r) /\ ~Known(q)
    /\ Refundable(status) /\ Valid(q.body)
    /\ owner' = r
    /\ req' = [req EXCEPT ![r] = [q EXCEPT !.pc = "gateway", !.books = TRUE,
                   !.view = status, !.full = FullyRefunded(q.body)]]
    /\ UNCHANGED <<db, psp, lease, issued>>

\* paymentService.refund(): the PSP gives the money back or it does not; whatever
\* it answers or throws is written on the refund row, and the booking goes on.
CallGateway(r) ==
    /\ req[r].pc = "gateway"
    /\ \E paid \in {0, req[r].body.amount} :
          /\ req' = [req EXCEPT ![r].pc = "transition", ![r].paid = paid]
          /\ paidBack' = paidBack + paid
    /\ UNCHANGED <<db, lost, lease, owner, issued>>

\* A full refund moves the order.  From pending and on_hold the table has no
\* such row: 422, after the PSP was asked.
Transition(r) ==
    LET q == req[r] IN
    /\ q.pc = "transition"
    /\ IF q.full /\ ~CanTransition(q.view, "refunded")
       THEN Rollback(r)
       ELSE /\ req' = [req EXCEPT ![r].pc = "leave"]
            /\ UNCHANGED <<db, psp, lease, owner, issued>>

\* create() gives the lease back and emits order:refunded; the transaction of
\* the request is still open.
Leave(r) ==
    /\ req[r].pc = "leave"
    /\ req' = [req EXCEPT ![r].pc = "commit"]
    /\ Unlease(r)
    /\ UNCHANGED <<db, psp, owner, issued>>

Commit(r) ==
    LET q == req[r] IN
    /\ q.pc = "commit"
    /\ IF q.books
       THEN /\ refunded' = refunded + q.body.amount
            /\ returned' = [l \in Lines |-> returned[l] + q.body.total[l]]
            /\ keys' = keys \cup ({q.key} \ {NoKey})
            /\ status' = IF q.full THEN "refunded" ELSE status
       ELSE UNCHANGED db
    /\ req' = [req EXCEPT ![r] = Idle]
    /\ Unlock(r)
    /\ UNCHANGED <<psp, lease, issued>>
----------------------------------------------------------------------------
Step(r) ==
    \/ Create(r) \/ AnswerRetry(r) \/ Refuse(r) \/ Book(r)
    \/ CallGateway(r) \/ Transition(r) \/ Leave(r) \/ Commit(r)
    \/ Crash(r)

Next == LeaseExpires \/ OtherRequest \/ \E r \in Requests : Step(r)

Spec == Init /\ [][Next]_vars
----------------------------------------------------------------------------
Inside == {"gateway", "transition", "leave", "commit"}

Request ==
    [ pc : {"idle", "order"} \cup Inside, body : Payloads \cup {Empty},
      key : Keys \cup {NoKey}, view : OrderStatuses,
      books : BOOLEAN, full : BOOLEAN, paid : Nat ]

\* Every variable has its type, and the row's lock is held by the request that
\* is past it, and by no other: it does not outlive the request.
TypeOK ==
    /\ status \in OrderStatuses
    /\ refunded \in Nat
    /\ returned \in [Lines -> Nat]
    /\ keys \subseteq Keys
    /\ lease \in Requests \cup {None, Lost}
    /\ owner \in Requests \cup {None}
    /\ req \in [Requests -> Request]
    /\ issued \in Nat
    /\ paidBack \in Nat /\ lost \in Nat
    /\ \A r \in Requests : owner = r <=> req[r].pc \in Inside

\* refund_service.ts:43, 138-162: the refunds of an order never add up to more
\* than it cost, although the lease of one refund may run out under it.
RefundsBounded == refunded <= GrandTotal

\* refund_service.ts:157-198: what the PSP is asked to give back fits, with what
\* is booked, into the order's total, and no other refund of the order is
\* between its check and its commit.
AskedWithinOutstanding ==
    \A r \in Requests : req[r].pc = "gateway" =>
        /\ refunded + req[r].body.amount <= GrandTotal
        /\ \A p \in Requests \ {r} : req[p].pc \notin Inside

\* refund_service.ts:52, 341-348: over all refunds, retries and concurrent requests
\* the PSP gives back no more than the order cost, but for what it gave back for a
\* transaction that was lost: the process died, or the order could not be moved to
\* refunded after the PSP had been asked.
PaidBackBounded == paidBack <= GrandTotal + lost

\* refund_service.ts:246-247: no line is refunded in a greater quantity than was
\* ordered, over all refunds.
LinesBounded == \A l \in Lines : returned[l] <= Quantity[l]

\* refund_service.ts:52, 200-208: a booked refund moves the order to refunded
\* exactly when nothing is left to refund, from a status that has that edge at
\* the moment of the commit, and otherwise leaves an order that is refundable.
FullMeansRefunded ==
    [][refunded' # refunded =>
         IF refunded' = GrandTotal
         THEN status' = "refunded" /\ CanTransition(status, "refunded")
         ELSE status' = status /\ Refundable(status)]_vars

\* What a request past the row lock knows is still so.
CheckedUnderLock ==
    \A r \in Requests : LET q == req[r] IN
        /\ q.pc \in {"idle", "order"} => ~q.books
        /\ q.pc \in {"gateway", "transition"} => q.books
        /\ q.books =>
             /\ q.body \in Payloads /\ q.body.kind # "invalid"
             /\ q.body.amount > 0
             /\ refunded + q.body.amount <= GrandTotal
             /\ q.view = status /\ Refundable(status)
             /\ q.full <=> refunded + q.body.amount >= GrandTotal
             /\ q.full /\ q.pc \in {"leave", "commit"} =>
                    CanTransition(q.view, "refunded")
             /\ \A l \in Lines :
                    q.body.kind = "lines" /\ q.body.largest[l] > 0 =>
                        returned[l] + q.body.largest[l] <= Quantity[l]

\* Money the PSP has given back is booked, about to be, or lost.
PaidBackBooked ==
    /\ \A r \in Requests : LET q == req[r] IN
          /\ q.paid <= q.body.amount
          /\ q.pc \in {"idle", "order", "gateway"} \/ ~q.books => q.paid = 0
    /\ \A r \in Requests : owner = r => paidBack <= refunded + lost + req[r].paid
    /\ owner = None => paidBack <= refunded + lost
=============================================================================
