------------------------------ MODULE Payments ------------------------------
(***************************************************************************)
(* Payment attempts, PSP callbacks and the webhook ledger                  *)
(* (apps/api/app/services/payment_service.ts).                             *)
(*                                                                         *)
(* init and pay-link create an attempt for an order they read without a    *)
(* lock.  A callback locks the attempt, then the order, inserts a ledger   *)
(* row for the authority, and asks the PSP to verify in the middle of its  *)
(* transaction.  The PSP and the customer are outside: what they did stays *)
(* done when the transaction rolls back.  Stock is left to OrderRequests.  *)
(*                                                                         *)
(* The PSP is modelled from the adapter contract (base_redirect_gateway.ts)*)
(* that payment_service.ts calls.                                          *)
(***************************************************************************)
EXTENDS Naturals, OrderStatus

CONSTANTS
    Orders,        \* orders that have an order_key
    Attempts,      \* ids for rows of payment_attempts, authority included
    Requests,      \* requests in flight at the same time
    Keys,          \* Idempotency-Key header values
    NoKey,         \* the header is absent
    Silent,        \* attempts whose adapter reports no amount when it verifies
    LedgerKeyed,   \* the ledger has a unique key on (provider, event_id)
    MaxRequests,   \* bound: requests issued in a behaviour
    None           \* no request, order or attempt

ASSUME PaymentsAssumption ==
    /\ MaxRequests \in Nat
    /\ NoKey \notin Keys
    /\ Silent \subseteq Attempts
    /\ LedgerKeyed \in BOOLEAN
    /\ None \notin Requests \cup Orders \cup Attempts
    /\ Orders \cap Attempts = {}

VARIABLES
    status,    \* orders.status, committed
    charged,   \* orders.transaction_id: the attempt it came from, or None
    latest,    \* orders.last_payment_attempt_id, or None
    attempt,   \* payment_attempts, committed
    event,     \* processed_webhook_events.outcome by authority, committed
    psp,       \* what the PSP holds for the authority
    sent,      \* callbacks the PSP has sent for it: each may arrive again
    owner,     \* the request that holds the row's lock, or None
    req,       \* the requests in flight
    issued     \* requests issued so far

db == <<status, charged, latest, attempt, event>>
vars == <<status, charged, latest, attempt, event, psp, sent, owner, req, issued>>

\* 'initiated' is never committed: init() replaces it before its request ends.
AttemptStatuses == {"awaiting_callback", "verified", "failed", "cancelled"}

Declines == {"cancelled", "failed"}

Outcomes == Declines \cup {"pending", "verified", "verified_out_of_order",
                           "verify_failed", "amount_mismatch"}

Answers == {"ok", "mismatch", "rejected", "throws"}

Absent == [order |-> None, status |-> "absent", key |-> NoKey]

Idle == [pc |-> "idle", kind |-> "none", order |-> None, attempt |-> None,
         key |-> NoKey, view |-> "draft", seen |-> "absent", told |-> "none"]

Init ==
    /\ status = [o \in Orders |-> "pending"]
    /\ charged = [o \in Orders |-> None]
    /\ latest = [o \in Orders |-> None]
    /\ attempt = [a \in Attempts |-> Absent]
    /\ event = [a \in Attempts |-> "none"]
    /\ psp = [a \in Attempts |-> "open"]
    /\ sent = [a \in Attempts |-> {}]
    /\ owner = [w \in Orders \cup Attempts |-> None]
    /\ req = [r \in Requests |-> Idle]
    /\ issued = 0
----------------------------------------------------------------------------
(* The transaction of a request, as in OrderRequests.                      *)

\* Mutant: SELECT without FOR UPDATE.
Unlocked(r, w) == TRUE

Free(r, w) == owner[w] \in {None, r}

Begin(r, q) ==
    /\ req[r].pc = "idle"
    /\ issued < MaxRequests
    /\ req' = [req EXCEPT ![r] = q]
    /\ issued' = issued + 1
    /\ UNCHANGED <<db, psp, sent, owner>>

End(r) ==
    /\ req' = [req EXCEPT ![r] = Idle]
    /\ owner' = [w \in DOMAIN owner |-> IF owner[w] = r THEN None ELSE owner[w]]
    /\ UNCHANGED <<psp, sent, issued>>

Rollback(r) == End(r) /\ UNCHANGED db

Lock(r, w, q) ==
    /\ Free(r, w)
    /\ owner' = [owner EXCEPT ![w] = r]
    /\ req' = [req EXCEPT ![r] = q]
    /\ UNCHANGED <<db, psp, sent, issued>>

\* An exception of init or of the pay-link, a lost connection, a deadlock or a
\* crash, at any point.  What the PSP was told before stays.
RequestFails(r) == req[r].pc # "idle" /\ Rollback(r)
----------------------------------------------------------------------------
(* PaymentController.init and PayLinkController.pay.                       *)

\* The attempt init() finds for the order and the Idempotency-Key.
Existing(o, k) ==
    {a \in Attempts : k # NoKey /\ attempt[a].order = o /\ attempt[a].key = k}

InitPayment(r) ==
    \E o \in Orders, k \in Keys \cup {NoKey} :
        Begin(r, [Idle EXCEPT !.pc = "find", !.kind = "init", !.order = o,
                              !.key = k, !.view = status[o]])

\* The order is updated first when it is failed or another gateway was chosen.
PayLink(r) ==
    \E o \in Orders, k \in Keys \cup {NoKey}, pc \in {"save", "find"} :
        /\ status[o] \notin {"completed", "refunded"}
        /\ status[o] = "failed" => pc = "save"
        /\ Begin(r, [Idle EXCEPT !.pc = pc, !.kind = "paylink", !.order = o,
                                 !.key = k, !.view = status[o]])

\* order.save() of the gateway snapshot, and transition(order, Pending) of a
\* failed order: the row stays locked.
SaveOrder(r) ==
    LET q == req[r] IN
    /\ q.pc = "save"
    /\ Lock(r, q.order,
            IF q.view = "failed"
            THEN [q EXCEPT !.pc = "find", !.view = "pending", !.told = "reopened"]
            ELSE [q EXCEPT !.pc = "find"])

\* An init() whose key the order has used answers from the old attempt; a failed
\* order that the pay-link reopened stays reopened.
FindAttempt(r) ==
    LET q == req[r] IN
    /\ q.pc = "find"
    /\ IF Existing(q.order, q.key) = {}
       THEN /\ req' = [req EXCEPT ![r] = [q EXCEPT !.pc = "insert"]]
            /\ UNCHANGED <<db, psp, sent, owner, issued>>
       ELSE /\ status' = IF q.told = "reopened"
                         THEN [status EXCEPT ![q.order] = "pending"] ELSE status
            /\ UNCHANGED <<charged, latest, attempt, event>>
            /\ End(r)

\* payment_attempts_idempotency_key_unique: an INSERT waits for an uncommitted
\* row with its key, and fails on a committed one.
KeyInFlight(r, k) ==
    \E p \in Requests \ {r} :
        k # NoKey /\ req[p].key = k /\ req[p].pc = "link"

\* Mutant: the migration has no unique index on the key.
NotUnique(k) == FALSE

KeyTaken(k) == \E a \in Attempts : k # NoKey /\ attempt[a].key = k

InsertAttempt(r) ==
    LET q == req[r] IN
    /\ q.pc = "insert"
    /\ ~KeyInFlight(r, q.key)
    /\ IF KeyTaken(q.key)
       THEN Rollback(r)
       ELSE \E a \in Attempts :
              /\ attempt[a] = Absent
              /\ \A p \in Requests : req[p].attempt # a
              /\ req' = [req EXCEPT ![r] = [q EXCEPT !.pc = "link", !.attempt = a]]
              /\ UNCHANGED <<db, psp, sent, owner, issued>>

\* Mutant: the attempt is linked before its outcome is saved.
LeftInitiated == {"initiated", "awaiting_callback", "verified"}

\* After adapter.init(): a redirect gateway leaves the attempt awaiting its
\* callback (or failed, without a URL); cod and bank_transfer verify it at once.
InitOutcomes == {"awaiting_callback", "failed", "verified"}

\* An offline gateway puts a pending order on hold.  linkLatest() then updates
\* the order row.
LinkLatest(r) ==
    LET q == req[r] IN
    /\ q.pc = "link"
    /\ Free(r, q.order)
    /\ \E s \in InitOutcomes :
         /\ attempt' = [attempt EXCEPT ![q.attempt] =
                          [order |-> q.order, status |-> s, key |-> q.key]]
         /\ status' = [status EXCEPT ![q.order] =
              IF s = "verified" /\ q.view = "pending" THEN "on_hold"
              ELSE IF q.told = "reopened" THEN "pending" ELSE @]
    /\ latest' = [latest EXCEPT ![q.order] = q.attempt]
    /\ UNCHANGED <<charged, event>>
    /\ End(r)
----------------------------------------------------------------------------
(* The customer at the PSP, and an administrator.                          *)

\* The customer gives up or the card is refused; the page stays open.
Declined(a, how) ==
    /\ attempt[a].status = "awaiting_callback" /\ psp[a] = "open"
    /\ sent' = [sent EXCEPT ![a] = @ \cup {how}]
    /\ UNCHANGED <<db, psp, owner, req, issued>>

\* The customer pays the amount asked for, or the PSP books another one.
Pays(a, how) ==
    /\ attempt[a].status = "awaiting_callback" \/ sent[a] # {}
    /\ psp[a] = "open"
    /\ psp' = [psp EXCEPT ![a] = how]
    /\ sent' = [sent EXCEPT ![a] = @ \cup {"success"}]
    /\ UNCHANGED <<db, owner, req, issued>>

\* Any other request that moves the order, seen as one step: OrderRequests has
\* its interleavings.
AdminTransition(o) ==
    /\ owner[o] = None
    /\ \E to \in OrderStatuses :
         /\ CanTransition(status[o], to)
         /\ status' = [status EXCEPT ![o] = to]
    /\ UNCHANGED <<charged, latest, attempt, event, psp, sent, owner, req, issued>>
----------------------------------------------------------------------------
(* PaymentController.callback -> PaymentService.verifyCallback.            *)

Callback(r) ==
    \E a \in Attempts : \E how \in sent[a] :
        Begin(r, [Idle EXCEPT !.pc = "attempt", !.kind = "callback",
                              !.order = attempt[a].order, !.attempt = a,
                              !.told = how])

LockAttempt(r) ==
    LET q == req[r] IN
    /\ q.pc = "attempt"
    /\ Lock(r, q.attempt, [q EXCEPT !.pc = "order", !.seen = attempt[q.attempt].status])

\* The order row, read under its lock, and INSERT ... ON CONFLICT (provider,
\* event_id) DO NOTHING into the ledger.  Postgres wants a unique index on just
\* these columns: without one the statement fails (42P10) and aborts the
\* transaction; the controller answers 302 to that too, and nothing is committed.
LockOrder(r) ==
    LET q == req[r] IN
    /\ q.pc = "order"
    /\ IF LedgerKeyed
       THEN Lock(r, q.order, [q EXCEPT !.pc = "recorded", !.view = status[q.order]])
       ELSE Free(r, q.order) /\ Rollback(r)

\* Mutant: the ledger never sees a duplicate.
NeverReplayed(a) == FALSE

\* record() found the row of an earlier callback.
Replayed(a) == event[a] # "none"

Replay(r) ==
    LET q == req[r] IN
    /\ q.pc = "recorded" /\ Replayed(q.attempt)
    /\ latest' = [latest EXCEPT ![q.order] = q.attempt]
    /\ UNCHANGED <<status, charged, attempt, event>>
    /\ End(r)

\* The answer of a callback that is not a replay: the attempt and the ledger row
\* are final, and a pending order moves.
Answer(r, s, outcome, to) ==
    LET q == req[r] IN
    /\ attempt' = [attempt EXCEPT ![q.attempt].status = s]
    /\ event' = [event EXCEPT ![q.attempt] = outcome]
    /\ status' = IF q.view = "pending" /\ to # "pending"
                 THEN [status EXCEPT ![q.order] = to] ELSE status
    /\ latest' = [latest EXCEPT ![q.order] = q.attempt]
    /\ charged' = IF outcome = "verified"
                  THEN [charged EXCEPT ![q.order] = q.attempt] ELSE charged
    /\ End(r)

\* parsed.status is cancelled or failed; or the attempt was verified although the
\* ledger has no row for it.  The PSP is not asked.
AnswerUnasked(r) ==
    LET q == req[r] IN
    /\ q.pc = "recorded" /\ ~Replayed(q.attempt)
    /\ q.told \in Declines \/ q.seen = "verified"
    /\ IF q.told \in Declines
       THEN Answer(r, IF q.seen = "verified" THEN "verified" ELSE q.told,
                   q.told, "failed")
       ELSE Answer(r, "verified", "verified_out_of_order", "pending")

\* Mutant: no amount guard.
NoAmountGuard(a) == "ok"

\* What becomes of a payment the PSP confirms: its amount is compared only when
\* the adapter reports one.
AmountGuard(a) ==
    IF psp[a] \in {"mispaid", "mispaid_settled"} /\ a \notin Silent
    THEN "mismatch" ELSE "ok"

\* What the PSP settles when it is asked to verify.
Settled(a) == CASE psp[a] = "paid" -> "settled"
                [] psp[a] = "mispaid" -> "mispaid_settled"
                [] OTHER -> psp[a]

\* adapter.verify(): the PSP settles a payment when it is asked about it.  The
\* call may be refused, and may time out before or after the PSP acted.
Verify(r) ==
    LET q == req[r]  a == req[r].attempt IN
    /\ q.pc = "recorded" /\ ~Replayed(a) /\ q.told = "success"
    /\ q.seen # "verified"
    /\ \E t \in Answers :
         /\ req' = [req EXCEPT ![r] = [q EXCEPT !.pc = "answered", !.told = t]]
         /\ \/ t \in {"ok", "mismatch"} /\ psp[a] # "open" /\ t = AmountGuard(a)
               /\ psp' = [psp EXCEPT ![a] = Settled(a)]
            \/ t = "throws" /\ psp' \in {psp, [psp EXCEPT ![a] = Settled(a)]}
            \/ t = "rejected" /\ UNCHANGED psp
    /\ UNCHANGED <<db, sent, owner, issued>>

\* Mutant: the failed verification is written to the ledger only.
FailedInLedgerOnly(r, outcome) == Answer(r, "awaiting_callback", outcome, "failed")

NotVerified(r, outcome) == Answer(r, "failed", outcome, "failed")

VerifyAnswered(r) ==
    LET q == req[r] IN
    /\ q.pc = "answered"
    /\ \/ q.told = "ok" /\ Answer(r, "verified", "verified", "processing")
       \/ q.told = "mismatch" /\ NotVerified(r, "amount_mismatch")
       \/ q.told = "rejected" /\ NotVerified(r, "verify_failed")

\* verify() throws: the controller catches the error and answers 302, so the
\* middleware commits what the transaction has written: the ledger row.
VerifyThrows(r) ==
    LET q == req[r] IN
    /\ q.pc = "answered" /\ q.told = "throws"
    /\ event' = [event EXCEPT ![q.attempt] = "pending"]
    /\ UNCHANGED <<status, charged, latest, attempt>>
    /\ End(r)
----------------------------------------------------------------------------
Arrives(r) == InitPayment(r) \/ PayLink(r) \/ Callback(r)

Serve(r) ==
    \/ SaveOrder(r) \/ FindAttempt(r) \/ InsertAttempt(r) \/ LinkLatest(r)
    \/ LockAttempt(r) \/ LockOrder(r)
    \/ Replay(r) \/ AnswerUnasked(r)
    \/ Verify(r) \/ VerifyAnswered(r) \/ VerifyThrows(r)

Step(r) == Arrives(r) \/ Serve(r) \/ RequestFails(r)

Customer ==
    \/ \E a \in Attempts, how \in Declines : Declined(a, how)
    \/ \E a \in Attempts, how \in {"paid", "mispaid"} : Pays(a, how)

World == Customer \/ \E o \in Orders : AdminTransition(o)

Next == World \/ \E r \in Requests : Step(r)

Spec == Init /\ [][Next]_vars

\* Behaviours of customers and their PSP alone, in which every request is served
\* and none breaks down.
CalmNext == Customer \/ \E r \in Requests : Arrives(r) \/ Serve(r)

CalmSpec == Init /\ [][CalmNext]_vars /\ \A r \in Requests : WF_vars(Serve(r))
----------------------------------------------------------------------------
TypeOK ==
    /\ status \in [Orders -> OrderStatuses]
    /\ charged \in [Orders -> Attempts \cup {None}]
    /\ latest \in [Orders -> Attempts \cup {None}]
    /\ attempt \in [Attempts ->
           [order : Orders, status : AttemptStatuses, key : Keys \cup {NoKey}]
           \cup {Absent}]
    /\ event \in [Attempts -> Outcomes \cup {"none"}]
    /\ psp \in [Attempts -> {"open", "paid", "mispaid", "settled", "mispaid_settled"}]
    /\ sent \in [Attempts -> SUBSET (Declines \cup {"success"})]
    /\ owner \in [Orders \cup Attempts -> Requests \cup {None}]
    /\ issued \in Nat
    /\ \A o \in Orders : latest[o] # None => attempt[latest[o]].order = o

\* payment_service.ts:203-227: the ledger and the attempt tell the same story,
\* whatever callbacks of one authority arrive, in which order and how often: a
\* final outcome was written with the attempt it is about, and no attempt of a
\* PSP is verified behind the ledger's back.
LedgerMatchesAttempt ==
    \A a \in Attempts :
        /\ event[a] = "verified" => attempt[a].status = "verified"
        /\ event[a] \in Declines => attempt[a].status = event[a]
        /\ event[a] \in {"verify_failed", "amount_mismatch"} =>
              attempt[a].status = "failed"
        /\ event[a] # "verified_out_of_order"
        /\ attempt[a].status = "verified" /\ sent[a] # {} => event[a] = "verified"

\* payment_service.ts:46-48: "concurrent PSP retries serialize at the database":
\* the PSP is never asked about one attempt by two requests at a time, nor about
\* an attempt whose outcome is in the ledger.
VerifyExclusive ==
    \A r \in Requests : req[r].pc = "answered" =>
        /\ event[req[r].attempt] = "none"
        /\ \A p \in Requests \ {r} :
              req[p].attempt = req[r].attempt => req[p].pc # "answered"

\* What the PSP settled for the attempt can be taken for its amount: it is the
\* amount, or the adapter keeps what it is to itself.
PaidFor(a) ==
    \/ psp[a] = "settled"
    \/ psp[a] = "mispaid_settled" /\ a \in Silent

\* payment_service.ts:274-283, 331-340: an order carries the transaction id of an
\* attempt only if the PSP settled that attempt, in the amount it was made for or
\* in one that its adapter does not report (base_redirect_gateway.ts:62).
ChargeIsSettled ==
    \A o \in Orders : charged[o] # None =>
        /\ PaidFor(charged[o])
        /\ attempt[charged[o]].status = "verified"
        /\ attempt[charged[o]].order = o

\* payment_service.ts:60-62: concurrent inits with one Idempotency-Key leave one
\* attempt, for one order.
OneAttemptPerKey ==
    \A a, b \in Attempts :
        attempt[a].key = attempt[b].key /\ attempt[a].key # NoKey => a = b

\* payment_service.ts:230: a verified attempt is never failed or cancelled by a
\* later or a concurrent callback, and never leaves its order.
VerifiedIsFinal ==
    [][\A a \in Attempts :
         attempt[a].status = "verified" => attempt'[a] = attempt[a]]_vars
----------------------------------------------------------------------------
(* What the code's comments say and the code does not do.                  *)

\* webhook_idempotency_service.ts:38-39: "the ledger reflects what actually
\* happened to each event": as long as nothing breaks down, a callback that has
\* found its attempt is in the ledger in the end.
CallbackRecorded ==
    \A a \in Attempts :
        (\E r \in Requests : req[r].pc = "order" /\ req[r].attempt = a)
            ~> event[a] # "none"

\* pay_link_controller.ts:12-14: "The only orders eligible for the retry flow are
\* failed [...] and on_hold": it opens no second payment on an order that a
\* verified payment moved to processing.
PayLinkRetriesUnpaid ==
    [][\A r \in Requests : LET q == req[r] IN
         q.kind = "paylink" /\ q.pc = "link" /\ attempt' # attempt =>
            ~(q.view = "processing" /\ charged[q.order] # None)]_vars
=============================================================================
