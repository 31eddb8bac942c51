------------------------------ MODULE Checkout ------------------------------
(***************************************************************************)
(* From the cart to the order: cart, coupons, draft, submit                *)
(* (apps/api/app/middleware/cart_middleware.ts, controllers/cart and       *)
(* controllers/checkout, services/order_factory.ts, order_finalizer.ts).   *)
(*                                                                         *)
(* Every request of the storefront first saves the cart row, which locks   *)
(* it until the request's transaction ends: requests of one cart follow    *)
(* one another.  Requests of different carts meet in the coupons they      *)
(* redeem, which submit locks one by one, and in the unique index on the   *)
(* Idempotency-Key.  Administrators edit coupons and prices meanwhile.     *)
(*                                                                         *)
(* An order stands for its draft and for the order that submit makes of    *)
(* it; its later life and its stock are in OrderRequests.                  *)
(***************************************************************************)
EXTENDS Naturals, FiniteSets

CONSTANTS
    Orders,        \* ids for rows of orders
    Carts,         \* carts; one draft may be made from each at a time
    Shopper,       \* Shopper[c]: the customer or billing e-mail behind a cart
    InitiallyApplied, \* InitiallyApplied[c]: the coupons applied to a cart
    Coupons,       \* coupons of the shop
    Restricted,    \* coupons for listed products or categories only
    Spend,         \* Spend[c]: totals within minimum_amount and maximum_amount
    Invited,       \* Invited[c]: the customers its e-mail patterns let in
    InitialCoupons,\* what the coupons may be before the first request
    Limits,        \* usage limits an administrator may set, or NoLimit
    NoLimit,       \* usage_limit_global or usage_limit_per_user is null
    Prices,        \* prices of the product
    InitialPrice,  \* its price at the beginning
    Empty,         \* the price of a cart without items
    Keys,          \* Idempotency-Key header values
    NoKey,         \* the header is absent
    Requests,      \* requests in flight at the same time
    MaxRequests,   \* bound: requests issued in a behaviour
    MaxEdits,      \* bound: changes of carts, coupons and prices
    None           \* no request, order, cart or coupon

CouponRow == [ live : BOOLEAN,         \* deleted_at is null
               active : BOOLEAN,       \* status, starts_at, expires_at
               global : Limits,        \* usage_limit_global
               perUser : Limits ]      \* usage_limit_per_user

ASSUME CheckoutAssumption ==
    /\ Restricted \subseteq Coupons
    /\ Spend \in [Coupons -> SUBSET Prices]
    /\ Limits \subseteq Nat \cup {NoLimit}
    /\ InitialCoupons \subseteq [Coupons -> CouponRow]
    /\ InitiallyApplied \in [Carts -> SUBSET Coupons]
    /\ InitialPrice \in Prices /\ Empty \notin Prices
    /\ NoKey \notin Keys
    /\ None \notin Requests \cup Orders \cup Carts \cup Coupons
    /\ Carts \cap Coupons = {}
    /\ MaxRequests \in Nat /\ MaxEdits \in Nat

VARIABLES
    order,     \* orders with their lines and coupon lines, committed
    cart,      \* carts with their items and applied coupons, committed
    coupon,    \* coupons, committed
    redeemed,  \* coupon_redemptions, committed: a row per coupon and order
    price,     \* the product's price now
    owner,     \* the request that holds the row's lock, or None
    req,       \* the requests in flight
    issued,    \* requests issued so far
    edits      \* changes of carts, coupons and prices asked for so far

db == <<order, cart, coupon, redeemed>>
vars == <<order, cart, coupon, redeemed, price, owner, req, issued, edits>>

Absent == [stage |-> "absent", cart |-> None, price |-> Empty,
           coupons |-> {}, key |-> NoKey]

CartEdits == {"add", "clear", "apply", "remove"}
Kinds == CartEdits \cup {"show", "submit"}

\* todo and done: the coupons submit has still to lock, and those it has.
Idle == [pc |-> "idle", kind |-> "none", cart |-> None, coupon |-> None,
         key |-> NoKey, order |-> None, todo |-> {}, done |-> {}]

Init ==
    /\ price = InitialPrice
    /\ order = [o \in Orders |-> Absent]
    /\ cart = [c \in Carts |-> [price |-> price, applied |-> InitiallyApplied[c]]]
    /\ coupon \in InitialCoupons
    /\ redeemed = {}
    /\ owner = [w \in Carts \cup Coupons |-> None]
    /\ req = [r \in Requests |-> Idle]
    /\ issued = 0
    /\ edits = 0
----------------------------------------------------------------------------
(* The transaction of a request, as in OrderRequests.                      *)

\* Mutant: SELECT without FOR UPDATE.
Unlocked(r, w) == TRUE

Free(r, w) == owner[w] \in {None, r}

\* Mutant: the locks on the coupons outlive the transaction.
ReleasedCarts(r) ==
    [w \in DOMAIN owner |-> IF owner[w] = r /\ w \in Carts THEN None ELSE owner[w]]

Released(r) == [w \in DOMAIN owner |-> IF owner[w] = r THEN None ELSE owner[w]]

End(r) ==
    /\ req' = [req EXCEPT ![r] = Idle]
    /\ owner' = Released(r)
    /\ UNCHANGED <<price, issued, edits>>

\* Mutant: the redemptions are written outside the transaction.
RollbackKeepsRedemptions(r) ==
    /\ redeemed' = redeemed \cup (req[r].done \X {req[r].order})
    /\ UNCHANGED <<order, cart, coupon>>
    /\ End(r)

Rollback(r) == End(r) /\ UNCHANGED db

Goes(r, q) ==
    /\ req' = [req EXCEPT ![r] = q]
    /\ UNCHANGED <<db, price, issued, edits>>

\* Out of stock, an address that is missing, the payment gateway that refuses
\* init(), a lost connection, a crash: the transaction is rolled back.
RequestFails(r) == req[r].pc # "idle" /\ Rollback(r)
----------------------------------------------------------------------------
(* CartMiddleware.handle: the cart's row is saved before the handler runs. *)

Arrive(r) ==
    /\ req[r].pc = "idle"
    /\ issued < MaxRequests
    /\ issued' = issued + 1
    /\ \E kind \in Kinds, c \in Carts, k \in Keys \cup {NoKey} :
       \E named \in IF kind \in {"apply", "remove"} THEN Coupons ELSE {None} :
          /\ kind # "submit" => k = NoKey
          /\ kind \in CartEdits => edits < MaxEdits
          /\ edits' = IF kind \in CartEdits THEN edits + 1 ELSE edits
          /\ req' = [req EXCEPT ![r] =
               [Idle EXCEPT !.pc = "cart", !.kind = kind, !.cart = c,
                            !.coupon = named, !.key = k]]
    /\ UNCHANGED <<db, price, owner>>

\* Mutant: the middleware does not save the cart.
CartNotSaved(r) ==
    /\ req[r].pc = "cart"
    /\ Goes(r, [req[r] EXCEPT !.pc = "handle"])
    /\ UNCHANGED owner

SaveCart(r) ==
    /\ req[r].pc = "cart"
    /\ Free(r, req[r].cart)
    /\ owner' = [owner EXCEPT ![req[r].cart] = r]
    /\ Goes(r, [req[r] EXCEPT !.pc = "handle"])

Handles(r, kind) == req[r].pc = "handle" /\ req[r].kind = kind
----------------------------------------------------------------------------
(* CartController and the coupons of a cart.                               *)

\* A line keeps the price it was added with.
AddItem(r) ==
    LET c == req[r].cart IN
    /\ Handles(r, "add")
    /\ cart' = [cart EXCEPT ![c].price = IF @ = Empty THEN price ELSE @]
    /\ UNCHANGED <<order, coupon, redeemed>>
    /\ End(r)

Clear(r) ==
    /\ Handles(r, "clear")
    /\ cart' = [cart EXCEPT ![req[r].cart].price = Empty]
    /\ UNCHANGED <<order, coupon, redeemed>>
    /\ End(r)

\* A coupon that exists and is in force; the other reasons of checkEligibility,
\* and the usage counts, which are read outside the transaction, may refuse it
\* as well (RequestFails).
ApplyCoupon(r) ==
    LET q == req[r] IN
    /\ Handles(r, "apply")
    /\ coupon[q.coupon].live /\ coupon[q.coupon].active
    /\ cart' = [cart EXCEPT ![q.cart].applied = @ \cup {q.coupon}]
    /\ UNCHANGED <<order, coupon, redeemed>>
    /\ End(r)

RemoveCoupon(r) ==
    LET q == req[r] IN
    /\ Handles(r, "remove")
    /\ cart' = [cart EXCEPT ![q.cart].applied = @ \ {q.coupon}]
    /\ UNCHANGED <<order, coupon, redeemed>>
    /\ End(r)
----------------------------------------------------------------------------
(* CheckoutDraftController.                                                *)

Drafts(c) == {o \in Orders : order[o].stage = "draft" /\ order[o].cart = c}

\* findExistingDraft.  A draft that is there stays as it is, whatever was put into
\* the cart since.
ShowDraft(r) ==
    /\ Handles(r, "show")
    /\ IF Drafts(req[r].cart) # {}
       THEN Rollback(r)
       ELSE Goes(r, [req[r] EXCEPT !.pc = "make"]) /\ UNCHANGED owner

\* OrderFactory.fromCart: the cart's prices and coupons are copied.
MakeDraft(r) ==
    LET c == req[r].cart IN
    /\ req[r].pc = "make"
    /\ cart[c].price # Empty
    /\ \E o \in Orders :
         /\ order[o] = Absent
         /\ order' = [order EXCEPT ![o] =
                [stage |-> "draft", cart |-> c, price |-> cart[c].price,
                 coupons |-> cart[c].applied, key |-> NoKey]]
    /\ UNCHANGED <<cart, coupon, redeemed>>
    /\ End(r)
----------------------------------------------------------------------------
(* IdempotencyMiddleware and CheckoutSubmitController.submit.              *)

KeyTaken(k) == \E o \in Orders : k # NoKey /\ order[o].key = k

\* The response is made from the order that holds the key.
Replay(r) ==
    /\ Handles(r, "submit")
    /\ KeyTaken(req[r].key)
    /\ Rollback(r)

\* E_DRAFT_MISSING, or E_PRICE_CHANGED: the price in the draft is not the
\* product's price now.
FindDraft(r) ==
    LET q == req[r] IN
    /\ Handles(r, "submit")
    /\ ~KeyTaken(q.key)
    /\ \/ \E o \in Drafts(q.cart) :
            /\ order[o].price = price
            /\ Goes(r, [q EXCEPT !.pc = "save", !.order = o])
            /\ UNCHANGED owner
       \/ /\ \A o \in Drafts(q.cart) : order[o].price # price
          /\ Rollback(r)

\* orders_idempotency_key_unique: an UPDATE waits for an uncommitted row with its
\* key, and fails on a committed one.
KeyInFlight(r) ==
    \E p \in Requests \ {r} :
        req[r].key # NoKey /\ req[p].key = req[r].key /\ req[p].pc = "coupons"

\* Mutant: the column has no unique index.
NotUnique(r) == FALSE

KeyConflict(r) == KeyTaken(req[r].key)

\* draft.save(): the order gets its key.
SaveKey(r) ==
    LET q == req[r] IN
    /\ q.pc = "save"
    /\ ~KeyInFlight(r)
    /\ IF KeyConflict(r)
       THEN Rollback(r)
       ELSE /\ Goes(r, [q EXCEPT !.pc = "coupons",
                                 !.todo = order[q.order].coupons])
            /\ UNCHANGED owner
----------------------------------------------------------------------------
(* OrderFinalizer.writeRedemptionLedger.                                   *)

Uses(c) == {o \in Orders : <<c, o>> \in redeemed}

UsesBy(c, who) == {o \in Uses(c) : Shopper[order[o].cart] = who}

Reached(limit, uses) == limit # NoLimit /\ Cardinality(uses) >= limit

\* checkEligibility returns the first reason it finds, and the limits come last; the
\* finalizer refuses for the limits alone.  It says something else of a coupon that
\* is disabled or out of its dates, of one whose minimum or maximum the order's total
\* misses, of one that lists products (the finalizer asks about a placeholder with
\* product id 0), and of one whose patterns do not match the billing e-mail.
LimitsLooked(c, o) ==
    /\ coupon[c].active
    /\ order[o].price \in Spend[c]
    /\ c \notin Restricted
    /\ Shopper[order[o].cart] \in Invited[c]

\* Mutant: > instead of >=.
ExhaustedLate(c, who) ==
    \/ Reached(coupon[c].global, Uses(c))
    \/ coupon[c].perUser # NoLimit /\ Cardinality(UsesBy(c, who)) > coupon[c].perUser

Exhausted(c, who) ==
    \/ Reached(coupon[c].global, Uses(c))
    \/ Reached(coupon[c].perUser, UsesBy(c, who))

Redeemable(c, o) ==
    /\ coupon[c].live
    /\ LimitsLooked(c, o) => ~Exhausted(c, Shopper[order[o].cart])

\* loadSnapshotForUpdate, the counts, and the redemption row.  The lines of the
\* draft come in no particular order.
RedeemCoupon(r, c) ==
    LET q == req[r] IN
    /\ q.pc = "coupons" /\ c \in q.todo
    /\ Free(r, c)
    /\ IF Redeemable(c, q.order)
       THEN /\ owner' = [owner EXCEPT ![c] = r]
            /\ Goes(r, [q EXCEPT !.todo = @ \ {c}, !.done = @ \cup {c}])
       ELSE Rollback(r)

\* Stock, the transition to pending and payment init() are behind it; the cart is
\* emptied and the transaction commits.
PlaceOrder(r) ==
    LET q == req[r] IN
    /\ q.pc = "coupons" /\ q.todo = {}
    /\ order' = [order EXCEPT ![q.order].stage = "placed",
                              ![q.order].key = q.key]
    /\ redeemed' = redeemed \cup (q.done \X {q.order})
    /\ cart' = [cart EXCEPT ![q.cart].price = Empty]
    /\ UNCHANGED coupon
    /\ End(r)
----------------------------------------------------------------------------
(* Administrators.                                                         *)

\* CouponsController.update, destroy: a field at a time; the UPDATE waits for the
\* row.
EditCoupon(c) ==
    /\ edits < MaxEdits
    /\ owner[c] = None
    /\ coupon[c].live
    /\ \/ coupon' = [coupon EXCEPT ![c].live = FALSE]
       \/ coupon' = [coupon EXCEPT ![c].active = ~@]
       \/ \E limit \in Limits : \/ coupon' = [coupon EXCEPT ![c].global = limit]
                                \/ coupon' = [coupon EXCEPT ![c].perUser = limit]
    /\ edits' = edits + 1
    /\ UNCHANGED <<order, cart, redeemed, price, owner, req, issued>>

ChangePrice ==
    /\ edits < MaxEdits
    /\ price' \in Prices \ {price}
    /\ edits' = edits + 1
    /\ UNCHANGED <<db, owner, req, issued>>
----------------------------------------------------------------------------
(* Postgres' deadlock detector, as in OrderRequests.                       *)

Wants(r) ==
    CASE req[r].pc = "cart" -> {req[r].cart}
      [] req[r].pc = "coupons" -> req[r].todo
      [] OTHER -> {}

WaitCycle(S) ==
    \A p \in S : /\ Wants(p) # {}
                 /\ \A w \in Wants(p) : owner[w] \in S \ {p}

\* Mutant: no deadlock detector and no lock timeout.
NoVictim(r) == FALSE

DeadlockVictim(r) ==
    /\ \E S \in SUBSET Requests : r \in S /\ WaitCycle(S)
    /\ Rollback(r)
----------------------------------------------------------------------------
Serve(r) ==
    \/ SaveCart(r)
    \/ AddItem(r) \/ Clear(r) \/ ApplyCoupon(r) \/ RemoveCoupon(r)
    \/ ShowDraft(r) \/ MakeDraft(r)
    \/ Replay(r) \/ FindDraft(r) \/ SaveKey(r)
    \/ \E c \in Coupons : RedeemCoupon(r, c)
    \/ PlaceOrder(r)

\* A handler refuses at once: the coupon is not in force, or there is nothing to
\* make a draft of (no items, or no order id left within the bound).
Refuse(r) ==
    /\ \/ /\ Handles(r, "apply")
          /\ ~(coupon[req[r].coupon].live /\ coupon[req[r].coupon].active)
       \/ /\ req[r].pc = "make"
          /\ \/ cart[req[r].cart].price = Empty
             \/ \A o \in Orders : order[o] # Absent
    /\ Rollback(r)

Next ==
    \/ \E r \in Requests :
          Arrive(r) \/ Serve(r) \/ Refuse(r) \/ DeadlockVictim(r) \/ RequestFails(r)
    \/ \E c \in Coupons : EditCoupon(c)
    \/ ChangePrice

Spec == Init /\ [][Next]_vars

\* The server goes on with a request whenever it can, and Postgres looks for
\* deadlocks; nobody has to send a request, lose a connection or edit a coupon.
\* A lock that others take and release again and again is granted in the end:
\* Postgres queues the waiters of a row.
FairSpec ==
    /\ Spec
    /\ \A r \in Requests : /\ SF_vars(Serve(r))
                           /\ WF_vars(Refuse(r))
                           /\ WF_vars(DeadlockVictim(r))
----------------------------------------------------------------------------
(* Type invariant and the shape of a request.                              *)

OrderRow == [ stage : {"absent", "draft", "placed"}, cart : Carts \cup {None},
              price : Prices \cup {Empty}, coupons : SUBSET Coupons,
              key : Keys \cup {NoKey} ]

RequestRow == [ pc : {"idle", "cart", "handle", "make", "save", "coupons"},
                kind : Kinds \cup {"none"}, cart : Carts \cup {None},
                coupon : Coupons \cup {None}, key : Keys \cup {NoKey},
                order : Orders \cup {None},
                todo : SUBSET Coupons, done : SUBSET Coupons ]

\* Every variable has its type, and a lock is never held by a request that has
\* ended (tenant_context_middleware.ts:84-91: commit or rollback).
TypeOK ==
    /\ order \in [Orders -> OrderRow]
    /\ cart \in [Carts -> [price : Prices \cup {Empty}, applied : SUBSET Coupons]]
    /\ coupon \in [Coupons -> CouponRow]
    /\ redeemed \subseteq Coupons \X Orders
    /\ price \in Prices
    /\ owner \in [Carts \cup Coupons -> Requests \cup {None}]
    /\ req \in [Requests -> RequestRow]
    /\ issued \in 0..MaxRequests /\ edits \in 0..MaxEdits
    /\ \A w \in Carts \cup Coupons : owner[w] # None => req[owner[w]].pc # "idle"
----------------------------------------------------------------------------
(* Properties.                                                             *)

\* draft_controller.ts:76-85: the first GET makes the draft, every later one finds
\* it.  The lookup and the insert take no lock of their own: that two requests of
\* one cart do not both make a draft rests on the cart's row, which the middleware
\* has saved (cart_middleware.ts:60).
OneDraftPerCart == \A c \in Carts : Cardinality(Drafts(c)) <= 1

\* idempotency_middleware.ts:10-15: a key belongs to one order, also when two
\* requests with the key run at once, for two carts, and both looked for it before
\* either committed.
OneOrderPerKey ==
    \A o, p \in Orders :
        order[o].key # NoKey /\ order[o].key = order[p].key => o = p

\* order_finalizer.ts:119-125: a submitted order has redeemed the coupons of its
\* lines, each once; a submit that fails, at whatever step, has redeemed none.
RedeemedWithOrder ==
    \A o \in Orders :
        {c \in Coupons : o \in Uses(c)}
            = IF order[o].stage = "placed" THEN order[o].coupons ELSE {}

Redeems(c, o) == <<c, o>> \in redeemed' \ redeemed

\* discounter_service.ts:232-236: when an order redeems a coupon the coupon exists,
\* and if checkEligibility gets to its limits its last use has not been taken:
\* neither by an order submitted at the same time nor after an administrator lowered
\* the limit.
LimitHolds ==
    [][\A c \in Coupons, o \in Orders :
          Redeems(c, o) =>
              /\ coupon[c].live
              /\ LimitsLooked(c, o) => ~Reached(coupon[c].global, Uses(c))]_vars

\* order_finalizer.ts:265-267: the limit per customer, with several carts behind
\* one customer or e-mail address, of a coupon whose limits are looked at.
CustomerLimitHolds ==
    [][\A c \in Coupons, o \in Orders :
          Redeems(c, o) /\ LimitsLooked(c, o) =>
              ~Reached(coupon[c].perUser, UsesBy(c, Shopper[order[o].cart]))]_vars

\* order_finalizer.ts:240-241: "lock the coupon row, re-validate the limits, and
\* INSERT the redemption row", for each coupon line: no order redeems a coupon in
\* force whose last use has been taken.
NoUsePastTheLimit ==
    [][\A c \in Coupons, o \in Orders :
          Redeems(c, o) /\ coupon[c].active =>
              ~Reached(coupon[c].global, Uses(c))]_vars

\* order_finalizer.ts:253-256: the coupons of an order are locked in no particular
\* order, on top of the cart's row; still every request ends.
RequestsEnd == \A r \in Requests : req[r].pc # "idle" ~> req[r].pc = "idle"
=============================================================================
