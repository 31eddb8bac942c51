-------------------------- MODULE Checkout_proofs --------------------------
(***************************************************************************)
(* What Checkout guarantees for every number of orders, carts, coupons,    *)
(* keys and requests.  The argument: a request acts while it holds its     *)
(* cart, so the draft it has found stays the only one of the cart; what it *)
(* has found of a coupon stays true while it holds the coupon; and of the  *)
(* requests with one key one is past the unique index.                     *)
(***************************************************************************)
EXTENDS Checkout, FiniteSetTheorems, TLAPS

\* What a request relies on from its check to its commit.
Relies(r) ==
    LET q == req[r] IN
    /\ q.pc # "idle" => q.cart \in Carts
    /\ q.kind \in {"apply", "remove"} => q.coupon \in Coupons
    /\ q.pc \notin {"idle", "cart"} => owner[q.cart] = r
    /\ q.pc = "make" => Drafts(q.cart) = {}
    /\ q.pc \in {"save", "coupons"} => q.order \in Drafts(q.cart)
    /\ q.pc # "coupons" => q.done = {}
    /\ q.pc = "coupons" =>
          /\ q.todo \cup q.done = order[q.order].coupons
          /\ ~KeyTaken(q.key)
    /\ \A c \in q.done : owner[c] = r /\ Redeemable(c, q.order)

\* A key is in flight once.
KeysInFlight ==
    \A r, p \in Requests :
        /\ req[r].pc = "coupons" /\ req[p].pc = "coupons"
        /\ req[r].key = req[p].key /\ req[r].key # NoKey
        => r = p

\* What is committed: an order has a key and redemptions once it is placed, and a
\* cart has one draft.
Books ==
    /\ \A o \in Orders : order[o].stage # "placed" => order[o].key = NoKey
    /\ \A o, p \in Orders :
          /\ order[o].stage = "draft" /\ order[p].stage = "draft"
          /\ order[o].cart = order[p].cart
          => o = p
    /\ OneOrderPerKey
    /\ \A o \in Orders, c \in Coupons :
          <<c, o>> \in redeemed
              <=> order[o].stage = "placed" /\ c \in order[o].coupons

Core == TypeOK /\ Books /\ KeysInFlight
IInv == Core /\ \A r \in Requests : Relies(r)
----------------------------------------------------------------------------
(* The transaction of a request.                                           *)

\* A request that is not there yet has the type of a request.
LEMMA IdleType == Idle \in RequestRow /\ Idle.pc = "idle" /\ Idle.done = {}
                  /\ Idle.kind = "none"
  BY DEF Idle, RequestRow

\* Everything is typed after a request has ended, whatever it has committed.
LEMMA EndTyped ==
    ASSUME TypeOK, NEW r \in Requests, End(r),
           order' \in [Orders -> OrderRow],
           cart' \in [Carts -> [price : Prices \cup {Empty}, applied : SUBSET Coupons]],
           redeemed' \subseteq Coupons \X Orders,
           UNCHANGED coupon
    PROVE  TypeOK'
<1>1. req' \in [Requests -> RequestRow] /\ \A p \in Requests \ {r} : req'[p] = req[p]
  BY IdleType DEF TypeOK, End
<1>2. /\ owner' \in [Carts \cup Coupons -> Requests \cup {None}]
      /\ \A w \in Carts \cup Coupons : owner'[w] # None => owner'[w] = owner[w] /\ owner[w] # r
  BY DEF TypeOK, End, Released
<1>3. \A w \in Carts \cup Coupons : owner'[w] # None => req'[owner'[w]].pc # "idle"
  BY <1>1, <1>2 DEF TypeOK
<1> QED
  BY <1>1, <1>2, <1>3 DEF TypeOK, End

\* A request that goes on takes locks for itself only.
LEMMA GoesTyped ==
    ASSUME TypeOK, NEW r \in Requests, NEW q \in RequestRow, q.pc # "idle",
           Goes(r, q),
           owner' \in [Carts \cup Coupons -> Requests \cup {None}],
           \A w \in Carts \cup Coupons : owner'[w] \in {owner[w], r}
    PROVE  TypeOK'
<1>1. /\ req' \in [Requests -> RequestRow]
      /\ req'[r] = q /\ \A p \in Requests \ {r} : req'[p] = req[p]
  BY DEF TypeOK, Goes
<1>2. \A w \in Carts \cup Coupons : owner'[w] # None => req'[owner'[w]].pc # "idle"
  BY <1>1 DEF TypeOK
<1> QED
  BY <1>1, <1>2 DEF TypeOK, Goes, db

\* What a request relies on stays as long as its locks do.
LEMMA Undisturbed ==
    ASSUME TypeOK, NEW p \in Requests, Relies(p), req'[p] = req[p],
           \A w \in Carts \cup Coupons : owner[w] = p => owner'[w] = p,
           \A c \in Coupons : owner[c] = p => coupon'[c] = coupon[c],
           UNCHANGED <<order, redeemed>>
    PROVE  Relies(p)'
<1> DEFINE q == req[p]
<1>1. q.done \subseteq Coupons /\ q.cart \in Carts \cup {None}
  BY DEF TypeOK, RequestRow
<1>2. \A c : Drafts(c)' = Drafts(c) /\ Uses(c)' = Uses(c)
  BY DEF Drafts, Uses
<1>3. \A c, who : UsesBy(c, who)' = UsesBy(c, who)
  BY <1>2 DEF UsesBy
<1>4. KeyTaken(q.key)' <=> KeyTaken(q.key)
  BY DEF KeyTaken
<1>5. ASSUME NEW c \in q.done
      PROVE  owner'[c] = p /\ Redeemable(c, q.order)'
  <2>1. owner[c] = p /\ Redeemable(c, q.order)
    BY DEF Relies
  <2>2. coupon'[c] = coupon[c] /\ owner'[c] = p
    BY <1>1, <2>1
  <2> QED
    BY <1>2, <1>3, <2>1, <2>2 DEF Redeemable, LimitsLooked, Exhausted, Reached
<1>6. q.pc \notin {"idle", "cart"} => owner'[q.cart] = p
  BY DEF Relies
<1> QED
  BY <1>2, <1>4, <1>5, <1>6 DEF Relies

\* A step of r that commits nothing but carts.
LEMMA Quiet ==
    ASSUME IInv, NEW r \in Requests, NEW q \in RequestRow,
           req' = [req EXCEPT ![r] = q],
           \A p \in Requests \ {r}, w \in Carts \cup Coupons :
               owner[w] = p => owner'[w] = p,
           UNCHANGED <<order, coupon, redeemed>>,
           TypeOK', Relies(r)',
           q.pc = "coupons" => \A p \in Requests \ {r} :
               req[p].pc = "coupons" /\ req[p].key = q.key => q.key = NoKey
    PROVE  IInv'
<1>1. req'[r] = q /\ \A p \in Requests \ {r} : req'[p] = req[p]
  BY DEF IInv, Core, TypeOK
<1>2. \A p \in Requests \ {r} : Relies(p)'
  BY <1>1, Undisturbed DEF IInv, Core
<1>3. KeysInFlight'
  BY <1>1 DEF IInv, Core, KeysInFlight
<1>4. Books'
  BY DEF IInv, Core, Books, OneOrderPerKey
<1> QED
  BY <1>2, <1>3, <1>4 DEF IInv, Core

\* A request that ends relies on nothing.
LEMMA EndRelies ==
    ASSUME TypeOK, NEW r \in Requests, End(r)
    PROVE  Relies(r)' /\ req'[r] = Idle
<1>1. req'[r] = Idle
  BY DEF TypeOK, End
<1> QED
  BY <1>1, IdleType DEF Relies

\* The locks of the others stay.
LEMMA OthersLocks ==
    ASSUME TypeOK, NEW r \in Requests, owner' = Released(r)
    PROVE  \A p \in Requests \ {r}, w \in Carts \cup Coupons :
               owner[w] = p => owner'[w] = p
  BY DEF TypeOK, Released

\* A request that ends, having changed at most its cart.
LEMMA EndStep ==
    ASSUME IInv, NEW r \in Requests, End(r),
           cart' \in [Carts -> [price : Prices \cup {Empty}, applied : SUBSET Coupons]],
           UNCHANGED <<order, coupon, redeemed>>
    PROVE  IInv'
<1>1. TypeOK'
  BY EndTyped DEF IInv, Core, TypeOK
<1> QED
  BY <1>1, IdleType, EndRelies, OthersLocks, Quiet DEF IInv, Core, End

LEMMA RollbackStep == ASSUME IInv, NEW r \in Requests, Rollback(r) PROVE IInv'
  BY EndStep DEF Rollback, db, IInv, Core, TypeOK
----------------------------------------------------------------------------
(* Each action preserves the invariant: first those that commit no order.  *)

\* The fields of a request have their types.
LEMMA Fields ==
    ASSUME TypeOK, NEW r \in Requests
    PROVE  /\ req[r] \in RequestRow
           /\ req[r].todo \subseteq Coupons /\ req[r].done \subseteq Coupons
           /\ req[r].cart \in Carts \cup {None} /\ req[r].order \in Orders \cup {None}
           /\ req[r].key \in Keys \cup {NoKey} /\ req[r].coupon \in Coupons \cup {None}
  BY DEF TypeOK, RequestRow

LEMMA ArriveStep == ASSUME IInv, NEW r \in Requests, Arrive(r) PROVE IInv'
<1> USE DEF IInv, Core
<1>1. PICK kind \in Kinds, c \in Carts, k \in Keys \cup {NoKey} :
      \E named \in IF kind \in {"apply", "remove"} THEN Coupons ELSE {None} :
         /\ edits' = IF kind \in CartEdits THEN edits + 1 ELSE edits
         /\ kind \in CartEdits => edits < MaxEdits
         /\ req' = [req EXCEPT ![r] =
               [Idle EXCEPT !.pc = "cart", !.kind = kind, !.cart = c,
                            !.coupon = named, !.key = k]]
  BY DEF Arrive
<1>2. PICK named \in IF kind \in {"apply", "remove"} THEN Coupons ELSE {None} :
         /\ edits' = IF kind \in CartEdits THEN edits + 1 ELSE edits
         /\ kind \in CartEdits => edits < MaxEdits
         /\ req' = [req EXCEPT ![r] =
               [Idle EXCEPT !.pc = "cart", !.kind = kind, !.cart = c,
                            !.coupon = named, !.key = k]]
  BY <1>1
<1> DEFINE q == [Idle EXCEPT !.pc = "cart", !.kind = kind, !.cart = c,
                             !.coupon = named, !.key = k]
<1>3. /\ q \in RequestRow /\ q.pc = "cart" /\ q.cart = c /\ q.done = {}
      /\ q.kind = kind /\ q.coupon = named
  BY DEF Idle, RequestRow
<1> HIDE DEF q
<1>4. req' = [req EXCEPT ![r] = q]
  BY <1>2 DEF q
<1>5. req'[r] = q /\ \A p \in Requests \ {r} : req'[p] = req[p]
  BY <1>4 DEF TypeOK
<1>6. TypeOK'
  <2>1. req' \in [Requests -> RequestRow]
    BY <1>3, <1>4 DEF TypeOK
  <2>2. issued' \in 0..MaxRequests /\ edits' \in 0..MaxEdits
    BY <1>2, CheckoutAssumption DEF TypeOK, Arrive
  <2>3. \A w \in Carts \cup Coupons : owner'[w] # None => req'[owner'[w]].pc # "idle"
    BY <1>3, <1>5 DEF TypeOK, Arrive
  <2> QED
    BY <2>1, <2>2, <2>3 DEF TypeOK, Arrive, db
<1>7. Relies(r)'
  BY <1>3, <1>5 DEF Relies
<1>8. UNCHANGED <<order, coupon, redeemed, owner>>
  BY DEF Arrive, db
<1> QED
  BY <1>3, <1>4, <1>6, <1>7, <1>8, Quiet

LEMMA SaveCartStep == ASSUME IInv, NEW r \in Requests, SaveCart(r) PROVE IInv'
<1> USE DEF IInv, Core
<1> DEFINE q == [req[r] EXCEPT !.pc = "handle"]
<1>1. req[r].cart \in Carts /\ req[r].done = {}
  BY DEF SaveCart, Relies
<1>2. /\ q \in RequestRow /\ q.pc = "handle" /\ q.cart = req[r].cart
      /\ q.kind = req[r].kind /\ q.coupon = req[r].coupon /\ q.done = {}
  BY <1>1 DEF TypeOK, RequestRow
<1> HIDE DEF q
<1>3. Goes(r, q) /\ req' = [req EXCEPT ![r] = q] /\ req'[r] = q
  BY DEF SaveCart, Goes, q, TypeOK
<1>4. /\ owner' \in [Carts \cup Coupons -> Requests \cup {None}]
      /\ \A w \in Carts \cup Coupons : owner'[w] \in {owner[w], r}
      /\ \A w \in Carts \cup Coupons : owner[w] \in Requests \ {r} => owner'[w] = owner[w]
      /\ owner'[req[r].cart] = r
  BY <1>1, CheckoutAssumption DEF SaveCart, Free, TypeOK
<1>5. TypeOK'
  BY <1>2, <1>3, <1>4, GoesTyped
<1>6. Relies(r)'
  BY <1>1, <1>2, <1>3, <1>4 DEF Relies
<1>7. UNCHANGED <<order, coupon, redeemed>>
  BY <1>3 DEF Goes, db
<1> QED
  BY <1>2, <1>3, <1>4, <1>5, <1>6, <1>7, Quiet

LEMMA CartStep ==
    ASSUME IInv, NEW r \in Requests,
           AddItem(r) \/ Clear(r) \/ ApplyCoupon(r) \/ RemoveCoupon(r)
    PROVE  IInv'
<1> USE DEF IInv, Core
<1> DEFINE CartRow == [price : Prices \cup {Empty}, applied : SUBSET Coupons]
<1>1. req[r].pc = "handle" /\ req[r].cart \in Carts /\ cart \in [Carts -> CartRow]
  BY DEF AddItem, Clear, ApplyCoupon, RemoveCoupon, Handles, Relies, TypeOK
<1>2. End(r) /\ UNCHANGED <<order, coupon, redeemed>>
  BY DEF AddItem, Clear, ApplyCoupon, RemoveCoupon
<1>3. CASE AddItem(r)
  BY <1>1, <1>2, <1>3, EndStep DEF AddItem, TypeOK
<1>4. CASE Clear(r)
  BY <1>1, <1>2, <1>4, EndStep DEF Clear
<1>5. CASE ApplyCoupon(r)
  <2>1. req[r].coupon \in Coupons
    BY <1>5 DEF ApplyCoupon, Handles, Relies
  <2> QED
    BY <1>1, <1>2, <1>5, <2>1, EndStep DEF ApplyCoupon
<1>6. CASE RemoveCoupon(r)
  BY <1>1, <1>2, <1>6, EndStep DEF RemoveCoupon
<1> QED
  BY <1>3, <1>4, <1>5, <1>6

LEMMA ShowDraftStep == ASSUME IInv, NEW r \in Requests, ShowDraft(r) PROVE IInv'
<1> USE DEF IInv, Core
<1>1. CASE Drafts(req[r].cart) # {}
  BY <1>1, RollbackStep DEF ShowDraft
<1>2. CASE Drafts(req[r].cart) = {}
  <2> DEFINE q == [req[r] EXCEPT !.pc = "make"]
  <2>1. req[r].pc = "handle" /\ Goes(r, q) /\ UNCHANGED owner
    BY <1>2 DEF ShowDraft, Handles
  <2>2. /\ q \in RequestRow /\ q.pc = "make" /\ q.cart = req[r].cart
        /\ q.kind = req[r].kind /\ q.coupon = req[r].coupon /\ q.done = req[r].done
    BY DEF TypeOK, RequestRow
  <2> HIDE DEF q
  <2>3. req' = [req EXCEPT ![r] = q] /\ req'[r] = q
    BY <2>1 DEF Goes, TypeOK
  <2>4. UNCHANGED <<order, coupon, redeemed>>
    BY <2>1 DEF Goes, db
  <2>5. TypeOK'
    BY <2>1, <2>2, GoesTyped DEF TypeOK
  <2>6. req[r].cart \in Carts /\ owner'[req[r].cart] = r /\ req[r].done = {}
    BY <2>1 DEF Relies
  <2>7. Relies(r)'
    BY <1>2, <2>2, <2>3, <2>4, <2>6 DEF Relies, Drafts
  <2> QED
    BY <2>1, <2>2, <2>3, <2>4, <2>5, <2>7, Quiet
<1> QED
  BY <1>1, <1>2

LEMMA FindDraftStep == ASSUME IInv, NEW r \in Requests, FindDraft(r) PROVE IInv'
<1> USE DEF IInv, Core
<1>1. CASE Rollback(r)
  BY <1>1, RollbackStep
<1>2. CASE ~Rollback(r)
  <2>1. PICK o \in Drafts(req[r].cart) :
          /\ Goes(r, [req[r] EXCEPT !.pc = "save", !.order = o])
          /\ UNCHANGED owner
    BY <1>2 DEF FindDraft
  <2> DEFINE q == [req[r] EXCEPT !.pc = "save", !.order = o]
  <2>2. req[r].pc = "handle"
    BY DEF FindDraft, Handles
  <2>3. /\ q \in RequestRow /\ q.pc = "save" /\ q.cart = req[r].cart /\ q.order = o
        /\ q.kind = req[r].kind /\ q.coupon = req[r].coupon /\ q.done = req[r].done
    BY DEF TypeOK, RequestRow, Drafts
  <2>4. Goes(r, q)
    BY <2>1
  <2> HIDE DEF q
  <2>5. req' = [req EXCEPT ![r] = q] /\ req'[r] = q /\ UNCHANGED <<order, coupon, redeemed>>
    BY <2>4 DEF Goes, TypeOK, db
  <2>6. TypeOK'
    BY <2>1, <2>3, <2>4, GoesTyped DEF TypeOK
  <2>7. req[r].cart \in Carts /\ owner'[req[r].cart] = r /\ req[r].done = {}
    BY <2>1, <2>2 DEF Relies
  <2>8. Relies(r)'
    BY <2>1, <2>2, <2>3, <2>5, <2>7 DEF Relies, Drafts
  <2> QED
    BY <2>1, <2>3, <2>5, <2>6, <2>8, Quiet
<1> QED
  BY <1>1, <1>2

LEMMA SaveKeyStep == ASSUME IInv, NEW r \in Requests, SaveKey(r) PROVE IInv'
<1> USE DEF IInv, Core
<1>1. CASE KeyConflict(r)
  BY <1>1, RollbackStep DEF SaveKey
<1>2. CASE ~KeyConflict(r)
  <2> DEFINE q == [req[r] EXCEPT !.pc = "coupons", !.todo = order[req[r].order].coupons]
  <2>1. Goes(r, q) /\ UNCHANGED owner /\ req[r].pc = "save" /\ ~KeyInFlight(r)
    BY <1>2 DEF SaveKey
  <2>2. /\ req[r].cart \in Carts /\ owner[req[r].cart] = r /\ req[r].done = {}
        /\ req[r].order \in Drafts(req[r].cart)
    BY <2>1 DEF Relies
  <2>3. order[req[r].order].coupons \subseteq Coupons
    BY <2>2 DEF Drafts, TypeOK, OrderRow
  <2>4. /\ q \in RequestRow /\ q.pc = "coupons" /\ q.cart = req[r].cart
        /\ q.order = req[r].order /\ q.key = req[r].key /\ q.done = req[r].done
        /\ q.kind = req[r].kind /\ q.coupon = req[r].coupon
        /\ q.todo = order[req[r].order].coupons
    BY <2>3 DEF TypeOK, RequestRow
  <2> HIDE DEF q
  <2>5. req' = [req EXCEPT ![r] = q] /\ req'[r] = q /\ UNCHANGED <<order, coupon, redeemed>>
    BY <2>1 DEF Goes, TypeOK, db
  <2>6. TypeOK'
    BY <2>1, <2>4, GoesTyped DEF TypeOK
  <2>7. ~KeyTaken(req[r].key)
    BY <1>2 DEF KeyConflict
  <2>8. q.todo \cup q.done = order[q.order].coupons
    BY <2>2, <2>4
  <2>9. Relies(r)'
    BY <2>1, <2>2, <2>4, <2>5, <2>7, <2>8 DEF Relies, Drafts, KeyTaken
  <2>10. \A p \in Requests \ {r} :
            req[p].pc = "coupons" /\ req[p].key = q.key => q.key = NoKey
    BY <2>1, <2>4 DEF KeyInFlight
  <2> QED
    BY <2>1, <2>4, <2>5, <2>6, <2>9, <2>10, Quiet
<1> QED
  BY <1>1, <1>2

LEMMA RedeemStep ==
    ASSUME IInv, NEW r \in Requests, NEW c \in Coupons, RedeemCoupon(r, c)
    PROVE  IInv'
<1> USE DEF IInv, Core
<1>1. CASE ~Redeemable(c, req[r].order)
  BY <1>1, RollbackStep DEF RedeemCoupon
<1>2. CASE Redeemable(c, req[r].order)
  <2>0. PICK q : q = [req[r] EXCEPT !.todo = @ \ {c}, !.done = @ \cup {c}]
    OBVIOUS
  <2>1. /\ Goes(r, q) /\ owner' = [owner EXCEPT ![c] = r]
        /\ req[r].pc = "coupons" /\ c \in req[r].todo /\ Free(r, c)
    BY <1>2, <2>0 DEF RedeemCoupon
  <2>2. /\ q \in RequestRow /\ q.pc = "coupons" /\ q.cart = req[r].cart
        /\ q.order = req[r].order /\ q.key = req[r].key
        /\ q.kind = req[r].kind /\ q.coupon = req[r].coupon
        /\ q.todo = req[r].todo \ {c} /\ q.done = req[r].done \cup {c}
    BY <2>0, <2>1 DEF TypeOK, RequestRow
  <2>3. q.todo \cup q.done = req[r].todo \cup req[r].done
    BY <2>1, <2>2
  <2>4. req' = [req EXCEPT ![r] = q] /\ req'[r] = q /\ UNCHANGED <<order, coupon, redeemed>>
    BY <2>1 DEF Goes, TypeOK, db
  <2>5. /\ owner' \in [Carts \cup Coupons -> Requests \cup {None}]
        /\ \A w \in Carts \cup Coupons : owner'[w] \in {owner[w], r}
        /\ \A w \in Carts \cup Coupons : owner[w] \in Requests => owner'[w] = owner[w]
        /\ owner'[c] = r
    BY <2>1, CheckoutAssumption DEF Free, TypeOK
  <2>6. TypeOK'
    BY <2>1, <2>2, <2>5, GoesTyped
  <2>7. /\ req[r].cart \in Carts /\ owner[req[r].cart] = r
        /\ req[r].order \in Drafts(req[r].cart)
        /\ req[r].todo \cup req[r].done = order[req[r].order].coupons
        /\ ~KeyTaken(req[r].key)
        /\ req[r].done \subseteq Coupons
    BY <2>1, Fields DEF Relies
  <2>8. \A d \in q.done : owner'[d] = r /\ Redeemable(d, q.order)
    BY <1>2, <2>1, <2>2, <2>5, <2>7 DEF Relies
  <2>9. \A d, o : Redeemable(d, o)' <=> Redeemable(d, o)
    BY <2>4 DEF Redeemable, LimitsLooked, Exhausted, Reached, Uses, UsesBy
  <2>10. KeyTaken(q.key)' <=> KeyTaken(q.key)
    BY <2>4 DEF KeyTaken
  <2>11. Relies(r)'
    <3>1. owner'[q.cart] = r /\ q.cart \in Carts
      BY <2>2, <2>5, <2>7
    <3>2. q.order \in Drafts(req[r].cart)
      BY <2>2, <2>7
    <3>3. q.todo \cup q.done = order[q.order].coupons
      BY <2>2, <2>3, <2>7
    <3>4. \A d \in q.done : Redeemable(d, q.order)'
      BY <2>8, <2>9
    <3>5. ~KeyTaken(q.key)'
      BY <2>2, <2>7, <2>10 DEF KeyTaken
    <3>6. q.order \in Drafts(q.cart)' /\ order'[q.order] = order[q.order]
      BY <2>2, <2>4, <3>2 DEF Drafts
    <3>7. q.kind \in {"apply", "remove"} => q.coupon \in Coupons
      BY <2>2 DEF Relies
    <3> QED
      BY <2>2, <2>4, <2>8, <3>1, <3>3, <3>4, <3>5, <3>6, <3>7 DEF Relies
  <2>12. \A p \in Requests \ {r} :
            req[p].pc = "coupons" /\ req[p].key = q.key => q.key = NoKey
    BY <2>1, <2>2 DEF KeysInFlight
  <2>13. \A p \in Requests \ {r}, w \in Carts \cup Coupons :
            owner[w] = p => owner'[w] = p
    BY <2>5
  <2> QED
    BY <2>2, <2>4, <2>6, <2>11, <2>12, <2>13, Quiet
<1> QED
  BY <1>1, <1>2
----------------------------------------------------------------------------
(* The two actions that write an order.                                    *)

\* What the others rely on does not change when r writes its own draft and
\* redeems the coupons it holds.
LEMMA OrderWritten ==
    ASSUME IInv, NEW r \in Requests, NEW p \in Requests \ {r}, End(r),
           NEW o \in Orders, NEW row, NEW D \in SUBSET Coupons,
           req[r].pc \notin {"idle", "cart"},
           order[o] = Absent \/ o \in Drafts(req[r].cart),
           row.cart = req[r].cart,
           \A c \in D : owner[c] = r,
           req[p].pc = "coupons" /\ row.key = req[p].key => row.key = NoKey,
           order' = [order EXCEPT ![o] = row],
           redeemed' = redeemed \cup (D \X {o}),
           UNCHANGED coupon
    PROVE  Relies(p)'
<1> USE DEF IInv, Core
<1>1. req'[p] = req[p]
  BY DEF End, TypeOK
<1>2. order'[o] = row /\ \A x \in Orders \ {o} : order'[x] = order[x]
  BY DEF TypeOK
<1>3. \A w \in Carts \cup Coupons : owner[w] = p => owner'[w] = p
  BY OthersLocks DEF End
<1>4. PICK q : q = req[p]
  OBVIOUS
<1>5. /\ q.done \subseteq Coupons /\ q.cart \in Carts \cup {None}
      /\ q.order \in Orders \cup {None}
  BY <1>4, Fields
<1>6. order[o].stage # "placed" /\ Absent.cart = None /\ Absent.stage = "absent"
  BY DEF Drafts, Absent
<1>7. q.pc \notin {"idle", "cart"} => q.cart # req[r].cart /\ q.cart \in Carts
  BY <1>4 DEF Relies
<1>8. q.pc = "make" => Drafts(q.cart)' = {}
  BY <1>2, <1>4, <1>7 DEF Relies, Drafts
<1>9. q.pc \in {"save", "coupons"} =>
         /\ q.order \in Drafts(q.cart)' /\ order'[q.order] = order[q.order]
  <2> SUFFICES ASSUME q.pc \in {"save", "coupons"}
               PROVE  q.order \in Drafts(q.cart)' /\ order'[q.order] = order[q.order]
    OBVIOUS
  <2>1. /\ q.order \in Orders /\ order[q.order].stage = "draft"
        /\ order[q.order].cart = q.cart
    BY <1>4 DEF Relies, Drafts
  <2>2. q.order # o
    BY <1>6, <1>7, <2>1 DEF Drafts
  <2> QED
    BY <1>2, <2>1, <2>2 DEF Drafts
<1>10. q.pc = "coupons" => ~KeyTaken(q.key)'
  <2> SUFFICES ASSUME q.pc = "coupons", NEW x \in Orders,
                      q.key # NoKey, order'[x].key = q.key
               PROVE  FALSE
    BY DEF KeyTaken
  <2>1. CASE x = o
    BY <1>2, <1>4, <2>1
  <2>2. CASE x # o
    BY <1>2, <1>4, <2>2 DEF Relies, KeyTaken
  <2> QED
    BY <2>1, <2>2
<1>11. ASSUME NEW c \in q.done
       PROVE  owner'[c] = p /\ Redeemable(c, q.order)'
  <2>1. owner[c] = p /\ Redeemable(c, q.order) /\ c \in Coupons
    BY <1>4, <1>5 DEF Relies
  <2>2. c \notin D /\ owner'[c] = p
    BY <1>3, <2>1
  <2>3. Uses(c)' = Uses(c)
    BY <2>2 DEF Uses
  <2>4. \A x \in Uses(c) : order'[x] = order[x]
    BY <1>2, <1>6, <2>1 DEF Books, Uses
  <2>5. \A who : UsesBy(c, who)' = UsesBy(c, who)
    BY <2>3, <2>4 DEF UsesBy
  <2>6. order'[q.order] = order[q.order] /\ coupon' = coupon
    BY <1>4, <1>9 DEF Relies
  <2>7. \A who : Exhausted(c, who)' = Exhausted(c, who)
    BY <2>3, <2>5, <2>6 DEF Exhausted, Reached
  <2>8. LimitsLooked(c, q.order)' = LimitsLooked(c, q.order)
    BY <2>6 DEF LimitsLooked
  <2> QED
    BY <2>1, <2>2, <2>6, <2>7, <2>8 DEF Redeemable
<1>12. /\ q.kind \in {"apply", "remove"} => q.coupon \in Coupons
       /\ q.pc # "coupons" => q.done = {}
       /\ q.pc = "coupons" => q.todo \cup q.done = order[q.order].coupons
       /\ q.pc # "idle" => q.cart \in Carts
       /\ q.pc \notin {"idle", "cart"} => owner'[q.cart] = p
  BY <1>3, <1>4 DEF Relies
<1> QED
  BY <1>1, <1>4, <1>8, <1>9, <1>10, <1>11, <1>12 DEF Relies

\* The requests that stay are not the one that ended.
LEMMA EndKeys ==
    ASSUME IInv, NEW r \in Requests, End(r)
    PROVE  KeysInFlight'
<1>1. req'[r] = Idle /\ \A p \in Requests \ {r} : req'[p] = req[p]
  BY DEF End, IInv, Core, TypeOK
<1> QED
  BY <1>1, IdleType DEF IInv, Core, KeysInFlight

LEMMA MakeDraftStep == ASSUME IInv, NEW r \in Requests, MakeDraft(r) PROVE IInv'
<1> USE DEF IInv, Core
<1>1. PICK o \in Orders :
        /\ order[o] = Absent
        /\ order' = [order EXCEPT ![o] =
              [stage |-> "draft", cart |-> req[r].cart,
               price |-> cart[req[r].cart].price,
               coupons |-> cart[req[r].cart].applied, key |-> NoKey]]
  BY DEF MakeDraft
<1>2. PICK row : row = [stage |-> "draft", cart |-> req[r].cart,
                        price |-> cart[req[r].cart].price,
                        coupons |-> cart[req[r].cart].applied, key |-> NoKey]
  OBVIOUS
<1>3. /\ req[r].cart \in Carts /\ owner[req[r].cart] = r /\ req[r].pc = "make"
      /\ Drafts(req[r].cart) = {}
  BY DEF MakeDraft, Relies
<1>4. row \in OrderRow
  BY <1>2, <1>3 DEF OrderRow, TypeOK
<1>5. order' = [order EXCEPT ![o] = row] /\ UNCHANGED <<cart, coupon, redeemed>> /\ End(r)
  BY <1>1, <1>2 DEF MakeDraft
<1>6. order'[o] = row /\ \A x \in Orders \ {o} : order'[x] = order[x]
  BY <1>5 DEF TypeOK
<1>7. TypeOK'
  BY <1>4, <1>5, EndTyped DEF TypeOK
<1>8. Books'
  <2>1. \A x \in Orders : order'[x].stage # "placed" => order'[x].key = NoKey
    BY <1>2, <1>6 DEF Books
  <2>2. \A x \in Orders \ {o} :
           ~(order[x].stage = "draft" /\ order[x].cart = req[r].cart)
    BY <1>3 DEF Drafts
  <2>3. \A x, y \in Orders :
           /\ order'[x].stage = "draft" /\ order'[y].stage = "draft"
           /\ order'[x].cart = order'[y].cart
           => x = y
    BY <1>2, <1>6, <2>2 DEF Books
  <2>4. OneOrderPerKey'
    BY <1>2, <1>6 DEF Books, OneOrderPerKey
  <2>5. ASSUME NEW x \in Orders, NEW c \in Coupons
        PROVE  <<c, x>> \in redeemed'
                   <=> order'[x].stage = "placed" /\ c \in order'[x].coupons
    <3>1. order[o].stage # "placed" /\ order'[o].stage # "placed"
      BY <1>1, <1>2, <1>6 DEF Absent
    <3>2. redeemed' = redeemed
      BY <1>5
    <3>3. <<c, x>> \in redeemed <=> order[x].stage = "placed" /\ c \in order[x].coupons
      BY DEF Books
    <3>4. CASE x = o
      BY <3>1, <3>2, <3>3, <3>4
    <3>5. CASE x # o
      BY <1>6, <3>2, <3>3, <3>5
    <3> QED
      BY <3>4, <3>5
  <2> QED
    BY <2>1, <2>3, <2>4, <2>5 DEF Books
<1>9. \A p \in Requests \ {r} : Relies(p)'
  <2> SUFFICES ASSUME NEW p \in Requests \ {r} PROVE Relies(p)'
    OBVIOUS
  <2>1. PICK D \in SUBSET Coupons : D = {}
    OBVIOUS
  <2>2. redeemed' = redeemed \cup (D \X {o}) /\ \A c \in D : owner[c] = r
    BY <1>5, <2>1
  <2>3. row.cart = req[r].cart /\ row.key = NoKey
    BY <1>2
  <2>4. order[o] = Absent /\ req[r].pc \notin {"idle", "cart"}
    BY <1>1, <1>3
  <2> QED
    BY <1>3, <1>5, <2>2, <2>3, <2>4, OrderWritten
<1>10. Relies(r)'
  BY <1>5, EndRelies
<1> QED
  BY <1>5, <1>7, <1>8, <1>9, <1>10, EndKeys

LEMMA PlaceOrderStep == ASSUME IInv, NEW r \in Requests, PlaceOrder(r) PROVE IInv'
<1> USE DEF IInv, Core
<1>1. PICK q : q = req[r]
  OBVIOUS
<1>2. /\ q.pc = "coupons" /\ q.todo = {}
      /\ redeemed' = redeemed \cup (q.done \X {q.order})
      /\ cart' = [cart EXCEPT ![q.cart].price = Empty]
      /\ UNCHANGED coupon /\ End(r)
  BY <1>1 DEF PlaceOrder
<1>3. /\ q.cart \in Carts /\ owner[q.cart] = r /\ q.order \in Orders
      /\ q.order \in Drafts(q.cart)
      /\ order[q.order].stage = "draft" /\ order[q.order].cart = q.cart
      /\ q.done = order[q.order].coupons
      /\ ~KeyTaken(q.key) /\ \A c \in q.done : owner[c] = r
      /\ q.done \subseteq Coupons /\ q.key \in Keys \cup {NoKey}
  <2>1. /\ q.cart \in Carts /\ owner[q.cart] = r /\ q.order \in Drafts(q.cart)
        /\ q.todo \cup q.done = order[q.order].coupons /\ ~KeyTaken(q.key)
        /\ \A c \in q.done : owner[c] = r
    BY <1>1, <1>2 DEF Relies
  <2>2. q.done = order[q.order].coupons
    BY <1>2, <2>1
  <2>3. q.done \subseteq Coupons /\ q.key \in Keys \cup {NoKey}
    BY <1>1, Fields
  <2> QED
    BY <2>1, <2>2, <2>3 DEF Drafts
<1>4. PICK row : row = [order[q.order] EXCEPT !.stage = "placed", !.key = q.key]
  OBVIOUS
<1>5. /\ row \in OrderRow /\ row.stage = "placed" /\ row.key = q.key
      /\ row.cart = q.cart /\ row.coupons = order[q.order].coupons
  BY <1>3, <1>4 DEF OrderRow, TypeOK
<1>6. order' = [order EXCEPT ![q.order] = row]
  BY <1>1, <1>3, <1>4 DEF PlaceOrder, TypeOK, OrderRow
<1>7. order'[q.order] = row /\ \A x \in Orders \ {q.order} : order'[x] = order[x]
  BY <1>3, <1>6 DEF TypeOK
<1>8. TypeOK'
  <2>1. order' \in [Orders -> OrderRow]
    BY <1>5, <1>6 DEF TypeOK
  <2>2. cart' \in [Carts -> [price : Prices \cup {Empty}, applied : SUBSET Coupons]]
    BY <1>2 DEF TypeOK
  <2>3. redeemed' \subseteq Coupons \X Orders
    BY <1>2, <1>3 DEF TypeOK
  <2> QED
    BY <1>2, <2>1, <2>2, <2>3, EndTyped
<1>9. Books'
  <2>1. \A x \in Orders : order'[x].stage # "placed" => order'[x].key = NoKey
    BY <1>5, <1>7 DEF Books
  <2>2. \A x, y \in Orders :
           /\ order'[x].stage = "draft" /\ order'[y].stage = "draft"
           /\ order'[x].cart = order'[y].cart
           => x = y
    BY <1>5, <1>7 DEF Books
  <2>3. \A x \in Orders : order[x].key = q.key => q.key = NoKey
    BY <1>3 DEF KeyTaken
  <2>4. OneOrderPerKey'
    BY <1>5, <1>7, <2>3 DEF Books, OneOrderPerKey
  <2>5. ASSUME NEW x \in Orders, NEW c \in Coupons
        PROVE  <<c, x>> \in redeemed'
                   <=> order'[x].stage = "placed" /\ c \in order'[x].coupons
    <3>1. CASE x = q.order
      <4>1. <<c, x>> \notin redeemed
        BY <1>3, <3>1 DEF Books
      <4>2. <<c, x>> \in redeemed' <=> c \in q.done
        BY <1>2, <3>1, <4>1
      <4> QED
        BY <1>3, <1>5, <1>7, <3>1, <4>2
    <3>2. CASE x # q.order
      <4>1. <<c, x>> \in redeemed' <=> <<c, x>> \in redeemed
        BY <1>2, <3>2
      <4> QED
        BY <1>7, <3>2, <4>1 DEF Books
    <3> QED
      BY <3>1, <3>2
  <2> QED
    BY <2>1, <2>2, <2>4, <2>5 DEF Books
<1>10. \A p \in Requests \ {r} : Relies(p)'
  <2> SUFFICES ASSUME NEW p \in Requests \ {r} PROVE Relies(p)'
    OBVIOUS
  <2>1. req[p].pc = "coupons" /\ row.key = req[p].key => row.key = NoKey
    BY <1>1, <1>2, <1>5 DEF KeysInFlight
  <2> QED
    BY <1>1, <1>2, <1>3, <1>5, <1>6, <2>1, OrderWritten
<1>11. Relies(r)'
  BY <1>2, EndRelies
<1> QED
  BY <1>2, <1>8, <1>9, <1>10, <1>11, EndKeys
----------------------------------------------------------------------------
(* Administrators.                                                         *)

LEMMA EditCouponStep == ASSUME IInv, NEW c \in Coupons, EditCoupon(c) PROVE IInv'
<1> USE DEF IInv, Core
<1>1. /\ owner[c] = None /\ coupon' \in [Coupons -> CouponRow] /\ edits' \in 0..MaxEdits
      /\ \A d \in Coupons \ {c} : coupon'[d] = coupon[d]
      /\ UNCHANGED <<order, cart, redeemed, price, owner, req, issued>>
  <2>1. edits' \in 0..MaxEdits
    BY CheckoutAssumption DEF EditCoupon, TypeOK
  <2>2. coupon \in [Coupons -> CouponRow]
    BY DEF TypeOK
  <2>3. coupon' \in [Coupons -> CouponRow] /\ \A d \in Coupons \ {c} : coupon'[d] = coupon[d]
    <3> DEFINE Written(row) == coupon' = [coupon EXCEPT ![c] = row]
    <3>1. \E row \in CouponRow : Written(row)
      <4>1. CASE coupon' = [coupon EXCEPT ![c].live = FALSE]
        <5>1. [coupon[c] EXCEPT !.live = FALSE] \in CouponRow
          BY <2>2 DEF CouponRow
        <5> QED
          BY <4>1, <5>1
      <4>2. CASE coupon' = [coupon EXCEPT ![c].active = ~@]
        <5>1. [coupon[c] EXCEPT !.active = ~@] \in CouponRow
          BY <2>2 DEF CouponRow
        <5> QED
          BY <4>2, <5>1
      <4>3. ASSUME NEW limit \in Limits,
                   \/ coupon' = [coupon EXCEPT ![c].global = limit]
                   \/ coupon' = [coupon EXCEPT ![c].perUser = limit]
            PROVE  \E row \in CouponRow : Written(row)
        <5>1. /\ [coupon[c] EXCEPT !.global = limit] \in CouponRow
              /\ [coupon[c] EXCEPT !.perUser = limit] \in CouponRow
          BY <2>2 DEF CouponRow
        <5> QED
          BY <4>3, <5>1
      <4> QED
        BY <4>1, <4>2, <4>3 DEF EditCoupon
    <3> QED
      BY <2>2, <3>1
  <2> QED
    BY <2>1, <2>3 DEF EditCoupon
<1>2. TypeOK'
  BY <1>1 DEF TypeOK
<1>3. \A p \in Requests : Relies(p)'
  <2> SUFFICES ASSUME NEW p \in Requests PROVE Relies(p)'
    OBVIOUS
  <2>1. \A d \in Coupons : owner[d] = p => coupon'[d] = coupon[d]
    BY <1>1, CheckoutAssumption
  <2> QED
    BY <1>1, <2>1, Undisturbed
<1>4. Books' /\ KeysInFlight'
  BY <1>1 DEF Books, OneOrderPerKey, KeysInFlight
<1> QED
  BY <1>2, <1>3, <1>4

LEMMA ChangePriceStep == ASSUME IInv, ChangePrice PROVE IInv'
<1> USE DEF IInv, Core
<1>1. TypeOK'
  BY CheckoutAssumption DEF ChangePrice, TypeOK, db
<1>2. UNCHANGED <<order, coupon, redeemed, owner, req>>
  BY DEF ChangePrice, db
<1>3. \A p \in Requests : Relies(p)'
  BY <1>2, Undisturbed
<1>4. Books' /\ KeysInFlight'
  BY <1>2 DEF Books, OneOrderPerKey, KeysInFlight
<1> QED
  BY <1>1, <1>3, <1>4
----------------------------------------------------------------------------
(* The theorems.                                                           *)

LEMMA InitIInv == ASSUME Init PROVE IInv
<1>1. \A r \in Requests : req[r] = Idle
  BY DEF Init
<1>2. Absent \in OrderRow /\ Absent.stage = "absent" /\ Absent.key = NoKey
  BY DEF Absent, OrderRow
<1>3. TypeOK
  <2>1. order \in [Orders -> OrderRow] /\ req \in [Requests -> RequestRow]
    BY <1>2, IdleType DEF Init
  <2>2. cart \in [Carts -> [price : Prices \cup {Empty}, applied : SUBSET Coupons]]
    BY CheckoutAssumption DEF Init
  <2> QED
    BY <2>1, <2>2, CheckoutAssumption DEF Init, TypeOK
<1>4. Books
  BY <1>2 DEF Init, Books, OneOrderPerKey
<1>5. KeysInFlight /\ \A r \in Requests : Relies(r)
  BY <1>1, IdleType DEF KeysInFlight, Relies
<1> QED
  BY <1>3, <1>4, <1>5 DEF IInv, Core

\* Nothing the invariant speaks of changes in a step that changes nothing.
LEMMA Stutter == ASSUME IInv, UNCHANGED vars PROVE IInv'
<1> USE DEF IInv, Core, vars
<1>1. TypeOK'
  BY DEF TypeOK
<1>2. \A p \in Requests : Relies(p)'
  BY Undisturbed
<1> QED
  BY <1>1, <1>2 DEF Books, OneOrderPerKey, KeysInFlight

LEMMA ServeStep == ASSUME IInv, NEW r \in Requests, Serve(r) PROVE IInv'
<1>1. CASE SaveCart(r)
  BY <1>1, SaveCartStep
<1>2. CASE AddItem(r) \/ Clear(r) \/ ApplyCoupon(r) \/ RemoveCoupon(r)
  BY <1>2, CartStep
<1>3. CASE ShowDraft(r)
  BY <1>3, ShowDraftStep
<1>4. CASE MakeDraft(r)
  BY <1>4, MakeDraftStep
<1>5. CASE Replay(r)
  BY <1>5, RollbackStep DEF Replay
<1>6. CASE FindDraft(r)
  BY <1>6, FindDraftStep
<1>7. CASE SaveKey(r)
  BY <1>7, SaveKeyStep
<1>8. CASE \E c \in Coupons : RedeemCoupon(r, c)
  BY <1>8, RedeemStep
<1>9. CASE PlaceOrder(r)
  BY <1>9, PlaceOrderStep
<1> QED
  BY <1>1, <1>2, <1>3, <1>4, <1>5, <1>6, <1>7, <1>8, <1>9 DEF Serve

LEMMA NextIInv == IInv /\ [Next]_vars => IInv'
<1> SUFFICES ASSUME IInv, [Next]_vars PROVE IInv'
  OBVIOUS
<1>1. ASSUME NEW r \in Requests,
             Arrive(r) \/ Serve(r) \/ Refuse(r) \/ DeadlockVictim(r) \/ RequestFails(r)
      PROVE  IInv'
  <2>1. CASE Arrive(r)
    BY <2>1, ArriveStep
  <2>2. CASE Serve(r)
    BY <2>2, ServeStep
  <2>3. CASE Refuse(r) \/ DeadlockVictim(r) \/ RequestFails(r)
    BY <2>3, RollbackStep DEF Refuse, DeadlockVictim, RequestFails
  <2> QED
    BY <1>1, <2>1, <2>2, <2>3
<1>2. CASE \E c \in Coupons : EditCoupon(c)
  BY <1>2, EditCouponStep
<1>3. CASE ChangePrice
  BY <1>3, ChangePriceStep
<1>4. CASE UNCHANGED vars
  BY <1>4, Stutter
<1> QED
  BY <1>1, <1>2, <1>3, <1>4 DEF Next

\* The inductive invariant: what a request relies on, under its locks.
THEOREM Invariance == Spec => []IInv
<1> QED
  BY InitIInv, NextIInv, PTL DEF Spec

\* Type correctness, and no lock outlives its transaction
\* (tenant_context_middleware.ts:84-91).
THEOREM TypeCorrect == Spec => []TypeOK
<1>1. IInv => TypeOK
  BY DEF IInv, Core
<1> QED
  BY <1>1, Invariance, PTL

\* A cart has one draft at a time (draft_controller.ts:76-85).
THEOREM OneDraft == Spec => []OneDraftPerCart
<1>1. IInv => OneDraftPerCart
  <2> SUFFICES ASSUME IInv, NEW c \in Carts
               PROVE  Cardinality(Drafts(c)) <= 1
    BY DEF OneDraftPerCart
  <2>1. CASE Drafts(c) = {}
    BY <2>1, FS_EmptySet
  <2>2. CASE Drafts(c) # {}
    <3>1. PICK o : o \in Drafts(c)
      BY <2>2
    <3>2. Drafts(c) = {o}
      BY <3>1 DEF IInv, Core, Books, Drafts
    <3> QED
      BY <3>2, FS_Singleton
  <2> QED
    BY <2>1, <2>2
<1> QED
  BY <1>1, Invariance, PTL

\* An Idempotency-Key belongs to one order (idempotency_middleware.ts:10-15).
THEOREM OneKeyOneOrder == Spec => []OneOrderPerKey
<1>1. IInv => OneOrderPerKey
  BY DEF IInv, Core, Books
<1> QED
  BY <1>1, Invariance, PTL

\* Redemptions and orders come together (order_finalizer.ts:119-125).
THEOREM RedeemedTogether == Spec => []RedeemedWithOrder
<1>1. IInv => RedeemedWithOrder
  <2> SUFFICES ASSUME IInv, NEW o \in Orders
               PROVE  {c \in Coupons : o \in Uses(c)}
                        = IF order[o].stage = "placed" THEN order[o].coupons ELSE {}
    BY DEF RedeemedWithOrder
  <2>1. order[o].coupons \subseteq Coupons
    BY DEF IInv, Core, TypeOK, OrderRow
  <2>2. \A c \in Coupons :
           o \in Uses(c) <=> order[o].stage = "placed" /\ c \in order[o].coupons
    BY DEF IInv, Core, Books, Uses
  <2> QED
    BY <2>1, <2>2
<1> QED
  BY <1>1, Invariance, PTL

\* A step that redeems is a PlaceOrder, whose request has found the coupon
\* redeemable and has held it since.
LEMMA RedeemedByHolder ==
    ASSUME IInv, [Next]_vars, NEW c \in Coupons, NEW o \in Orders,
           <<c, o>> \in redeemed' \ redeemed
    PROVE  Redeemable(c, o)
<1>1. CASE \E r \in Requests : PlaceOrder(r)
  <2>1. PICK r \in Requests : PlaceOrder(r)
    BY <1>1
  <2>2. c \in req[r].done /\ o = req[r].order /\ req[r].pc = "coupons"
    BY <2>1 DEF PlaceOrder
  <2> QED
    BY <2>2 DEF IInv, Relies
<1>2. CASE ~\E r \in Requests : PlaceOrder(r)
  <2>1. \A r \in Requests : Rollback(r) => redeemed' = redeemed
    BY DEF Rollback, db
  <2>2. \A r, q : Goes(r, q) => redeemed' = redeemed
    BY DEF Goes, db
  <2>3. redeemed' = redeemed
    BY <1>2, <2>1, <2>2
       DEF Next, Serve, Arrive, SaveCart, AddItem, Clear, ApplyCoupon, RemoveCoupon,
           ShowDraft, MakeDraft, Replay, FindDraft, SaveKey, RedeemCoupon, EditCoupon,
           ChangePrice, Refuse, DeadlockVictim, RequestFails, vars, db
  <2> QED
    BY <2>3
<1> QED
  BY <1>1, <1>2

\* The last use of a coupon whose limits checkEligibility gets to is taken once
\* (discounter_service.ts:155-179, 232-236).
THEOREM LimitKept == Spec => LimitHolds
<1>1. IInv /\ [Next]_vars =>
        [\A c \in Coupons, o \in Orders :
            Redeems(c, o) =>
                /\ coupon[c].live
                /\ LimitsLooked(c, o) => ~Reached(coupon[c].global, Uses(c))]_vars
  BY RedeemedByHolder DEF Redeems, Redeemable, Exhausted
<1> QED
  BY <1>1, Invariance, PTL DEF Spec, LimitHolds

\* So is the last use a customer has of such a coupon (order_finalizer.ts:265-267).
THEOREM CustomerLimitKept == Spec => CustomerLimitHolds
<1>1. IInv /\ [Next]_vars =>
        [\A c \in Coupons, o \in Orders :
            Redeems(c, o) /\ LimitsLooked(c, o) =>
                ~Reached(coupon[c].perUser, UsesBy(c, Shopper[order[o].cart]))]_vars
  BY RedeemedByHolder DEF Redeems, Redeemable, Exhausted
<1> QED
  BY <1>1, Invariance, PTL DEF Spec, CustomerLimitHolds
============================================================================
