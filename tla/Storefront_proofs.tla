------------------------- MODULE Storefront_proofs -------------------------
(***************************************************************************)
(* A draft is submitted once, whoever submits its cart and however often,  *)
(* and whatever the other handlers do to the order meanwhile.  The         *)
(* argument: a submit holds the cart row from before it looks the draft up *)
(* until it ends, an order that has its key is no draft any more, and no   *)
(* edge of the table leads back to one.                                    *)
(***************************************************************************)
EXTENDS OrderRequests_proofs

\* A submit that has found the draft holds its cart, and the draft has no key; until
\* it has left the draft, it has a transition to take.
SubmitsDraft(r) ==
    req[r].pc # "idle" =>
        /\ req[r].pc = "cart" => req[r].kind = "submit"
        /\ req[r].rows # <<>> => req[r].view # "draft"
        /\ req[r].kind = "submit" =>
              /\ req[r].rows = <<>> => req[r].plan # <<>> /\ Head(req[r].plan) # "restock"
              /\ req[r].pc # "cart" =>
                    owner[CartOf[req[r].order]] = r /\ req[r].order \notin keyed

\* An order with a key has left the draft.
KeyedLeft == \A o \in keyed : status[o] # "draft"

Drafts == KeyedLeft /\ \A r \in Requests : SubmitsDraft(r)

----------------------------------------------------------------------------
(* Facts about the table and the plans.                                    *)

\* No edge of the table leads back to a draft.
LEMMA NoEdgeToDraft ==
    ASSUME NEW from, NEW to, CanTransition(from, to)
    PROVE  to # "draft"
BY DEF CanTransition, ORDER_TRANSITIONS, Row

\* The plan of a submit begins with the reservation.
LEMMA SubmitPlan ==
    ASSUME NEW hold \in AfterInit
    PROVE  /\ <<"pending">> \o hold # <<>>
           /\ Head(<<"pending">> \o hold) # "restock"
<1>1. CASE hold = <<>>
  BY <1>1
<1>2. CASE hold = <<"on_hold">>
  BY <1>2
<1> QED
  BY <1>1, <1>2 DEF AfterInit

----------------------------------------------------------------------------
(* A request without a commit.                                             *)

\* A submit begins by waiting for the cart, with the reservation ahead.
LEMMA BeginsRight ==
    ASSUME TypeOK, NEW r \in Requests, Arrives(r)
    PROVE  SubmitsDraft(r)'
<1> DEFINE Right(q) ==
      /\ q.pc = "cart" <=> q.kind = "submit"
      /\ q.kind = "submit" => q.plan # <<>> /\ Head(q.plan) # "restock"
      /\ q.rows = <<>>
<1>1. ASSUME NEW q, Begin(r, q), Right(q)
      PROVE  SubmitsDraft(r)'
  <2>1. req'[r] = q
    BY <1>1 DEF Begin, TypeOK
  <2> QED
    BY <1>1, <2>1 DEF SubmitsDraft
<1>2. ASSUME NEW k, NEW o, NEW pc, NEW view, NEW plan,
             pc = "cart" <=> k = "submit",
             k = "submit" => plan # <<>> /\ Head(plan) # "restock"
      PROVE  Right(NewRequest(k, o, pc, view, plan))
  BY <1>2 DEF NewRequest
<1> HIDE DEF Right
<1>3. CASE Submit(r)
  <2>1. PICK o \in Orders, hold \in AfterInit :
          Begin(r, NewRequest("submit", o, "cart", "draft", <<"pending">> \o hold))
    BY <1>3 DEF Submit
  <2>2. PICK plan : plan = <<"pending">> \o hold
    OBVIOUS
  <2>3. plan # <<>> /\ Head(plan) # "restock"
    BY <2>2, SubmitPlan
  <2> QED
    BY <1>1, <1>2, <2>1, <2>2, <2>3
<1>4. CASE ~Submit(r)
  <2>1. PICK k \in {"admin", "ship", "paylink", "init", "callback", "refund"},
             pc \in {"order", "plan"} : \E o, view, plan :
               Begin(r, NewRequest(k, o, pc, view, plan))
    BY <1>4 DEF Arrives, AdminTransition, MarkShipped, PayLink, PaymentInit, Callback,
                Refund
  <2>2. PICK o, view, plan : Begin(r, NewRequest(k, o, pc, view, plan))
    BY <2>1
  <2>3. pc # "cart" /\ k # "submit"
    OBVIOUS
  <2> QED
    BY <1>1, <1>2, <2>2, <2>3
<1> QED
  BY <1>3, <1>4

\* With the cart locked, the draft that is found has no key.
LEMMA LocksCart ==
    ASSUME TypeOK, RequestShape, KeyedLeft, NEW r \in Requests, SubmitsDraft(r),
           LockCart(r), ~Rollback(r)
    PROVE  SubmitsDraft(r)'
<1> DEFINE q == req[r]
<1>1. /\ q \in Request /\ q.pc = "cart" /\ q.order \in Orders
      /\ CartOf[q.order] \in Rows
  BY ConstantsAssumption DEF LockCart, RequestShape, TypeOK, Rows
<1>2. /\ req'[r] = [q EXCEPT !.pc = "order"]
      /\ status[q.order] = "draft" /\ keyed' = keyed
      /\ owner' = [owner EXCEPT ![CartOf[q.order]] = r]
  BY DEF LockCart, TypeOK, db
<1>3. owner'[CartOf[q.order]] = r /\ q.order \notin keyed
  BY <1>1, <1>2 DEF TypeOK, KeyedLeft
<1>4. /\ req'[r].pc = "order" /\ req'[r].kind = q.kind /\ req'[r].order = q.order
      /\ req'[r].view = q.view /\ req'[r].plan = q.plan /\ req'[r].rows = q.rows
  BY <1>1, <1>2 DEF Request
<1> QED
  BY <1>1, <1>2, <1>3, <1>4 DEF SubmitsDraft

\* From there to the commit, a request keeps its cart, and a status it writes is no
\* draft.
LEMMA KeepsCart ==
    ASSUME TypeOK, RequestShape, NEW r \in Requests, SubmitsDraft(r), ~Rollback(r),
           \/ LockOrder(r) \/ BeginStep(r) \/ (\E i \in Items : MoveStock(r, i))
           \/ WriteStatus(r) \/ EndRestock(r)
    PROVE  SubmitsDraft(r)'
<1> DEFINE q == req[r]
<1>1. /\ q \in Request /\ q.pc \in {"order", "plan", "effects"} /\ q.order \in Orders
      /\ CartOf[q.order] \in Rows
  BY ConstantsAssumption
     DEF LockOrder, BeginStep, MoveStock, WriteStatus, EndRestock, RequestShape, TypeOK, Rows
<1> DEFINE Kept ==
      /\ req'[r].pc \in {"plan", "effects"} /\ req'[r].kind = q.kind
      /\ req'[r].order = q.order /\ keyed' = keyed
      /\ \A w \in Rows : owner[w] = r => owner'[w] = r
<1>2. CASE LockOrder(r)
  <2>1. /\ req'[r] = [q EXCEPT !.pc = "plan", !.plan = PlanAfterLock(q),
                               !.view = ViewAfterLock(q)]
        /\ owner' = [owner EXCEPT ![q.order] = r]
        /\ keyed' = keyed
    BY <1>2 DEF LockOrder, TypeOK, db
  <2>2. Kept /\ req'[r].rows = q.rows /\ req'[r].plan = PlanAfterLock(q)
    BY <1>1, <2>1 DEF Request, TypeOK
  <2>3. q.rows = <<>>
    BY <1>1, <1>2 DEF LockOrder, RequestShape
  <2>4. q.kind = "submit" => PlanAfterLock(q) = q.plan
    BY DEF PlanAfterLock
  <2> QED
    BY <1>1, <2>2, <2>3, <2>4 DEF SubmitsDraft
<1>3. CASE BeginStep(r)
  <2>1. PICK todo : req' = [req EXCEPT ![r] = [q EXCEPT !.pc = "effects", !.todo = todo]]
    BY <1>3 DEF BeginStep
  <2>2. /\ Kept /\ req'[r].rows = q.rows /\ req'[r].plan = q.plan
        /\ req'[r].view = q.view
    BY <1>1, <1>3, <2>1 DEF BeginStep, Request, TypeOK, db
  <2> QED
    BY <1>1, <2>2 DEF SubmitsDraft
<1>4. ASSUME NEW i \in Items, MoveStock(r, i) PROVE SubmitsDraft(r)'
  <2>1. PICK n \in Pieces(q, i) : MovePieces(r, i, n)
    BY <1>4 DEF MoveStock
  <2>2. PICK todo, put, delta, hold :
          req' = [req EXCEPT ![r] = [q EXCEPT !.todo = todo, !.put[i] = put,
                                              !.delta[i] = delta, !.hold[i] = hold]]
    BY <2>1 DEF MovePieces
  <2>3. owner' = [owner EXCEPT ![i] = r] /\ keyed' = keyed
    BY <2>1 DEF MovePieces, db
  <2>4. /\ req'[r].pc = q.pc /\ req'[r].kind = q.kind /\ req'[r].order = q.order
        /\ req'[r].view = q.view /\ req'[r].rows = q.rows /\ req'[r].plan = q.plan
    BY <1>1, <2>2 DEF Request, TypeOK
  <2>5. owner[CartOf[q.order]] = r => owner'[CartOf[q.order]] = r
    BY <1>1, <2>3 DEF TypeOK
  <2> QED
    BY <1>1, <2>3, <2>4, <2>5 DEF SubmitsDraft
<1>5. CASE EndRestock(r)
  <2>1. /\ Kept /\ req'[r].rows = q.rows /\ req'[r].view = q.view
    BY <1>1, <1>5 DEF EndRestock, Request, TypeOK, db
  <2>2. q.plan # <<>> /\ Head(q.plan) = "restock"
    BY <1>5 DEF EndRestock, RequestShape
  <2> QED
    BY <1>1, <2>1, <2>2 DEF SubmitsDraft
<1>6. CASE WriteStatus(r)
  <2> DEFINE to == Head(q.plan)
  <2> DEFINE row == [from |-> q.view, to |-> to]
  <2>1. to # "restock" /\ CanTransition(q.view, to)
    BY <1>6 DEF WriteStatus, RequestShape
  <2>2. /\ req'[r] = [q EXCEPT !.pc = "plan", !.plan = Tail(q.plan), !.view = to,
                               !.rows = Append(q.rows, row)]
        /\ owner' = [owner EXCEPT ![q.order] = r] /\ keyed' = keyed
    BY <1>6 DEF WriteStatus, TypeOK, db
  <2>3. Kept /\ req'[r].view = to /\ req'[r].rows = Append(q.rows, row)
    BY <1>1, <2>2 DEF Request, TypeOK
  <2>4. to # "draft"
    BY <2>1, NoEdgeToDraft
  <2>5. Append(q.rows, row) # <<>>
    <3>1. q.rows \in Seq(HistoryRow)
      BY <1>1 DEF Request
    <3> QED
      BY <3>1
  <2> QED
    BY <1>1, <2>3, <2>4, <2>5 DEF SubmitsDraft
<1> QED
  BY <1>2, <1>3, <1>4, <1>5, <1>6

----------------------------------------------------------------------------
(* A commit, and the others.                                               *)

\* An order gets its key by the commit of a submit that holds its cart and has
\* moved it out of the draft.
LEMMA KeysGiven ==
    ASSUME TypeOK, RequestShape, NEW r \in Requests, SubmitsDraft(r), Moves(r),
           keyed' # keyed
    PROVE  LET o == req[r].order IN
           /\ Commit(r) /\ req[r].kind = "submit" /\ req[r].rows # <<>>
           /\ owner[CartOf[o]] = r /\ o \notin keyed /\ keyed' = keyed \cup {o}
           /\ status' = [status EXCEPT ![o] = req[r].view] /\ req[r].view # "draft"
<1>1. Commit(r)
  BY MoveKinds DEF Rollback, db
<1>2. /\ keyed' = keyed \cup {req[r].order} /\ req[r].kind = "submit"
      /\ req[r].pc = "plan" /\ req[r].plan = <<>>
  BY <1>1 DEF Commit
<1>3. req[r].rows # <<>> /\ owner[CartOf[req[r].order]] = r
      /\ req[r].order \notin keyed /\ req[r].view # "draft"
  BY <1>2 DEF SubmitsDraft
<1>4. status' = [status EXCEPT ![req[r].order] = req[r].view]
  BY <1>1, <1>3 DEF Commit
<1> QED
  BY <1>1, <1>2, <1>3, <1>4

\* No order becomes a draft again.
LEMMA NoNewDraft ==
    ASSUME TypeOK, NEW r \in Requests, SubmitsDraft(r), Moves(r),
           NEW o \in Orders, status[o] # "draft"
    PROVE  status'[o] # "draft"
<1>1. CASE Commit(r) /\ req[r].rows # <<>>
  <2>1. req[r].view # "draft" /\ status' = [status EXCEPT ![req[r].order] = req[r].view]
    BY <1>1 DEF Commit, SubmitsDraft
  <2> QED
    BY <2>1 DEF TypeOK
<1>2. CASE Commit(r) /\ req[r].rows = <<>>
  BY <1>2 DEF Commit
<1>3. CASE Rollback(r) \/ UNCHANGED db
  BY <1>3 DEF Rollback, db
<1> QED
  BY <1>1, <1>2, <1>3, MoveKinds

\* What a submit has found of its draft outlives the steps of the others: whoever
\* gives an order its key holds its cart.
LEMMA OthersKeepDraft ==
    ASSUME TypeOK, RequestShape, NEW r \in Requests, NEW p \in Requests, p # r,
           SubmitsDraft(r), SubmitsDraft(p), Moves(r)
    PROVE  SubmitsDraft(p)'
<1> USE ConstantsAssumption
<1>1. req'[p] = req[p] /\ \A w \in Rows : owner'[w] = p <=> owner[w] = p
  BY OthersUntouched
<1>2. CASE req[p].pc = "idle"
  BY <1>1, <1>2 DEF SubmitsDraft
<1>3. CASE req[p].pc # "idle"
  <2>1. req[p].order \in Orders /\ CartOf[req[p].order] \in Rows
    BY <1>3 DEF RequestShape, Rows
  <2>2. owner[CartOf[req[p].order]] = p /\ req[p].order \notin keyed =>
          req[p].order \notin keyed'
    <3>1. CASE keyed' = keyed
      BY <3>1
    <3>2. CASE keyed' # keyed
      BY <3>2, KeysGiven
    <3> QED
      BY <3>1, <3>2
  <2> QED
    BY <1>1, <1>3, <2>1, <2>2 DEF SubmitsDraft
<1> QED
  BY <1>2, <1>3

\* A request keeps what it knows of its draft until it ends.
LEMMA KeepsDraft ==
    ASSUME TypeOK, RequestShape, KeyedLeft, NEW r \in Requests, SubmitsDraft(r), Moves(r)
    PROVE  SubmitsDraft(r)'
<1>1. CASE Rollback(r) \/ Commit(r)
  BY <1>1, EndsEmpty DEF SubmitsDraft, Idle, NewRequest
<1>2. ASSUME ~Rollback(r), ~Commit(r), ~Arrives(r)
      PROVE  \/ LockCart(r) \/ LockOrder(r) \/ WriteStatus(r)
             \/ BeginStep(r) \/ (\E i \in Items : MoveStock(r, i)) \/ EndRestock(r)
  BY <1>2 DEF Moves, Serve, IllegalTransition, StockRefused, DeadlockVictim,
              RequestFails
<1> QED
  BY <1>1, <1>2, BeginsRight, LocksCart, KeepsCart

----------------------------------------------------------------------------
(* The theorem.                                                            *)

\* It holds of the drafts that the carts were turned into.
LEMMA InitDrafts == Init => Drafts
<1> SUFFICES ASSUME Init PROVE Drafts
  OBVIOUS
<1>1. ASSUME NEW r \in Requests PROVE SubmitsDraft(r)
  BY DEF Init, Idle, NewRequest, SubmitsDraft
<1> QED
  BY <1>1 DEF Init, Drafts, KeyedLeft

\* Every step keeps it.
LEMMA NextDrafts == IInv /\ Drafts /\ [Next]_vars => Drafts'
<1> SUFFICES ASSUME TypeOK, RequestShape, Drafts, [Next]_vars PROVE Drafts'
  BY DEF IInv
<1>1. CASE UNCHANGED vars
  BY <1>1 DEF vars, Drafts, SubmitsDraft, KeyedLeft
<1>2. CASE Next
  <2>1. PICK r \in Requests : Moves(r)
    BY <1>2 DEF Next, Moves
  <2>2. ASSUME NEW p \in Requests PROVE SubmitsDraft(p)'
    <3>1. CASE p = r
      BY <2>1, <3>1, KeepsDraft DEF Drafts
    <3>2. CASE p # r
      BY <2>1, <3>2, OthersKeepDraft DEF Drafts
    <3> QED
      BY <3>1, <3>2
  <2>3. KeyedLeft'
    <3>1. keyed \subseteq Orders /\ SubmitsDraft(r)
      BY DEF TypeOK, Drafts
    <3>2. \A o \in keyed : status'[o] # "draft"
      BY <2>1, <3>1, NoNewDraft DEF Drafts, KeyedLeft
    <3>3. CASE keyed' = keyed
      BY <3>2, <3>3 DEF KeyedLeft
    <3>4. CASE keyed' # keyed
      <4>1. /\ Commit(r) /\ keyed' = keyed \cup {req[r].order}
            /\ status' = [status EXCEPT ![req[r].order] = req[r].view]
            /\ req[r].view # "draft"
        BY <2>1, <3>1, <3>4, KeysGiven
      <4>2. req[r].order \in Orders
        BY <4>1 DEF Commit, RequestShape
      <4>3. status'[req[r].order] # "draft"
        BY <4>1, <4>2 DEF TypeOK
      <4> QED
        BY <3>2, <4>1, <4>3 DEF KeyedLeft
    <3> QED
      BY <3>3, <3>4
  <2> QED
    BY <2>2, <2>3 DEF Drafts
<1> QED
  BY <1>1, <1>2

\* cart_middleware.ts:55-60, submit_controller.ts:51-72: a draft is submitted once,
\* for any number of carts, orders and requests, and whatever administrators and the
\* PSP do to the order meanwhile.
THEOREM DraftSubmittedOnce == Spec => SubmittedOnce
<1> DEFINE A == \A r \in Requests :
                  Commits(r) /\ req[r].kind = "submit" /\ history' # history =>
                     req[r].order \notin keyed
<1>1. IInv /\ Drafts /\ [Next]_vars => [A]_vars
  <2> SUFFICES ASSUME IInv, Drafts, Next, NEW r \in Requests, Commits(r),
                      req[r].kind = "submit", history' # history
               PROVE  req[r].order \notin keyed
    OBVIOUS
  <2> USE DEF IInv
  <2>1. PICK p \in Requests : Moves(p)
    BY DEF Next, Moves
  <2>2. p = r
    BY <2>1, OthersUntouched DEF Commits
  <2>3. Commit(r)
    BY <2>1, <2>2, MoveKinds DEF Rollback, db
  <2> QED
    BY <2>3 DEF Commit, Drafts, SubmitsDraft
<1> QED
  BY Invariance, InitDrafts, NextDrafts, <1>1, PTL DEF Spec, SubmittedOnce
=============================================================================
