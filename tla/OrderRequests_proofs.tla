------------------------ MODULE OrderRequests_proofs ------------------------
(***************************************************************************)
(* What OrderRequests guarantees for any number of orders, items, carts    *)
(* and requests, any stock and any quantities.                             *)
(***************************************************************************)
EXTENDS OrderRequests, TLAPS

----------------------------------------------------------------------------
(* Types of the operators the actions are built from.                      *)

\* A transition moves every line by its whole quantity or not at all.
LEMMA StockSignType ==
    ASSUME NEW from, NEW to
    PROVE  StockSign(from, to) \in {-1, 0, 1}
BY DEF StockSign

\* A step of a request takes stock, returns it, or leaves it alone.
LEMMA StepSignType ==
    ASSUME NEW q
    PROVE  StepSign(q) \in {-1, 0, 1}
BY StockSignType DEF StepSign

\* A step moves a natural number of pieces of a line.
LEMMA PiecesType ==
    ASSUME NEW q, q.order \in Orders, NEW i \in Items, NEW n \in Pieces(q, i)
    PROVE  n \in Nat
<1>1. Quantity[q.order][i] \in Nat
  BY ConstantsAssumption
<1> QED
  BY <1>1 DEF Pieces

\* A request that starts has the type of a request.
LEMMA NewRequestType ==
    ASSUME NEW k \in Kinds \cup {"none"}, NEW o \in Orders \cup {None},
           NEW pc \in {"idle", "cart", "order", "plan", "effects"},
           NEW view \in OrderStatuses, NEW plan \in Seq(PlanSteps)
    PROVE  NewRequest(k, o, pc, view, plan) \in Request
<1>1. Zero \in [Items -> Int]
  BY DEF Zero
<1>2. <<>> \in Seq(HistoryRow)
  OBVIOUS
<1> QED
  BY <1>1, <1>2 DEF NewRequest, Request

\* So has one that has ended.
LEMMA IdleType == Idle \in Request
<1>1. "draft" \in OrderStatuses /\ <<>> \in Seq(PlanSteps)
  BY DEF OrderStatuses
<1> QED
  BY <1>1, NewRequestType DEF Idle

\* The plans the handlers start with.
LEMMA PlanType ==
    ASSUME NEW p \in OrderStatuses, NEW h \in AfterInit
    PROVE  /\ <<p>> \in Seq(PlanSteps)
           /\ h \in Seq(PlanSteps)
           /\ <<p>> \o h \in Seq(PlanSteps)
           /\ <<>> \in Seq(PlanSteps)
<1>1. p \in PlanSteps /\ "on_hold" \in PlanSteps
  BY DEF PlanSteps, OrderStatuses
<1>2. <<p>> \in Seq(PlanSteps) /\ <<>> \in Seq(PlanSteps)
  BY <1>1
<1>3. <<"on_hold">> \in Seq(PlanSteps)
  BY <1>1
<1>4. h \in Seq(PlanSteps)
  BY <1>2, <1>3 DEF AfterInit
<1> QED
  BY <1>2, <1>4

----------------------------------------------------------------------------
(* Type correctness.                                                       *)

\* A request that ends leaves a well-typed lock table without its locks.
LEMMA EndType ==
    ASSUME TypeOK, NEW r \in Requests, End(r)
    PROVE  /\ owner' \in [Rows -> Requests \cup {None}]
           /\ req' \in [Requests -> Request]
           /\ issued' \in Nat
           /\ \A w \in Rows : owner'[w] # None => req'[owner'[w]].pc # "idle"
<1>1. owner' \in [Rows -> Requests \cup {None}]
  BY DEF TypeOK, End, Released
<1>2. req' \in [Requests -> Request]
  BY IdleType DEF TypeOK, End
<1>3. issued' \in Nat
  BY DEF TypeOK, End
<1>4. ASSUME NEW w \in Rows, owner'[w] # None
      PROVE  req'[owner'[w]].pc # "idle"
  <2>1. owner[w] # r /\ owner'[w] = owner[w]
    BY <1>4 DEF End, Released
  <2>2. req'[owner[w]] = req[owner[w]]
    BY <2>1, <1>4 DEF End, TypeOK
  <2> QED
    BY <2>1, <2>2, <1>4 DEF TypeOK
<1> QED
  BY <1>1, <1>2, <1>3, <1>4

\* So does a request that stays and takes at most one more lock.
LEMMA StepType ==
    ASSUME TypeOK, NEW r \in Requests, NEW q \in Request, q.pc # "idle",
           req' = [req EXCEPT ![r] = q],
           NEW w0,
           owner' = owner \/ owner' = [owner EXCEPT ![w0] = r]
    PROVE  /\ owner' \in [Rows -> Requests \cup {None}]
           /\ req' \in [Requests -> Request]
           /\ \A w \in Rows : owner'[w] # None => req'[owner'[w]].pc # "idle"
<1>1. owner' \in [Rows -> Requests \cup {None}] /\ req' \in [Requests -> Request]
  BY DEF TypeOK
<1>2. ASSUME NEW w \in Rows, owner'[w] # None
      PROVE  req'[owner'[w]].pc # "idle"
  <2>1. CASE owner'[w] = r
    BY <2>1 DEF TypeOK
  <2>2. CASE owner'[w] # r
    <3>1. owner'[w] = owner[w] /\ owner[w] \in Requests
      BY <2>2, <1>2 DEF TypeOK
    <3> QED
      BY <3>1, <2>2, <1>2 DEF TypeOK
  <2> QED
    BY <2>1, <2>2
<1> QED
  BY <1>1, <1>2

\* Begin keeps the types when it starts a request of the right type.
LEMMA BeginType ==
    ASSUME TypeOK, NEW r \in Requests, NEW q \in Request, q.pc # "idle", Begin(r, q)
    PROVE  TypeOK'
<1>1. /\ owner' \in [Rows -> Requests \cup {None}]
      /\ req' \in [Requests -> Request]
      /\ \A w \in Rows : owner'[w] # None => req'[owner'[w]].pc # "idle"
  BY StepType DEF Begin
<1>2. issued' \in Nat
  BY DEF TypeOK, Begin
<1> QED
  BY <1>1, <1>2 DEF TypeOK, Begin, db

\* Every handler begins by reading an order and laying out its plan; the callback
\* and the refund then wait for the order row.
LEMMA ArrivesBegins ==
    ASSUME TypeOK, NEW r \in Requests, Arrives(r)
    PROVE  \E k \in Kinds, o \in Orders, pc \in {"cart", "order", "plan"},
             view \in OrderStatuses, plan \in Seq(PlanSteps) :
               /\ Begin(r, NewRequest(k, o, pc, view, plan))
               /\ k \in LockedReaders => pc = "order" /\ plan \in RefundPlans \cup CallbackPlans
<1> USE DEF Kinds, LockedReaders
<1>1. /\ \A o \in Orders : status[o] \in OrderStatuses
      /\ \A o \in keyed : o \in Orders
      /\ {"draft", "pending", "on_hold", "processing", "completed", "failed",
          "refunded"} \subseteq OrderStatuses
  BY DEF TypeOK, OrderStatuses
<1>2. <<>> \in AfterInit
  BY DEF AfterInit
<1>3. CASE Submit(r)
  <2>1. PICK o \in Orders, hold \in AfterInit :
          Begin(r, NewRequest("submit", o, "cart", "draft", <<"pending">> \o hold))
    BY <1>3 DEF Submit
  <2>2. <<"pending">> \o hold \in Seq(PlanSteps)
    BY <1>1, PlanType
  <2> QED
    BY <1>1, <2>1, <2>2
<1>4. CASE AdminTransition(r)
  <2>1. PICK o \in Orders, to \in OrderStatuses :
          Begin(r, NewRequest("admin", o, "plan", status[o], <<to>>))
    BY <1>4 DEF AdminTransition
  <2>2. <<to>> \in Seq(PlanSteps)
    BY <1>2, PlanType
  <2> QED
    BY <1>1, <2>1, <2>2
<1>5. CASE MarkShipped(r)
  <2> DEFINE plan(o) == IF status[o] = "processing" THEN <<"completed">> ELSE <<>>
  <2>1. PICK o \in Orders :
          Begin(r, NewRequest("ship", o, "order", status[o], plan(o)))
    BY <1>5 DEF MarkShipped
  <2>2. plan(o) \in Seq(PlanSteps)
    BY <1>1, <1>2, PlanType
  <2> HIDE DEF plan
  <2> QED
    BY <1>1, <2>1, <2>2
<1>6. CASE PayLink(r)
  <2> DEFINE plan(o, hold) ==
        (IF status[o] = "failed" THEN <<"pending">> ELSE <<>>) \o
        (IF status[o] \in {"failed", "pending"} THEN hold ELSE <<>>)
  <2>1. PICK o \in keyed, hold \in AfterInit, pc \in {"order", "plan"} :
          Begin(r, NewRequest("paylink", o, pc, status[o], plan(o, hold)))
    BY <1>6 DEF PayLink
  <2>2. plan(o, hold) \in Seq(PlanSteps)
    <3>1. /\ <<"pending">> \in Seq(PlanSteps) /\ <<>> \in Seq(PlanSteps)
          /\ hold \in Seq(PlanSteps)
      BY <1>1, PlanType
    <3> QED
      BY <3>1
  <2> HIDE DEF plan
  <2> QED
    BY <1>1, <2>1, <2>2
<1>7. CASE PaymentInit(r)
  <2> DEFINE plan(o, hold) == IF status[o] = "pending" THEN hold ELSE <<>>
  <2>1. PICK o \in keyed, hold \in AfterInit :
          Begin(r, NewRequest("init", o, "plan", status[o], plan(o, hold)))
    BY <1>7 DEF PaymentInit
  <2>2. plan(o, hold) \in Seq(PlanSteps)
    BY <1>1, PlanType
  <2> HIDE DEF plan
  <2> QED
    BY <1>1, <2>1, <2>2
<1>8. CASE Callback(r)
  <2>1. PICK o \in keyed, plan \in CallbackPlans :
          Begin(r, NewRequest("callback", o, "order", status[o], plan))
    BY <1>8 DEF Callback
  <2>2. plan \in Seq(PlanSteps)
    BY <1>1, <1>2, PlanType DEF CallbackPlans
  <2> QED
    BY <1>1, <2>1, <2>2
<1>9. CASE Refund(r)
  <2>1. PICK o \in Orders, plan \in RefundPlans :
          Begin(r, NewRequest("refund", o, "order", status[o], plan))
    BY <1>9 DEF Refund
  <2>2. plan \in Seq(PlanSteps)
    <3>1. "restock" \in PlanSteps /\ "refunded" \in PlanSteps
      BY DEF PlanSteps, OrderStatuses
    <3>2. /\ <<>> \in Seq(PlanSteps) /\ <<"restock">> \in Seq(PlanSteps)
          /\ <<"refunded">> \in Seq(PlanSteps)
          /\ <<"restock", "refunded">> \in Seq(PlanSteps)
      BY <3>1
    <3> QED
      BY <3>2 DEF RefundPlans
  <2> QED
    BY <1>1, <2>1, <2>2
<1> QED
  BY <1>3, <1>4, <1>5, <1>6, <1>7, <1>8, <1>9 DEF Arrives

\* Whatever arrives keeps the types.
LEMMA ArrivesType ==
    ASSUME TypeOK, NEW r \in Requests, Arrives(r)
    PROVE  TypeOK'
<1>1. PICK k \in Kinds, o \in Orders, pc \in {"cart", "order", "plan"},
           view \in OrderStatuses, plan \in Seq(PlanSteps) :
             Begin(r, NewRequest(k, o, pc, view, plan))
  BY ArrivesBegins
<1> DEFINE q == NewRequest(k, o, pc, view, plan)
<1>2. q \in Request
  BY NewRequestType
<1>3. q.pc # "idle"
  BY DEF NewRequest
<1> QED
  BY <1>1, <1>2, <1>3, BeginType

\* Every step of a handler keeps the types.
LEMMA ServeType ==
    ASSUME TypeOK, RequestShape, NEW r \in Requests, Serve(r)
    PROVE  TypeOK'
<1> DEFINE q == req[r]
<1> USE ConstantsAssumption
<1>0. q \in Request
  BY DEF TypeOK
<1>1. CASE LockCart(r)
  <2>1. CASE Rollback(r)
    BY <2>1, EndType DEF TypeOK, Rollback, db
  <2>2. CASE ~Rollback(r)
    <3> DEFINE next == [q EXCEPT !.pc = "order"]
    <3>1. next \in Request /\ next.pc # "idle"
      BY <1>0 DEF Request
    <3>2. /\ req' = [req EXCEPT ![r] = next]
          /\ owner' = [owner EXCEPT ![CartOf[q.order]] = r]
          /\ UNCHANGED <<db, issued>>
      BY <1>1, <2>2 DEF LockCart, TypeOK
    <3> QED
      BY <3>1, <3>2, StepType DEF TypeOK, db
  <2> QED
    BY <2>1, <2>2
<1>2. CASE LockOrder(r)
  <2>1. CASE Rollback(r)
    BY <2>1, EndType DEF TypeOK, Rollback, db
  <2>2. CASE ~Rollback(r)
    <3> DEFINE next == [q EXCEPT !.pc = "plan", !.plan = PlanAfterLock(q),
                                 !.view = ViewAfterLock(q)]
    <3>1. q.order \in Orders
      BY <1>2 DEF LockOrder, RequestShape
    <3>2. PlanAfterLock(q) \in Seq(PlanSteps)
      BY <1>0 DEF PlanAfterLock, Request
    <3>3. ViewAfterLock(q) \in OrderStatuses
      BY <1>0, <3>1 DEF ViewAfterLock, Request, TypeOK
    <3>4. next \in Request /\ next.pc # "idle"
      BY <1>0, <3>2, <3>3 DEF Request
    <3>5. /\ req' = [req EXCEPT ![r] = next]
          /\ owner' = [owner EXCEPT ![q.order] = r]
          /\ UNCHANGED <<db, issued>>
      BY <1>2, <2>2 DEF LockOrder
    <3> QED
      BY <3>4, <3>5, StepType DEF TypeOK, db
  <2> QED
    BY <2>1, <2>2
<1>3. CASE IllegalTransition(r)
  BY <1>3, EndType DEF TypeOK, IllegalTransition, Rollback, db
<1>4. CASE BeginStep(r)
  <2>0. PICK todo \in LinesMoved(q) :
             req' = [req EXCEPT ![r] = [q EXCEPT !.pc = "effects", !.todo = todo]]
    BY <1>4 DEF BeginStep
  <2> DEFINE next == [q EXCEPT !.pc = "effects", !.todo = todo]
  <2>1. todo \in SUBSET Items
    BY DEF Lines, LinesMoved
  <2>2. next \in Request /\ next.pc # "idle"
    BY <1>0, <2>1 DEF Request
  <2>3. /\ req' = [req EXCEPT ![r] = next]
        /\ owner' = owner
        /\ UNCHANGED <<db, issued>>
    BY <1>4, <2>0 DEF BeginStep
  <2> QED
    BY <2>2, <2>3, StepType DEF TypeOK, db
<1>5. ASSUME NEW i \in Items, MoveStock(r, i)
      PROVE  TypeOK'
  <2>0. PICK n \in Pieces(q, i) : MovePieces(r, i, n)
    BY <1>5 DEF MoveStock
  <2> DEFINE d == IF i \in Unmanaged THEN 0 ELSE StepSign(q) * n
  <2> DEFINE put == StockSeen(r, i) + d
  <2> DEFINE hold == IF Head(q.plan) = "restock" THEN q.hold[i] ELSE q.hold[i] - d
  <2> DEFINE next == [q EXCEPT !.todo = q.todo \ {i},
                               !.put[i] = put,
                               !.delta[i] = q.delta[i] + d,
                               !.hold[i] = hold]
  <2>1. q.order \in Orders
    BY <1>5 DEF MoveStock, RequestShape
  <2>2. n \in Nat
    BY <2>1, PiecesType
  <2>3. d \in Int
    BY <2>2, StepSignType
  <2>4. put \in Int /\ q.delta[i] + d \in Int /\ hold \in Int
    BY <1>0, <2>3 DEF Request, TypeOK, StockSeen
  <2>5. q.todo \ {i} \in SUBSET Items
    BY <1>0 DEF Request
  <2>6. next \in Request /\ next.pc # "idle"
    BY <1>0, <1>5, <2>4, <2>5 DEF Request, MoveStock
  <2>7. /\ req' = [req EXCEPT ![r] = next]
        /\ owner' = [owner EXCEPT ![i] = r]
        /\ UNCHANGED <<db, issued>>
    BY <2>0 DEF MovePieces
  <2> QED
    BY <2>6, <2>7, StepType DEF TypeOK, db
<1>6. ASSUME NEW i \in Items, StockRefused(r, i)
      PROVE  TypeOK'
  BY <1>6, EndType DEF TypeOK, StockRefused, Rollback, db
<1>7. CASE WriteStatus(r)
  <2> DEFINE to == Head(q.plan)
  <2> DEFINE rows == Append(q.rows, [from |-> q.view, to |-> to])
  <2> DEFINE next == [q EXCEPT !.pc = "plan", !.plan = Tail(q.plan), !.view = to,
                               !.rows = rows]
  <2>1. q.plan \in Seq(PlanSteps) /\ q.plan # <<>>
    BY <1>0, <1>7 DEF Request, WriteStatus, RequestShape
  <2>2. to \in PlanSteps /\ Tail(q.plan) \in Seq(PlanSteps)
    BY <2>1
  <2>3. to \in OrderStatuses
    BY <2>2, <1>7 DEF PlanSteps, WriteStatus
  <2>4. [from |-> q.view, to |-> to] \in HistoryRow
    BY <1>0, <2>3 DEF Request, HistoryRow
  <2>5. rows \in Seq(HistoryRow)
    BY <1>0, <2>4 DEF Request
  <2>6. next \in Request /\ next.pc # "idle"
    BY <1>0, <2>2, <2>3, <2>5 DEF Request
  <2>7. /\ req' = [req EXCEPT ![r] = next]
        /\ owner' = [owner EXCEPT ![q.order] = r]
        /\ UNCHANGED <<db, issued>>
    BY <1>7 DEF WriteStatus
  <2> QED
    BY <2>6, <2>7, StepType DEF TypeOK, db
<1>8. CASE EndRestock(r)
  <2> DEFINE next == [q EXCEPT !.pc = "plan", !.plan = Tail(q.plan)]
  <2>1. q.plan \in Seq(PlanSteps) /\ q.plan # <<>>
    BY <1>0, <1>8 DEF Request, EndRestock, RequestShape
  <2>2. Tail(q.plan) \in Seq(PlanSteps)
    BY <2>1
  <2>3. next \in Request /\ next.pc # "idle"
    BY <1>0, <2>2 DEF Request
  <2>4. /\ req' = [req EXCEPT ![r] = next]
        /\ owner' = owner
        /\ UNCHANGED <<db, issued>>
    BY <1>8 DEF EndRestock
  <2> QED
    BY <2>3, <2>4, StepType DEF TypeOK, db
<1>9. CASE Commit(r)
  <2>1. q.order \in Orders
    BY <1>9 DEF Commit, RequestShape
  <2>2. status' \in [Orders -> OrderStatuses]
    BY <1>0, <1>9, <2>1 DEF TypeOK, Commit, Request
  <2>3. stock' \in [Items -> Int] /\ ledger' \in [Items -> Int]
    BY <1>0, <1>9 DEF TypeOK, Commit, Request
  <2>4. held' \in [Orders -> [Items -> Int]]
    <3>1. [i \in Items |-> held[q.order][i] + q.hold[i]] \in [Items -> Int]
      BY <1>0, <2>1 DEF TypeOK, Request
    <3> QED
      BY <1>9, <3>1 DEF TypeOK, Commit
  <2>5. history' \in [Orders -> Seq(HistoryRow)]
    <3>1. history[q.order] \o q.rows \in Seq(HistoryRow)
      BY <1>0, <2>1 DEF TypeOK, Request
    <3> QED
      BY <1>9, <3>1 DEF TypeOK, Commit
  <2>6. keyed' \subseteq Orders
    BY <1>9, <2>1 DEF TypeOK, Commit
  <2> QED
    BY <1>9, <2>2, <2>3, <2>4, <2>5, <2>6, EndType DEF TypeOK, Commit
<1> QED
  BY <1>1, <1>2, <1>3, <1>4, <1>5, <1>6, <1>7, <1>8, <1>9 DEF Serve

----------------------------------------------------------------------------
(* What a step of one request leaves alone.                                *)

\* Every way a request can move.
Moves(r) == Arrives(r) \/ Serve(r) \/ DeadlockVictim(r) \/ RequestFails(r)

\* A step of r ends r, or leaves the database alone; it takes a lock only when
\* nobody else has it.
LEMMA MoveKinds ==
    ASSUME TypeOK, NEW r \in Requests, Moves(r)
    PROVE  \/ Rollback(r)
           \/ Commit(r)
           \/ /\ UNCHANGED db
              /\ \A p \in Requests \ {r} : req'[p] = req[p]
              /\ \/ owner' = owner
                 \/ \E w : Free(r, w) /\ owner' = [owner EXCEPT ![w] = r]
<1>1. CASE Arrives(r)
  <2>1. PICK k \in Kinds, o \in Orders, pc \in {"cart", "order", "plan"},
             view \in OrderStatuses, plan \in Seq(PlanSteps) :
               Begin(r, NewRequest(k, o, pc, view, plan))
    BY <1>1, ArrivesBegins
  <2> QED
    BY <2>1 DEF Begin, TypeOK
<1>2. CASE LockCart(r) \/ LockOrder(r)
  BY <1>2 DEF LockCart, LockOrder, TypeOK
<1>3. CASE IllegalTransition(r) \/ BeginStep(r)
  BY <1>3 DEF IllegalTransition, BeginStep, TypeOK
<1>4. ASSUME NEW i \in Items, MoveStock(r, i)
      PROVE  /\ UNCHANGED db
             /\ \A p \in Requests \ {r} : req'[p] = req[p]
             /\ Free(r, i) /\ owner' = [owner EXCEPT ![i] = r]
  BY <1>4 DEF MoveStock, MovePieces, TypeOK
<1>5. ASSUME NEW i \in Items, StockRefused(r, i)
      PROVE  Rollback(r)
  BY <1>5 DEF StockRefused
<1>6. CASE WriteStatus(r) \/ EndRestock(r)
  BY <1>6 DEF WriteStatus, EndRestock, TypeOK
<1>7. CASE Commit(r) \/ DeadlockVictim(r) \/ RequestFails(r)
  BY <1>7 DEF DeadlockVictim, RequestFails
<1> QED
  BY <1>1, <1>2, <1>3, <1>4, <1>5, <1>6, <1>7 DEF Moves, Serve

\* The records and the locks of the others are untouched.
LEMMA OthersUntouched ==
    ASSUME TypeOK, NEW r \in Requests, Moves(r), NEW p \in Requests, p # r
    PROVE  /\ req'[p] = req[p]
           /\ \A w \in Rows : owner'[w] = p <=> owner[w] = p
<1> USE ConstantsAssumption
<1>1. CASE Rollback(r) \/ Commit(r)
  BY <1>1 DEF Rollback, Commit, End, Released, TypeOK
<1>2. CASE /\ req'[p] = req[p]
           /\ \/ owner' = owner
              \/ \E w : Free(r, w) /\ owner' = [owner EXCEPT ![w] = r]
  BY <1>2 DEF Free, TypeOK
<1> QED
  BY <1>1, <1>2, MoveKinds

\* A request that ends has no locks and an empty record.
LEMMA EndsEmpty ==
    ASSUME TypeOK, NEW r \in Requests, Rollback(r) \/ Commit(r)
    PROVE  req'[r] = Idle /\ \A w \in Rows : owner'[w] # r
<1>1. End(r)
  BY DEF Rollback, Commit
<1>2. r # None
  BY ConstantsAssumption
<1> QED
  BY <1>1, <1>2 DEF End, Released, TypeOK

----------------------------------------------------------------------------
(* RequestShape.                                                           *)

\* Every step keeps the shape of the requests.
LEMMA ShapeStep ==
    ASSUME TypeOK, RequestShape, NEW r \in Requests, Moves(r)
    PROVE  RequestShape'
<1> DEFINE Shape(q, held_) ==
      /\ q.pc # "idle" => q.order \in Orders /\ q.kind # "none"
      /\ q.pc = "effects" =>
            /\ q.plan # <<>>
            /\ Head(q.plan) = "restock" \/ CanTransition(q.view, Head(q.plan))
      /\ q.rows # <<>> => q.pc \in {"plan", "effects"} /\ held_
<1> DEFINE q == req[r]
<1>1. ASSUME NEW p \in Requests, p # r
      PROVE  Shape(req'[p], owner'[req'[p].order] = p)
  <2>1. req'[p] = req[p] /\ \A w \in Rows : owner'[w] = p <=> owner[w] = p
    BY <1>1, OthersUntouched
  <2>2. Shape(req[p], owner[req[p].order] = p)
    BY DEF RequestShape
  <2>3. req[p].rows # <<>> => req[p].order \in Rows
    BY DEF RequestShape, Rows
  <2> QED
    BY <2>1, <2>2, <2>3
<1>2. Shape(req'[r], owner'[req'[r].order] = r)
  <2>0. q \in Request /\ Shape(q, owner[q.order] = r)
    BY DEF TypeOK, RequestShape
  <2>1. CASE Rollback(r) \/ Commit(r)
    BY <2>1, EndsEmpty DEF Idle, NewRequest
  <2>2. CASE Arrives(r)
    <3>1. PICK k \in Kinds, o \in Orders, pc \in {"cart", "order", "plan"},
               view \in OrderStatuses, plan \in Seq(PlanSteps) :
                 Begin(r, NewRequest(k, o, pc, view, plan))
      BY <2>2, ArrivesBegins
    <3>2. req'[r] = NewRequest(k, o, pc, view, plan)
      BY <3>1 DEF Begin, TypeOK
    <3> QED
      BY <3>2 DEF NewRequest, Kinds
  <2>3. CASE LockCart(r) /\ ~Rollback(r)
    <3>1. req'[r] = [q EXCEPT !.pc = "order"]
      BY <2>3 DEF LockCart, TypeOK
    <3> QED
      BY <2>0, <2>3, <3>1 DEF LockCart, Request
  <2>4. CASE LockOrder(r) /\ ~Rollback(r)
    <3>1. req'[r] = [q EXCEPT !.pc = "plan", !.plan = PlanAfterLock(q),
                              !.view = ViewAfterLock(q)]
      BY <2>4 DEF LockOrder, TypeOK
    <3> QED
      BY <2>0, <2>4, <3>1 DEF LockOrder, Request
  <2>5. CASE BeginStep(r)
    <3>1. /\ req'[r].pc = "effects" /\ req'[r].plan = q.plan /\ req'[r].view = q.view
          /\ req'[r].order = q.order /\ req'[r].kind = q.kind /\ req'[r].rows = q.rows
          /\ owner' = owner
      BY <2>0, <2>5 DEF BeginStep, TypeOK, Request
    <3> QED
      BY <2>0, <2>5, <3>1 DEF BeginStep
  <2>6. ASSUME NEW i \in Items, MoveStock(r, i)
        PROVE  Shape(req'[r], owner'[req'[r].order] = r)
    <3>1. /\ req'[r].pc = q.pc /\ req'[r].plan = q.plan /\ req'[r].view = q.view
          /\ req'[r].order = q.order /\ req'[r].kind = q.kind /\ req'[r].rows = q.rows
      BY <2>0, <2>6 DEF MoveStock, MovePieces, TypeOK, Request
    <3>2. owner[q.order] = r => owner'[q.order] = r
      BY <2>6 DEF MoveStock, MovePieces, TypeOK
    <3> QED
      BY <2>0, <3>1, <3>2
  <2>7. CASE WriteStatus(r)
    <3>1. req'[r].pc = "plan" /\ req'[r].order = q.order /\ req'[r].kind = q.kind
      BY <2>0, <2>7 DEF WriteStatus, TypeOK, Request
    <3>2. q.order \in Rows
      BY <2>0, <2>7 DEF WriteStatus, Rows
    <3>3. owner'[q.order] = r
      BY <2>7, <3>2 DEF WriteStatus, TypeOK
    <3> QED
      BY <2>0, <2>7, <3>1, <3>3 DEF WriteStatus
  <2>8. CASE EndRestock(r)
    <3>1. /\ req'[r].pc = "plan" /\ req'[r].order = q.order
          /\ req'[r].kind = q.kind /\ req'[r].rows = q.rows /\ owner' = owner
      BY <2>0, <2>8 DEF EndRestock, TypeOK, Request
    <3> QED
      BY <2>0, <2>8, <3>1 DEF EndRestock
  <2>9. ASSUME ~Rollback(r), ~Commit(r), ~Arrives(r)
        PROVE  \/ LockCart(r) \/ LockOrder(r) \/ BeginStep(r)
               \/ \E i \in Items : MoveStock(r, i)
               \/ WriteStatus(r) \/ EndRestock(r)
    BY <2>9 DEF Moves, Serve, IllegalTransition, StockRefused, DeadlockVictim,
                RequestFails
  <2> QED
    BY <2>1, <2>2, <2>3, <2>4, <2>5, <2>6, <2>7, <2>8, <2>9
<1> QED
  BY <1>1, <1>2 DEF RequestShape

----------------------------------------------------------------------------
(* The stock: nothing is lost, nothing is sold twice.                      *)

StockInv == WritesUnderLock /\ LedgerBalance /\ NoOversell

\* Moving a line writes what is committed plus all movements of the request, and
\* never a negative amount where backorders are refused.
LEMMA MoveWrites ==
    ASSUME TypeOK, RequestShape, StockInv,
           NEW r \in Requests, NEW i \in Items, MoveStock(r, i)
    PROVE  /\ req'[r].put[i] = stock[i] + req'[r].delta[i]
           /\ i \notin Backordered => req'[r].put[i] >= 0
           /\ \A j \in Items \ {i} : /\ req'[r].put[j] = req[r].put[j]
                                     /\ req'[r].delta[j] = req[r].delta[j]
<1> USE ConstantsAssumption
<1> DEFINE q == req[r]
<1>0. PICK n \in Pieces(q, i) : MovePieces(r, i, n)
  BY DEF MoveStock
<1> DEFINE d == IF i \in Unmanaged THEN 0 ELSE StepSign(q) * n
<1>1. q \in Request /\ q.order \in Orders
  BY DEF TypeOK, RequestShape, MoveStock
<1>2. /\ req'[r].put = [q.put EXCEPT ![i] = StockSeen(r, i) + d]
      /\ req'[r].delta = [q.delta EXCEPT ![i] = q.delta[i] + d]
  BY <1>0, <1>1 DEF MovePieces, TypeOK, Request
<1>3. n \in Nat
  BY <1>1, PiecesType
<1>4. d \in Int /\ (StepSign(q) >= 0 \/ i \in Unmanaged => d >= 0)
  BY <1>3, StepSignType
<1>5. StockSeen(r, i) \in Int /\ q.delta[i] \in Int /\ stock[i] \in Int
  BY <1>1 DEF StockSeen, TypeOK, Request
<1>6. StockSeen(r, i) = stock[i] + q.delta[i]
  BY <1>5 DEF StockSeen, StockInv, WritesUnderLock
<1>7. req'[r].put[i] = StockSeen(r, i) + d /\ req'[r].delta[i] = q.delta[i] + d
  BY <1>1, <1>2 DEF Request
<1>8. req'[r].put[i] = stock[i] + req'[r].delta[i]
  BY <1>4, <1>5, <1>6, <1>7
<1>9. ASSUME i \notin Backordered
      PROVE  req'[r].put[i] >= 0
  <2>1. StockSeen(r, i) >= 0
    BY <1>9 DEF StockSeen, StockInv, WritesUnderLock, NoOversell
  <2>2. CASE StepSign(q) >= 0 \/ i \in Unmanaged
    BY <1>4, <1>5, <1>7, <2>1, <2>2
  <2>3. CASE StepSign(q) < 0 /\ i \notin Unmanaged
    <3>1. ~Refused(i, StepSign(q), StockSeen(r, i) + d)
      BY <1>0, <2>3 DEF MovePieces
    <3> QED
      BY <1>4, <1>5, <1>7, <1>9, <2>3, <3>1 DEF Refused
  <2>4. StepSign(q) >= 0 \/ StepSign(q) < 0
    BY StepSignType
  <2> QED
    BY <2>2, <2>3, <2>4
<1>10. ASSUME NEW j \in Items \ {i}
       PROVE  req'[r].put[j] = q.put[j] /\ req'[r].delta[j] = q.delta[j]
  BY <1>1, <1>2 DEF Request
<1> QED
  BY <1>8, <1>9, <1>10

\* A step that ends or moves no stock keeps what the request is about to write.
LEMMA QuietMoves ==
    ASSUME TypeOK, RequestShape, NEW r \in Requests, Moves(r),
           ~Rollback(r), ~Commit(r), \A i \in Items : ~MoveStock(r, i)
    PROVE  \/ /\ req'[r].put = req[r].put /\ req'[r].delta = req[r].delta
              /\ \A i \in Items : owner'[i] = r <=> owner[i] = r
           \/ /\ req'[r].delta = Zero
              /\ \A i \in Items : owner'[i] # r
<1> USE ConstantsAssumption, RowsAssumption
<1> DEFINE q == req[r]
<1>0. q \in Request
  BY DEF TypeOK
<1>1. CASE Arrives(r)
  <2>1. PICK k \in Kinds, o \in Orders, pc \in {"cart", "order", "plan"},
             view \in OrderStatuses, plan \in Seq(PlanSteps) :
               Begin(r, NewRequest(k, o, pc, view, plan))
    BY <1>1, ArrivesBegins
  <2>2. req'[r].delta = Zero
    BY <2>1 DEF Begin, NewRequest, TypeOK
  <2>3. \A w \in Rows : owner'[w] # r
    BY <2>1 DEF Begin, TypeOK
  <2> QED
    BY <2>2, <2>3 DEF Rows
<1>2. CASE LockCart(r)
  <2>1. q.order \in Orders
    BY <1>2 DEF LockCart, RequestShape
  <2>2. CartOf[q.order] \notin Items
    BY <2>1
  <2>3. req'[r] = [q EXCEPT !.pc = "order"] /\ owner' = [owner EXCEPT ![CartOf[q.order]] = r]
    BY <1>2 DEF LockCart, TypeOK
  <2> QED
    BY <1>0, <2>2, <2>3 DEF TypeOK, Rows, Request
<1>3. CASE LockOrder(r)
  <2>1. q.order \in Orders
    BY <1>3 DEF LockOrder, RequestShape
  <2>2. q.order \notin Items
    BY <2>1
  <2>3. /\ req'[r] = [q EXCEPT !.pc = "plan", !.plan = PlanAfterLock(q),
                               !.view = ViewAfterLock(q)]
        /\ owner' = [owner EXCEPT ![q.order] = r]
    BY <1>3 DEF LockOrder, TypeOK
  <2>4. req'[r].put = q.put /\ req'[r].delta = q.delta
    BY <1>0, <2>3 DEF Request
  <2> QED
    BY <2>2, <2>3, <2>4 DEF TypeOK, Rows
<1>4. CASE BeginStep(r)
  BY <1>0, <1>4 DEF BeginStep, TypeOK, Request
<1>5. CASE WriteStatus(r)
  <2>1. q.order \in Orders
    BY <1>5 DEF WriteStatus, RequestShape
  <2>2. q.order \notin Items
    BY <2>1
  <2>3. /\ req'[r].put = q.put /\ req'[r].delta = q.delta
        /\ owner' = [owner EXCEPT ![q.order] = r]
    BY <1>0, <1>5 DEF WriteStatus, TypeOK, Request
  <2> QED
    BY <2>2, <2>3 DEF TypeOK, Rows
<1>6. CASE EndRestock(r)
  BY <1>0, <1>6 DEF EndRestock, TypeOK, Request
<1> QED
  BY <1>1, <1>2, <1>3, <1>4, <1>5, <1>6
  DEF Moves, Serve, IllegalTransition, StockRefused, DeadlockVictim, RequestFails

\* Every step keeps the stock, the ledger and the uncommitted movements in
\* step: the heart of LedgerBalanced and NeverOversold.
LEMMA StockStep ==
    ASSUME TypeOK, RequestShape, StockInv, NEW r \in Requests, Moves(r)
    PROVE  StockInv'
<1> USE ConstantsAssumption
<1> DEFINE Writes(p, i) ==
      /\ owner[i] = p =>
            /\ req[p].put[i] = stock[i] + req[p].delta[i]
            /\ i \notin Backordered => req[p].put[i] >= 0
      /\ owner[i] # p => req[p].delta[i] = 0
<1>1. /\ \A p \in Requests, i \in Items : Writes(p, i)
      /\ LedgerBalance /\ NoOversell
  BY DEF StockInv, WritesUnderLock
<1>2. ASSUME NEW p \in Requests, p # r, NEW i \in Items
      PROVE  req'[p] = req[p] /\ (owner'[i] = p <=> owner[i] = p)
  BY <1>2, OthersUntouched DEF Rows
<1>3. ASSUME NEW p \in Requests, NEW i \in Items
      PROVE  /\ req[p].delta[i] \in Int /\ req[p].put[i] \in Int
             /\ stock[i] \in Int /\ ledger[i] \in Int
  <2>1. req[p] \in Request
    BY DEF TypeOK
  <2> QED
    BY <2>1 DEF TypeOK, Request
<1>4. CASE Rollback(r)
  <2>1. stock' = stock /\ ledger' = ledger
    BY <1>4 DEF Rollback, db
  <2>2. ASSUME NEW i \in Items
        PROVE  req'[r].delta[i] = 0 /\ owner'[i] # r
    BY <1>4, EndsEmpty DEF Idle, NewRequest, Zero, Rows
  <2>3. WritesUnderLock'
    BY <1>1, <1>2, <2>1, <2>2 DEF WritesUnderLock
  <2> QED
    BY <1>1, <2>1, <2>3 DEF StockInv, LedgerBalance, NoOversell
<1>5. CASE Commit(r)
  <2>1. ASSUME NEW i \in Items
        PROVE  /\ stock'[i] = IF owner[i] = r THEN req[r].put[i] ELSE stock[i]
               /\ ledger'[i] = ledger[i] + req[r].delta[i]
    BY <1>5 DEF Commit
  <2>2. ASSUME NEW i \in Items
        PROVE  req'[r].delta[i] = 0 /\ owner'[i] # r
    BY <1>5, EndsEmpty DEF Idle, NewRequest, Zero, Rows
  <2>3. ASSUME NEW p \in Requests, p # r, NEW i \in Items, owner[i] = p
        PROVE  stock'[i] = stock[i]
    BY <2>1, <2>3
  <2>4. WritesUnderLock'
    BY <1>1, <1>2, <2>2, <2>3 DEF WritesUnderLock
  <2>5. LedgerBalance'
    <3>1. ASSUME NEW i \in Items
          PROVE  stock'[i] = InitialStock[i] + ledger'[i]
      <4>1. Writes(r, i) /\ stock[i] = InitialStock[i] + ledger[i]
        BY <1>1 DEF LedgerBalance
      <4> QED
        BY <1>3, <2>1, <4>1
    <3> QED
      BY <3>1 DEF LedgerBalance
  <2>6. NoOversell'
    BY <1>1, <2>1 DEF NoOversell
  <2> QED
    BY <2>4, <2>5, <2>6 DEF StockInv
<1>6. CASE UNCHANGED db /\ ~Rollback(r) /\ ~Commit(r)
  <2>1. stock' = stock /\ ledger' = ledger
    BY <1>6 DEF db
  <2>2. ASSUME NEW i \in Items
        PROVE  Writes(r, i)'
    <3>1. CASE MoveStock(r, i)
      <4>1. owner'[i] = r
        BY <3>1 DEF MoveStock, MovePieces, TypeOK, Rows
      <4> QED
        BY <2>1, <3>1, <4>1, MoveWrites
    <3>2. ASSUME NEW j \in Items, j # i, MoveStock(r, j)
          PROVE  Writes(r, i)'
      <4>1. req'[r].put[i] = req[r].put[i] /\ req'[r].delta[i] = req[r].delta[i]
        BY <3>2, MoveWrites
      <4>2. owner'[i] = owner[i]
        BY <3>2 DEF MoveStock, MovePieces, TypeOK, Rows
      <4> QED
        BY <1>1, <2>1, <4>1, <4>2
    <3>3. CASE \A j \in Items : ~MoveStock(r, j)
      <4>1. \/ /\ req'[r].put = req[r].put /\ req'[r].delta = req[r].delta
               /\ owner'[i] = r <=> owner[i] = r
            \/ req'[r].delta = Zero /\ owner'[i] # r
        BY <1>6, <3>3, QuietMoves
      <4>2. Zero[i] = 0
        BY DEF Zero
      <4> QED
        BY <1>1, <2>1, <4>1, <4>2
    <3> QED
      BY <3>1, <3>2, <3>3
  <2>3. ASSUME NEW p \in Requests, p # r, NEW i \in Items
        PROVE  Writes(p, i)'
    BY <1>1, <1>2, <2>1, <2>3
  <2>4. WritesUnderLock'
    BY <2>2, <2>3 DEF WritesUnderLock
  <2> QED
    BY <1>1, <2>1, <2>4 DEF StockInv, LedgerBalance, NoOversell
<1> QED
  BY <1>4, <1>5, <1>6, MoveKinds

----------------------------------------------------------------------------
(* The handlers that read the order under its lock.                        *)

\* What a plan of theirs leaves to do after its first step.
LEMMA PlanTails ==
    ASSUME NEW plan \in RefundPlans \cup CallbackPlans, plan # <<>>
    PROVE  /\ Tail(plan) \in RefundPlans \cup CallbackPlans
           /\ Head(plan) # "restock" => Tail(plan) = <<>>
<1>1. CASE plan = <<"restock">>
  BY <1>1 DEF RefundPlans
<1>2. CASE plan = <<"refunded">>
  BY <1>2 DEF RefundPlans
<1>3. CASE plan = <<"restock", "refunded">>
  <2>1. Tail(plan) = <<"refunded">> /\ Head(plan) = "restock"
    BY <1>3
  <2> QED
    BY <2>1 DEF RefundPlans
<1>4. CASE plan = <<"processing">>
  BY <1>4 DEF RefundPlans
<1>5. CASE plan = <<"failed">>
  BY <1>5 DEF RefundPlans
<1> QED
  BY <1>1, <1>2, <1>3, <1>4, <1>5 DEF RefundPlans, CallbackPlans

\* The status of an order changes only at the commit of the request that holds it.
LEMMA StatusOfHeld ==
    ASSUME TypeOK, RequestShape, NEW r \in Requests, Moves(r),
           NEW p \in Requests, p # r, NEW o \in Orders, owner[o] = p
    PROVE  status'[o] = status[o]
<1>1. CASE Commit(r)
  <2>1. CASE req[r].rows = <<>>
    BY <1>1, <2>1 DEF Commit
  <2>2. CASE req[r].rows # <<>>
    <3>1. owner[req[r].order] = r
      BY <2>2 DEF RequestShape
    <3>2. status' = [status EXCEPT ![req[r].order] = req[r].view]
      BY <1>1, <2>2 DEF Commit
    <3> QED
      BY <3>1, <3>2 DEF TypeOK
  <2> QED
    BY <2>1, <2>2
<1>2. CASE Rollback(r) \/ UNCHANGED db
  BY <1>2 DEF Rollback, db
<1> QED
  BY <1>1, <1>2, MoveKinds

\* Every step keeps what the handlers that read under the lock know.
LEMMA ViewStep ==
    ASSUME TypeOK, RequestShape, ViewUnderLock, NEW r \in Requests, Moves(r)
    PROVE  ViewUnderLock'
<1> DEFINE View(q, held_, now) ==
      q.kind \in LockedReaders /\ q.pc # "idle" =>
          /\ q.pc \in {"order", "plan", "effects"}
          /\ q.plan \in RefundPlans \cup CallbackPlans
          /\ q.pc # "order" =>
               /\ held_
               /\ q.rows = <<>> => q.view = now
               /\ q.rows # <<>> => q.plan = <<>> /\ CanTransition(now, q.view)
               /\ q.kind = "callback" /\ (q.plan # <<>> \/ q.rows # <<>>) =>
                     now = "pending"
<1> DEFINE q == req[r]
<1>1. ASSUME NEW p \in Requests, p # r
      PROVE  View(req'[p], owner'[req'[p].order] = p, status'[req'[p].order])
  <2>1. req'[p] = req[p] /\ \A w \in Rows : owner'[w] = p <=> owner[w] = p
    BY <1>1, OthersUntouched
  <2>2. View(req[p], owner[req[p].order] = p, status[req[p].order])
    BY DEF ViewUnderLock
  <2>3. CASE req[p].pc = "idle" \/ req[p].pc = "order" \/ req[p].kind \notin LockedReaders
    BY <2>1, <2>2, <2>3
  <2>4. CASE req[p].pc # "idle" /\ req[p].pc # "order" /\ req[p].kind \in LockedReaders
    <3>1. req[p].order \in Orders
      BY <2>4 DEF RequestShape
    <3>2. owner[req[p].order] = p
      BY <2>2, <2>4
    <3>3. status'[req[p].order] = status[req[p].order]
      BY <1>1, <3>1, <3>2, StatusOfHeld
    <3> QED
      BY <2>1, <2>2, <3>1, <3>3 DEF Rows
  <2> QED
    BY <2>3, <2>4
<1>2. View(req'[r], owner'[req'[r].order] = r, status'[req'[r].order])
  <2>0. q \in Request /\ View(q, owner[q.order] = r, status[q.order])
    BY DEF TypeOK, ViewUnderLock
  <2>1. CASE Rollback(r) \/ Commit(r)
    BY <2>1, EndsEmpty DEF Idle, NewRequest
  <2>2. CASE Arrives(r)
    <3>1. PICK k \in Kinds, o \in Orders, pc \in {"cart", "order", "plan"},
               view \in OrderStatuses, plan \in Seq(PlanSteps) :
                 /\ Begin(r, NewRequest(k, o, pc, view, plan))
                 /\ k \in LockedReaders =>
                       pc = "order" /\ plan \in RefundPlans \cup CallbackPlans
      BY <2>2, ArrivesBegins
    <3>2. req'[r] = NewRequest(k, o, pc, view, plan)
      BY <3>1 DEF Begin, TypeOK
    <3> QED
      BY <3>1, <3>2 DEF NewRequest
  <2>3. CASE LockCart(r) /\ ~Rollback(r)
    <3>1. req'[r] = [q EXCEPT !.pc = "order"]
      BY <2>3 DEF LockCart, TypeOK
    <3>2. req'[r].kind = q.kind /\ q.pc = "cart"
      BY <2>0, <2>3, <3>1 DEF LockCart, Request
    <3> QED
      BY <2>0, <3>2
  <2>4. CASE LockOrder(r) /\ ~Rollback(r)
    <3>1. /\ req'[r] = [q EXCEPT !.pc = "plan", !.plan = PlanAfterLock(q),
                                 !.view = ViewAfterLock(q)]
          /\ owner' = [owner EXCEPT ![q.order] = r]
          /\ status' = status
          /\ q.pc = "order"
      BY <2>4 DEF LockOrder, TypeOK, db
    <3>2. q.order \in Orders /\ q.rows = <<>>
      BY <3>1 DEF RequestShape
    <3>3. /\ req'[r].kind = q.kind /\ req'[r].order = q.order
          /\ req'[r].rows = <<>> /\ req'[r].view = ViewAfterLock(q)
          /\ req'[r].plan = PlanAfterLock(q) /\ req'[r].pc = "plan"
      BY <2>0, <3>1, <3>2 DEF Request
    <3>4. owner'[q.order] = r
      BY <3>1, <3>2 DEF TypeOK, Rows
    <3>5. CASE q.kind \in LockedReaders
      <4>1. q.plan \in RefundPlans \cup CallbackPlans
        BY <2>0, <3>1, <3>5
      <4>2. ViewAfterLock(q) = status[q.order]
        BY <3>5 DEF ViewAfterLock
      <4>3. /\ PlanAfterLock(q) \in RefundPlans \cup CallbackPlans
            /\ q.kind = "callback" /\ PlanAfterLock(q) # <<>> =>
                  status[q.order] = "pending"
        BY <4>1, <4>2 DEF PlanAfterLock, RefundPlans
      <4> QED
        BY <3>1, <3>3, <3>4, <4>2, <4>3
    <3> QED
      BY <3>3, <3>5
  <2>5. CASE BeginStep(r)
    <3>1. /\ req'[r].pc = "effects" /\ q.pc = "plan" /\ req'[r].plan = q.plan
          /\ req'[r].view = q.view /\ req'[r].order = q.order
          /\ req'[r].kind = q.kind /\ req'[r].rows = q.rows
          /\ owner' = owner /\ status' = status
      BY <2>0, <2>5 DEF BeginStep, TypeOK, Request, db
    <3> QED
      BY <2>0, <3>1
  <2>6. ASSUME NEW i \in Items, MoveStock(r, i)
        PROVE  View(req'[r], owner'[req'[r].order] = r, status'[req'[r].order])
    <3>1. /\ req'[r].pc = q.pc /\ req'[r].plan = q.plan /\ req'[r].view = q.view
          /\ req'[r].order = q.order /\ req'[r].kind = q.kind /\ req'[r].rows = q.rows
      BY <2>0, <2>6 DEF MoveStock, MovePieces, TypeOK, Request
    <3>2. (owner[q.order] = r => owner'[q.order] = r) /\ status' = status
      BY <2>6 DEF MoveStock, MovePieces, TypeOK, db
    <3> QED
      BY <2>0, <3>1, <3>2
  <2>7. CASE WriteStatus(r)
    <3> DEFINE to == Head(q.plan)
    <3>1. /\ q.pc = "effects" /\ q.plan # <<>> /\ to # "restock"
          /\ CanTransition(q.view, to)
          /\ q.order \in Orders
      BY <2>7 DEF WriteStatus, RequestShape
    <3>2. /\ req'[r].pc = "plan" /\ req'[r].plan = Tail(q.plan)
          /\ req'[r].view = to /\ req'[r].order = q.order /\ req'[r].kind = q.kind
          /\ owner' = [owner EXCEPT ![q.order] = r] /\ status' = status
      BY <2>0, <2>7 DEF WriteStatus, TypeOK, Request, db
    <3>3. owner'[q.order] = r
      BY <3>1, <3>2 DEF TypeOK, Rows
    <3>4. req'[r].rows # <<>>
      <4>1. req'[r].rows = Append(q.rows, [from |-> q.view, to |-> to])
        BY <2>0, <2>7 DEF WriteStatus, TypeOK, Request
      <4>2. q.rows \in Seq(HistoryRow)
        BY <2>0 DEF Request
      <4> QED
        BY <4>1, <4>2
    <3>5. CASE q.kind \in LockedReaders
      <4>1. /\ q.plan \in RefundPlans \cup CallbackPlans
            /\ q.rows # <<>> => q.plan = <<>>
            /\ q.rows = <<>> => q.view = status[q.order]
            /\ q.kind = "callback" /\ q.plan # <<>> => status[q.order] = "pending"
        BY <2>0, <3>1, <3>5
      <4>2. Tail(q.plan) = <<>>
        BY <3>1, <4>1, PlanTails
      <4>3. q.view = status[q.order]
        BY <3>1, <4>1
      <4>4. <<>> \in RefundPlans
        BY DEF RefundPlans
      <4> QED
        BY <3>1, <3>2, <3>3, <3>4, <4>1, <4>2, <4>3, <4>4
    <3> QED
      BY <3>2, <3>5
  <2>8. CASE EndRestock(r)
    <3>1. /\ req'[r].pc = "plan" /\ req'[r].plan = Tail(q.plan)
          /\ req'[r].view = q.view /\ req'[r].order = q.order
          /\ req'[r].kind = q.kind /\ req'[r].rows = q.rows
          /\ owner' = owner /\ status' = status
          /\ q.pc = "effects" /\ q.plan # <<>>
      BY <2>0, <2>8 DEF EndRestock, RequestShape, TypeOK, Request, db
    <3>2. q.plan \in RefundPlans \cup CallbackPlans =>
            Tail(q.plan) \in RefundPlans \cup CallbackPlans
      BY <3>1, PlanTails
    <3> QED
      BY <2>0, <3>1, <3>2
  <2>9. ASSUME ~Rollback(r), ~Commit(r), ~Arrives(r)
        PROVE  \/ LockCart(r) \/ LockOrder(r) \/ BeginStep(r)
               \/ \E i \in Items : MoveStock(r, i)
               \/ WriteStatus(r) \/ EndRestock(r)
    BY <2>9 DEF Moves, Serve, IllegalTransition, StockRefused, DeadlockVictim,
                RequestFails
  <2> QED
    BY <2>1, <2>2, <2>3, <2>4, <2>5, <2>6, <2>7, <2>8, <2>9
<1> QED
  BY <1>1, <1>2 DEF ViewUnderLock

----------------------------------------------------------------------------
(* The theorems.                                                           *)

IInv == TypeOK /\ RequestShape /\ StockInv /\ ViewUnderLock

\* The invariant holds before the first request.
LEMMA InitIInv == Init => IInv
<1> SUFFICES ASSUME Init PROVE IInv
  OBVIOUS
<1> USE ConstantsAssumption, StockAssumption DEF Init
<1>1. \A r \in Requests : req[r] = Idle
  OBVIOUS
<1>2. TypeOK
  <2>1. "draft" \in OrderStatuses /\ <<>> \in Seq(HistoryRow)
    BY DEF OrderStatuses
  <2>2. Zero \in [Items -> Int]
    BY DEF Zero
  <2>3. req \in [Requests -> Request]
    BY IdleType
  <2> QED
    BY <2>1, <2>2, <2>3 DEF TypeOK
<1>3. RequestShape /\ ViewUnderLock
  BY <1>1 DEF RequestShape, ViewUnderLock, Idle, NewRequest
<1>4. StockInv
  <2>1. \A i \in Items : ledger[i] = 0 /\ owner[i] = None
    BY DEF Zero, Rows
  <2>2. \A r \in Requests, i \in Items : req[r].delta[i] = 0
    BY <1>1 DEF Idle, NewRequest, Zero
  <2>3. WritesUnderLock
    BY <2>1, <2>2 DEF WritesUnderLock
  <2>4. LedgerBalance /\ NoOversell
    BY <2>1 DEF LedgerBalance, NoOversell
  <2> QED
    BY <2>3, <2>4 DEF StockInv
<1> QED
  BY <1>2, <1>3, <1>4 DEF IInv

\* Every step preserves the invariant.
LEMMA NextIInv == IInv /\ [Next]_vars => IInv'
<1> SUFFICES ASSUME IInv, [Next]_vars PROVE IInv'
  OBVIOUS
<1> USE DEF IInv
<1>1. CASE UNCHANGED vars
  BY <1>1 DEF vars, TypeOK, RequestShape, StockInv, WritesUnderLock, LedgerBalance,
              NoOversell, ViewUnderLock
<1>2. CASE Next
  <2>1. PICK r \in Requests : Moves(r)
    BY <1>2 DEF Next, Moves
  <2>2. TypeOK'
    <3>1. CASE Arrives(r)
      BY <3>1, ArrivesType
    <3>2. CASE Serve(r)
      BY <3>2, ServeType
    <3>3. CASE Rollback(r)
      BY <3>3, EndType DEF TypeOK, Rollback, db
    <3> QED
      BY <2>1, <3>1, <3>2, <3>3 DEF Moves, DeadlockVictim, RequestFails
  <2> QED
    BY <2>1, <2>2, ShapeStep, StockStep, ViewStep
<1> QED
  BY <1>1, <1>2

\* The inductive invariant holds along every behaviour, for any number of
\* orders, items, carts and requests.
THEOREM Invariance == Spec => []IInv
BY InitIInv, NextIInv, PTL DEF Spec

\* Every reachable state is well typed, and only running requests hold locks:
\* tenant_context_middleware.ts ends the transaction of every request.
THEOREM TypeCorrect == Spec => []TypeOK
BY Invariance, PTL DEF IInv

\* inventory_service.ts:31-35: stock is the initial stock plus the movements, for
\* any number of requests that move the same rows in any order.
THEOREM LedgerBalanced == Spec => []LedgerBalance
BY Invariance, PTL DEF IInv, StockInv

\* inventory_service.ts:37-38: stock that may not be backordered never goes
\* below zero.
THEOREM NeverOversold == Spec => []NoOversell
BY Invariance, PTL DEF IInv, StockInv

\* inventory_service.ts:109-146: what a request will write to a stock row it has
\* locked is the committed quantity plus its own movements.
THEOREM WritesHeld == Spec => []WritesUnderLock
BY Invariance, PTL DEF IInv, StockInv

\* payment_service.ts:190-201, refund_service.ts:107-111: what a callback or a
\* refund believes of the order it has locked is what is committed.
THEOREM ViewsHeld == Spec => []ViewUnderLock
BY Invariance, PTL DEF IInv

\* payment_service.ts:201, refund_service.ts:107-111: PSP callbacks and refunds
\* move an order along the table from its committed status.
THEOREM LockedReadersSafe == Spec => LockedReadersFollowTable
<1> DEFINE A == \A r \in Requests : LET o == req[r].order IN
         Commits(r) /\ req[r].kind \in LockedReaders /\ status' # status =>
            /\ CanTransition(status[o], status'[o])
            /\ req[r].kind = "callback" => status[o] = "pending"
<1>1. IInv /\ [Next]_vars => [A]_vars
  <2> SUFFICES ASSUME IInv, Next, NEW r \in Requests, Commits(r),
                      req[r].kind \in LockedReaders, status' # status
               PROVE  /\ CanTransition(status[req[r].order], status'[req[r].order])
                      /\ req[r].kind = "callback" => status[req[r].order] = "pending"
    OBVIOUS
  <2> USE DEF IInv
  <2>1. PICK p \in Requests : Moves(p)
    BY DEF Next, Moves
  <2>2. p = r
    BY <2>1, OthersUntouched DEF Commits
  <2>3. Commit(r)
    BY <2>1, <2>2, MoveKinds DEF Rollback, db
  <2>4. req[r].rows # <<>> /\ req[r].pc = "plan"
    BY <2>3 DEF Commit
  <2>5. /\ CanTransition(status[req[r].order], req[r].view)
        /\ req[r].kind = "callback" => status[req[r].order] = "pending"
    BY <2>4 DEF ViewUnderLock
  <2>6. req[r].order \in Orders
    BY <2>4 DEF RequestShape
  <2>7. status'[req[r].order] = req[r].view
    BY <2>3, <2>4, <2>6 DEF Commit, TypeOK
  <2> QED
    BY <2>5, <2>7
<1> QED
  BY Invariance, <1>1, PTL DEF Spec, LockedReadersFollowTable

=============================================================================
