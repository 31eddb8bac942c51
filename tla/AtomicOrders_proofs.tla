------------------------ MODULE AtomicOrders_proofs ------------------------
(***************************************************************************)
(* OrderRequests implements AtomicOrders, for any number of orders, items, *)
(* carts and requests: seen from the committed database, every request is  *)
(* one step.  The argument: what a request has booked so far is accounted  *)
(* for by the transitions it has written and the pieces of the one under   *)
(* way, so its commit is one Transact, and every other step is a stutter.  *)
(***************************************************************************)
EXTENDS OrderRequests_proofs, FiniteSetTheorems, SequenceTheorems

\* The rows of one request are a run of the table.
RunShape(rows) ==
    /\ rows \in Seq(Atomic!Edges)
    /\ Len(rows) <= 2
    /\ Len(rows) = 2 => rows[1].to = rows[2].from

\* What the transition under way has taken of, or returned to, item i so far.
UnderWay(q, i) ==
    IF q.pc = "effects" /\ Head(q.plan) # "restock" /\ i \notin q.todo
    THEN StepSign(q) * Atomic!Taken(q.order, i) ELSE 0

\* What the restock loop has returned of item i so far.
Returned(q, i) == q.delta[i] + q.hold[i]

AwaitsRestock(q, i) ==
    /\ q.plan # <<>> /\ Head(q.plan) = "restock"
    /\ q.pc = "effects" => i \in q.todo

PlanShape(q) ==
    /\ Len(q.rows) + Len(q.plan) <= 2
    /\ Len(q.plan) = 2 => q.plan[2] # "restock"
    /\ q.rows # <<>> => q.rows[Len(q.rows)].to = q.view

Balances(q, i) ==
    /\ q.hold[i] = -(Atomic!Net(q.rows) * Atomic!Taken(q.order, i) + UnderWay(q, i))
    /\ 0 <= Returned(q, i) /\ Returned(q, i) <= Atomic!Returnable(q.order, i)
    /\ AwaitsRestock(q, i) => Returned(q, i) = 0

Accounts(q) == RunShape(q.rows) /\ PlanShape(q) /\ \A i \in Items : Balances(q, i)

\* Every request under way can account for its movements.
AccountsKept == \A r \in Requests : req[r].pc # "idle" => Accounts(req[r])
----------------------------------------------------------------------------
(* Runs of the table.                                                      *)

\* Both modules read the same table.
LEMMA SameTable ==
    /\ \A from, to : Atomic!StockSign(from, to) = StockSign(from, to)
    /\ \A from, to : CanTransition(from, to) <=> [from |-> from, to |-> to] \in Atomic!Edges
<1>1. Atomic!ORDER_TRANSITIONS = ORDER_TRANSITIONS
  BY DEF Atomic!ORDER_TRANSITIONS, Atomic!Row, ORDER_TRANSITIONS, Row
<1>2. \A from, to, e : Atomic!HasEffect(from, to, e) <=> HasEffect(from, to, e)
  BY <1>1 DEF Atomic!HasEffect, HasEffect
<1>3. \A from, to : Atomic!StockSign(from, to) = StockSign(from, to)
  BY <1>2 DEF Atomic!StockSign, StockSign
<1>4. ASSUME NEW from, NEW to
      PROVE  CanTransition(from, to) <=> [from |-> from, to |-> to] \in Atomic!Edges
  <2>1. Atomic!Edges = {[from |-> t.from, to |-> t.to] : t \in ORDER_TRANSITIONS}
    BY <1>1 DEF Atomic!Edges
  <2>2. ASSUME CanTransition(from, to)
        PROVE  [from |-> from, to |-> to] \in Atomic!Edges
    BY <2>1, <2>2 DEF CanTransition
  <2>3. ASSUME [from |-> from, to |-> to] \in Atomic!Edges
        PROVE  CanTransition(from, to)
    <3>1. PICK t \in ORDER_TRANSITIONS :
            [from |-> from, to |-> to] = [from |-> t.from, to |-> t.to]
      BY <2>1, <2>3
    <3>2. t.from = from /\ t.to = to
      BY <3>1
    <3> QED
      BY <3>2 DEF CanTransition
  <2> QED
    BY <2>2, <2>3
<1> QED
  BY <1>3, <1>4

LEMMA NetType == ASSUME NEW rows PROVE Atomic!Net(rows) \in -2..2
<1>1. \A from, to : Atomic!StockSign(from, to) \in -1..1
  BY SameTable, StockSignType
<1>2. \A k : Atomic!Sign(rows, k) \in -1..1
  BY <1>1 DEF Atomic!Sign
<1>3. Atomic!Sign(rows, 1) \in -1..1 /\ Atomic!Sign(rows, 2) \in -1..1
  BY <1>2
<1> QED
  BY <1>3 DEF Atomic!Net

LEMMA TakenType ==
    ASSUME NEW o \in Orders, NEW i \in Items PROVE Atomic!Taken(o, i) \in Nat
  BY ConstantsAssumption DEF Atomic!Taken

LEMMA ReturnableType ==
    ASSUME NEW o \in Orders, NEW i \in Items PROVE Atomic!Returnable(o, i) \in Nat
  BY ConstantsAssumption, TakenType DEF Atomic!Returnable

\* The lengths of a run.
LEMMA SmallLength ==
    ASSUME NEW n \in Nat
    PROVE  /\ n <= 1 => n = 0 \/ n = 1
           /\ n <= 2 => n = 0 \/ n = 1 \/ n = 2
  OBVIOUS

LEMMA TwoSteps ==
    ASSUME NEW n \in Nat, NEW m \in Nat, n + m <= 2
    PROVE  /\ n <= 2 /\ m <= 2
           /\ m >= 1 => n <= 1
           /\ n + (m - 1) <= 2 /\ (n + 1) + (m - 1) <= 2
  OBVIOUS

\* A transition more adds its sign.
LEMMA NetAppend ==
    ASSUME NEW rows, RunShape(rows), Len(rows) <= 1,
           NEW from, NEW to, CanTransition(from, to),
           rows # <<>> => rows[Len(rows)].to = from
    PROVE  LET e == [from |-> from, to |-> to] IN
           /\ RunShape(Append(rows, e))
           /\ Atomic!Net(Append(rows, e)) = Atomic!Net(rows) + StockSign(from, to)
           /\ Append(rows, e)[Len(Append(rows, e))].to = to
           /\ Len(Append(rows, e)) = Len(rows) + 1
<1>1. PICK e : e = [from |-> from, to |-> to]
  OBVIOUS
<1>2. /\ rows \in Seq(Atomic!Edges) /\ e \in Atomic!Edges
      /\ e.from = from /\ e.to = to
      /\ Atomic!StockSign(e.from, e.to) = StockSign(from, to)
      /\ StockSign(from, to) \in {-1, 0, 1}
  BY <1>1, SameTable, StockSignType DEF RunShape
<1>3. CASE Len(rows) = 0
  <2>1. Append(rows, e) = <<e>> /\ rows = <<>>
    BY <1>2, <1>3
  <2>2. RunShape(<<e>>)
    BY <1>2 DEF RunShape
  <2>3. /\ Atomic!Sign(<<e>>, 1) = StockSign(from, to) /\ Atomic!Sign(<<e>>, 2) = 0
        /\ Atomic!Sign(<<>>, 1) = 0 /\ Atomic!Sign(<<>>, 2) = 0
    BY <1>2 DEF Atomic!Sign
  <2>4. Atomic!Net(<<e>>) = StockSign(from, to) /\ Atomic!Net(<<>>) = 0
    BY <1>2, <2>3 DEF Atomic!Net
  <2> QED
    BY <1>1, <1>2, <2>1, <2>2, <2>4
<1>4. CASE Len(rows) = 1
  <2>0. rows # <<>> /\ rows[1].to = from
    BY <1>4
  <2>1. /\ Append(rows, e) \in Seq(Atomic!Edges) /\ Len(Append(rows, e)) = 2
        /\ Append(rows, e)[1] = rows[1] /\ Append(rows, e)[2] = e
        /\ rows[1].to = from
    <3>1. Append(rows, e) \in Seq(Atomic!Edges)
      BY <1>2
    <3>2. Len(Append(rows, e)) = Len(rows) + 1 /\ Append(rows, e)[Len(rows) + 1] = e
      BY <1>2
    <3>3. \A k \in 1..Len(rows) : Append(rows, e)[k] = rows[k]
      BY <1>2
    <3> QED
      BY <1>4, <2>0, <3>1, <3>2, <3>3
  <2>2. RunShape(Append(rows, e))
    BY <1>2, <2>1 DEF RunShape
  <2>3. /\ Atomic!Sign(rows, 2) = 0
        /\ Atomic!Sign(Append(rows, e), 1) = Atomic!Sign(rows, 1)
        /\ Atomic!Sign(Append(rows, e), 2) = StockSign(from, to)
    <3>1. 1 \in DOMAIN rows /\ 2 \notin DOMAIN rows
      BY <1>2, <1>4
    <3>2. 1 \in DOMAIN Append(rows, e) /\ 2 \in DOMAIN Append(rows, e)
      BY <2>1
    <3> QED
      BY <1>2, <2>1, <3>1, <3>2 DEF Atomic!Sign
  <2>4. Atomic!Sign(rows, 1) \in {-1, 0, 1}
    BY SameTable, StockSignType DEF Atomic!Sign
  <2>5. Atomic!Net(Append(rows, e)) = Atomic!Net(rows) + StockSign(from, to)
    BY <1>2, <2>3, <2>4 DEF Atomic!Net
  <2> QED
    BY <1>1, <1>2, <1>4, <2>1, <2>2, <2>5
<1>5. Len(rows) = 0 \/ Len(rows) = 1
  <2>1. Len(rows) \in Nat
    BY <1>2
  <2> QED
    BY <2>1, SmallLength
<1> QED
  BY <1>3, <1>4, <1>5

\* The shape of a run says it is one.
LEMMA ShapeIsRun == ASSUME NEW rows, RunShape(rows) PROVE rows \in Atomic!Runs
<1>1. rows \in Seq(Atomic!Edges) /\ Len(rows) \in Nat /\ Len(rows) <= 2
  BY DEF RunShape
<1>2. CASE Len(rows) = 0
  BY <1>1, <1>2 DEF Atomic!Runs
<1>3. CASE Len(rows) = 1
  <2>1. rows = <<rows[1]>> /\ rows[1] \in Atomic!Edges
    BY <1>1, <1>3
  <2> QED
    BY <2>1 DEF Atomic!Runs
<1>4. CASE Len(rows) = 2
  <2>1. rows = <<rows[1], rows[2]>> /\ rows[1] \in Atomic!Edges /\ rows[2] \in Atomic!Edges
    BY <1>1, <1>4
  <2>2. rows \in Atomic!Edges \X Atomic!Edges
    BY <2>1
  <2> QED
    BY <1>4, <2>2 DEF Atomic!Runs, RunShape
<1>5. Len(rows) = 0 \/ Len(rows) = 1 \/ Len(rows) = 2
  BY <1>1, SmallLength
<1> QED
  BY <1>2, <1>3, <1>4, <1>5
----------------------------------------------------------------------------
(* The steps of a request, and what it can account for after them.         *)

\* The plans handlers begin with: two steps at most, a restock first.
ShortPlan(plan) == Len(plan) <= 2 /\ (Len(plan) = 2 => plan[2] # "restock")

LEMMA ShortPlans ==
    /\ ShortPlan(<<>>)
    /\ \A a : ShortPlan(<<a>>)
    /\ \A a, b : b # "restock" => ShortPlan(<<a, b>>)
    /\ \A h \in AfterInit : ShortPlan(h) /\ ShortPlan(<<"pending">> \o h)
<1>1. ShortPlan(<<>>) /\ \A a : ShortPlan(<<a>>)
  BY DEF ShortPlan
<1>2. ASSUME NEW a, NEW b, b # "restock" PROVE ShortPlan(<<a, b>>)
  <2>1. Len(<<a, b>>) = 2 /\ <<a, b>>[2] = b
    OBVIOUS
  <2> QED
    BY <1>2, <2>1 DEF ShortPlan
<1>3. ShortPlan(<<"pending">> \o <<>>)
  <2>1. <<"pending">> \in Seq({"pending", "on_hold"})
    OBVIOUS
  <2> QED
    BY <1>1, <2>1, ConcatEmptySeq
<1>4. ShortPlan(<<"pending">> \o <<"on_hold">>)
  <2>1. /\ <<"pending">> \in Seq({"pending", "on_hold"})
        /\ <<"on_hold">> \in Seq({"pending", "on_hold"})
        /\ Len(<<"pending">>) = 1 /\ Len(<<"on_hold">>) = 1 /\ <<"on_hold">>[1] = "on_hold"
    OBVIOUS
  <2>2. PICK p : p = <<"pending">> \o <<"on_hold">>
    OBVIOUS
  <2>3. Len(p) = 2 /\ p[2] = <<"on_hold">>[1]
    BY <2>1, <2>2, ConcatProperties
  <2> QED
    BY <2>1, <2>2, <2>3 DEF ShortPlan
<1> QED
  BY <1>1, <1>2, <1>3, <1>4 DEF AfterInit

LEMMA BeginsShort ==
    ASSUME TypeOK, NEW r \in Requests, Arrives(r)
    PROVE  \E k \in Kinds, o \in Orders, pc \in {"cart", "order", "plan"},
             view \in OrderStatuses : \E plan :
               ShortPlan(plan) /\ Begin(r, NewRequest(k, o, pc, view, plan))
<1> USE DEF Kinds
<1>1. /\ \A o \in Orders : status[o] \in OrderStatuses
      /\ \A o \in keyed : o \in Orders
      /\ "draft" \in OrderStatuses
  BY DEF TypeOK, OrderStatuses
<1>2. CASE Submit(r)
  BY <1>1, <1>2, ShortPlans DEF Submit
<1>3. CASE AdminTransition(r)
  BY <1>1, <1>3, ShortPlans DEF AdminTransition
<1>4. CASE MarkShipped(r)
  BY <1>1, <1>4, ShortPlans DEF MarkShipped
<1>5. CASE PayLink(r)
  <2> DEFINE plan(o, hold) ==
        (IF status[o] = "failed" THEN <<"pending">> ELSE <<>>) \o
        (IF status[o] \in {"failed", "pending"} THEN hold ELSE <<>>)
  <2>1. PICK o \in keyed, hold \in AfterInit, pc \in {"order", "plan"} :
          Begin(r, NewRequest("paylink", o, pc, status[o], plan(o, hold)))
    BY <1>5 DEF PayLink
  <2>2. /\ <<>> \o <<>> = <<>> /\ <<>> \o <<"on_hold">> = <<"on_hold">>
    <3>1. <<>> \in Seq({"on_hold"}) /\ <<"on_hold">> \in Seq({"on_hold"})
      OBVIOUS
    <3> QED
      BY <3>1, ConcatEmptySeq
  <2>3. ShortPlan(plan(o, hold))
    <3>1. CASE status[o] = "failed"
      BY <3>1, ShortPlans
    <3>2. CASE status[o] = "pending"
      BY <2>2, <3>2, ShortPlans DEF AfterInit
    <3>3. CASE status[o] \notin {"failed", "pending"}
      BY <2>2, <3>3, ShortPlans
    <3> QED
      BY <3>1, <3>2, <3>3
  <2> HIDE DEF plan
  <2> QED
    BY <1>1, <2>1, <2>3
<1>6. CASE PaymentInit(r)
  BY <1>1, <1>6, ShortPlans DEF PaymentInit
<1>7. CASE Callback(r)
  BY <1>1, <1>7, ShortPlans DEF Callback, CallbackPlans
<1>8. CASE Refund(r)
  BY <1>1, <1>8, ShortPlans DEF Refund, RefundPlans
<1> QED
  BY <1>2, <1>3, <1>4, <1>5, <1>6, <1>7, <1>8 DEF Arrives

\* A request that begins has booked nothing.
LEMMA NewAccounts ==
    ASSUME NEW k, NEW o \in Orders, NEW pc \in {"cart", "order", "plan"}, NEW view,
           NEW plan, Len(plan) \in Nat, ShortPlan(plan)
    PROVE  Accounts(NewRequest(k, o, pc, view, plan))
<1>1. PICK q : q = NewRequest(k, o, pc, view, plan)
  OBVIOUS
<1>2. /\ q.rows = <<>> /\ q.plan = plan /\ q.pc = pc /\ q.order = o
      /\ \A i \in Items : q.hold[i] = 0 /\ q.delta[i] = 0
  BY <1>1 DEF NewRequest, Zero
<1>3. RunShape(<<>>) /\ Len(<<>>) = 0
  BY DEF RunShape
<1>4. Atomic!Net(<<>>) = 0
  BY DEF Atomic!Net, Atomic!Sign
<1>5. PlanShape(q)
  BY <1>2, <1>3 DEF PlanShape, ShortPlan
<1>6. ASSUME NEW i \in Items PROVE Balances(q, i)
  <2>1. UnderWay(q, i) = 0 /\ Returned(q, i) = 0
    BY <1>2 DEF UnderWay, Returned
  <2> QED
    BY <1>2, <1>4, <2>1, TakenType, ReturnableType DEF Balances
<1> QED
  BY <1>1, <1>2, <1>3, <1>5, <1>6 DEF Accounts

\* What the body of a request is made of.
LEMMA Parts ==
    ASSUME TypeOK, RequestShape, NEW r \in Requests, req[r].pc # "idle"
    PROVE  /\ req[r] \in Request /\ req[r].order \in Orders
           /\ req[r].plan \in Seq(PlanSteps) /\ Len(req[r].plan) \in Nat
           /\ req[r].rows \in Seq(HistoryRow) /\ Len(req[r].rows) \in Nat
           /\ \A i \in Items : req[r].hold[i] \in Int /\ req[r].delta[i] \in Int
<1>1. req[r] \in Request /\ req[r].order \in Orders
  BY DEF TypeOK, RequestShape
<1> QED
  BY <1>1 DEF Request

\* A step that books nothing keeps the accounts.
LEMMA SameBooks ==
    ASSUME NEW q, NEW p, Accounts(q), PlanShape(p), p.rows = q.rows, p.order = q.order,
           p.hold = q.hold, p.delta = q.delta,
           \A i \in Items : /\ UnderWay(p, i) = UnderWay(q, i)
                            /\ AwaitsRestock(p, i) => AwaitsRestock(q, i)
    PROVE  Accounts(p)
<1>1. ASSUME NEW i \in Items PROVE Balances(p, i)
  <2>1. Balances(q, i) /\ Returned(p, i) = Returned(q, i)
    BY DEF Accounts, Returned
  <2> QED
    BY <2>1 DEF Balances
<1> QED
  BY <1>1 DEF Accounts

\* What is left of a plan after its first step.
LEMMA TailShape ==
    ASSUME NEW plan \in Seq(PlanSteps), plan # <<>>, ShortPlan(plan)
    PROVE  /\ Len(Tail(plan)) = Len(plan) - 1 /\ Len(plan) \in Nat
           /\ Len(Tail(plan)) <= 1 /\ Len(Tail(plan)) # 2
           /\ Tail(plan) # <<>> => Head(Tail(plan)) # "restock"
<1>1. /\ Tail(plan) \in Seq(PlanSteps) /\ Len(Tail(plan)) = Len(plan) - 1
      /\ Len(plan) \in Nat /\ Len(plan) >= 1
  OBVIOUS
<1>2. Len(plan) <= 2
  BY DEF ShortPlan
<1>3. ASSUME Tail(plan) # <<>> PROVE Head(Tail(plan)) # "restock"
  <2>1. Len(Tail(plan)) # 0
    BY <1>1, <1>3
  <2>2. Len(plan) = 2
    BY <1>1, <1>2, <2>1, SmallLength
  <2>3. Head(Tail(plan)) = plan[2]
    BY <1>1, <2>2
  <2> QED
    BY <2>2, <2>3 DEF ShortPlan
<1>4. Len(Tail(plan)) <= 1 /\ Len(Tail(plan)) # 2
  <2>1. PICK n : n = Len(Tail(plan))
    OBVIOUS
  <2>2. n \in Nat /\ n <= 1
    BY <1>1, <1>2, <2>1
  <2>3. n # 2
    BY <2>2
  <2> QED
    BY <2>1, <2>2, <2>3
<1> QED
  BY <1>1, <1>3, <1>4

LEMMA LockAccounts ==
    ASSUME TypeOK, RequestShape, AccountsKept, NEW r \in Requests,
           LockCart(r) \/ LockOrder(r), ~Rollback(r)
    PROVE  Accounts(req'[r])
<1>1. req[r].pc \in {"cart", "order"} /\ req[r].rows = <<>> /\ Accounts(req[r])
  BY DEF LockCart, LockOrder, RequestShape, AccountsKept
<1>2. req[r] \in Request /\ Len(req[r].plan) \in Nat
  BY <1>1, Parts
<1>3. PICK p : p = req'[r]
  OBVIOUS
<1>4. /\ p.pc \in {"order", "plan"} /\ p.plan \in {req[r].plan, <<>>}
      /\ p.rows = <<>> /\ p.order = req[r].order
      /\ p.hold = req[r].hold /\ p.delta = req[r].delta
  <2>1. CASE LockCart(r)
    <3>1. p = [req[r] EXCEPT !.pc = "order"]
      BY <1>3, <2>1 DEF LockCart, TypeOK
    <3> QED
      BY <1>1, <1>2, <3>1 DEF Request
  <2>2. CASE LockOrder(r)
    <3>1. PICK plan : plan = PlanAfterLock(req[r])
      OBVIOUS
    <3>2. plan \in {req[r].plan, <<>>}
      BY <3>1 DEF PlanAfterLock
    <3>3. p = [req[r] EXCEPT !.pc = "plan", !.plan = plan, !.view = ViewAfterLock(req[r])]
      BY <1>3, <2>2, <3>1 DEF LockOrder, TypeOK
    <3> QED
      BY <1>1, <1>2, <3>2, <3>3 DEF Request
  <2> QED
    BY <2>1, <2>2
<1>5. PlanShape(p)
  <2>1. Len(<<>>) = 0
    OBVIOUS
  <2> QED
    BY <1>1, <1>4, <2>1 DEF Accounts, PlanShape
<1>6. \A i \in Items : /\ UnderWay(p, i) = UnderWay(req[r], i)
                       /\ AwaitsRestock(p, i) => AwaitsRestock(req[r], i)
  BY <1>1, <1>4 DEF UnderWay, AwaitsRestock
<1> QED
  BY <1>1, <1>3, <1>4, <1>5, <1>6, SameBooks

LEMMA BeginStepAccounts ==
    ASSUME TypeOK, RequestShape, AccountsKept, NEW r \in Requests, BeginStep(r)
    PROVE  Accounts(req'[r])
<1>1. PICK todo \in LinesMoved(req[r]) :
        req' = [req EXCEPT ![r] = [req[r] EXCEPT !.pc = "effects", !.todo = todo]]
  BY DEF BeginStep
<1>2. /\ req[r].pc = "plan" /\ req[r].plan # <<>> /\ Accounts(req[r])
      /\ req[r] \in Request /\ req[r].order \in Orders
  BY Parts DEF BeginStep, AccountsKept
<1>3. PICK p : p = req'[r]
  OBVIOUS
<1>4. /\ p.pc = "effects" /\ p.todo = todo /\ p.plan = req[r].plan /\ p.view = req[r].view
      /\ p.rows = req[r].rows /\ p.order = req[r].order
      /\ p.hold = req[r].hold /\ p.delta = req[r].delta
  BY <1>1, <1>2, <1>3 DEF TypeOK, Request
<1>5. PlanShape(p)
  BY <1>2, <1>4 DEF Accounts, PlanShape
<1>6. ASSUME NEW i \in Items PROVE UnderWay(p, i) = 0
  <2> SUFFICES ASSUME Head(p.plan) # "restock", i \notin todo
               PROVE  StepSign(p) * Atomic!Taken(p.order, i) = 0
    BY <1>4 DEF UnderWay
  <2>1. StepSign(p) = StepSign(req[r]) /\ Head(req[r].plan) # "restock"
    BY <1>4 DEF StepSign
  <2>2. Atomic!Taken(p.order, i) \in Nat /\ StepSign(p) \in {-1, 0, 1}
    BY <1>2, <1>4, TakenType, StepSignType
  <2>3. CASE StepSign(p) = 0
    BY <2>2, <2>3
  <2>4. CASE StepSign(p) # 0
    <3>1. todo = Lines(p.order)
      BY <1>1, <1>4, <2>1, <2>4 DEF LinesMoved
    <3>2. Quantity[p.order][i] = 0
      BY <1>2, <1>4, <3>1, ConstantsAssumption DEF Lines
    <3>3. Atomic!Taken(p.order, i) = 0
      BY <3>2 DEF Atomic!Taken
    <3> QED
      BY <2>2, <3>3
  <2> QED
    BY <2>3, <2>4
<1>7. \A i \in Items : /\ UnderWay(p, i) = UnderWay(req[r], i)
                       /\ AwaitsRestock(p, i) => AwaitsRestock(req[r], i)
  BY <1>2, <1>4, <1>6 DEF UnderWay, AwaitsRestock
<1> QED
  BY <1>2, <1>3, <1>4, <1>5, <1>7, SameBooks

LEMMA EndRestockAccounts ==
    ASSUME TypeOK, RequestShape, AccountsKept, NEW r \in Requests, EndRestock(r)
    PROVE  Accounts(req'[r])
<1>1. /\ req[r].pc = "effects" /\ req[r].todo = {} /\ req[r].plan # <<>>
      /\ Head(req[r].plan) = "restock" /\ Accounts(req[r])
      /\ req[r] \in Request /\ req[r].plan \in Seq(PlanSteps)
      /\ Len(req[r].rows) \in Nat /\ Len(req[r].plan) \in Nat
  BY Parts DEF EndRestock, AccountsKept, RequestShape
<1>2. PICK p : p = req'[r]
  OBVIOUS
<1>3. /\ p.pc = "plan" /\ p.plan = Tail(req[r].plan) /\ p.view = req[r].view
      /\ p.rows = req[r].rows /\ p.order = req[r].order
      /\ p.hold = req[r].hold /\ p.delta = req[r].delta
  BY <1>1, <1>2 DEF EndRestock, TypeOK, Request
<1>4. ShortPlan(req[r].plan) /\ Len(req[r].rows) + Len(req[r].plan) <= 2
  <2>1. PlanShape(req[r])
    BY <1>1 DEF Accounts
  <2> QED
    BY <1>1, <2>1, TwoSteps DEF PlanShape, ShortPlan
<1>5. /\ Len(p.plan) = Len(req[r].plan) - 1 /\ Len(req[r].plan) \in Nat
      /\ Len(p.plan) <= 1 /\ Len(p.plan) # 2
      /\ p.plan # <<>> => Head(p.plan) # "restock"
  BY <1>1, <1>3, <1>4, TailShape
<1>6. PlanShape(p)
  <2>1. Len(p.rows) + Len(p.plan) <= 2 /\ Len(p.plan) # 2
    <3>1. Len(p.rows) + Len(p.plan) <= 2
      BY <1>1, <1>3, <1>4, <1>5, TwoSteps
    <3>2. Len(p.plan) # 2
      BY <1>5
    <3> QED
      BY <3>1, <3>2
  <2>2. p.rows # <<>> => p.rows[Len(p.rows)].to = p.view
    BY <1>1, <1>3 DEF Accounts, PlanShape
  <2> QED
    BY <2>1, <2>2 DEF PlanShape
<1>7. \A i \in Items : /\ UnderWay(p, i) = UnderWay(req[r], i)
                       /\ AwaitsRestock(p, i) => AwaitsRestock(req[r], i)
  BY <1>1, <1>3, <1>5 DEF UnderWay, AwaitsRestock
<1> QED
  BY <1>1, <1>2, <1>3, <1>6, <1>7, SameBooks

\* Writing the status turns the transition under way into a row.
LEMMA WriteStatusAccounts ==
    ASSUME TypeOK, RequestShape, AccountsKept, NEW r \in Requests, WriteStatus(r)
    PROVE  Accounts(req'[r])
<1>1. /\ req[r].pc = "effects" /\ req[r].todo = {} /\ req[r].plan # <<>>
      /\ Head(req[r].plan) # "restock" /\ Accounts(req[r])
      /\ CanTransition(req[r].view, Head(req[r].plan))
      /\ req[r] \in Request /\ req[r].plan \in Seq(PlanSteps) /\ req[r].order \in Orders
      /\ Len(req[r].rows) \in Nat /\ Len(req[r].plan) \in Nat
      /\ \A i \in Items : req[r].hold[i] \in Int /\ req[r].delta[i] \in Int
  BY Parts DEF WriteStatus, AccountsKept, RequestShape
<1>2. PICK p : p = req'[r]
  OBVIOUS
<1>3. PICK to : to = Head(req[r].plan)
  OBVIOUS
<1>4. /\ p.pc = "plan" /\ p.plan = Tail(req[r].plan) /\ p.view = to
      /\ p.rows = Append(req[r].rows, [from |-> req[r].view, to |-> to])
      /\ p.order = req[r].order
      /\ p.hold = req[r].hold /\ p.delta = req[r].delta
  BY <1>1, <1>2, <1>3 DEF WriteStatus, TypeOK, Request
<1>5. /\ ShortPlan(req[r].plan) /\ Len(req[r].rows) + Len(req[r].plan) <= 2
      /\ RunShape(req[r].rows)
      /\ req[r].rows # <<>> => req[r].rows[Len(req[r].rows)].to = req[r].view
  <2>1. PlanShape(req[r]) /\ RunShape(req[r].rows)
    BY <1>1 DEF Accounts
  <2> QED
    BY <1>1, <2>1, TwoSteps DEF PlanShape, ShortPlan
<1>6. /\ Len(p.plan) = Len(req[r].plan) - 1
      /\ Len(p.plan) <= 1 /\ Len(p.plan) # 2
      /\ p.plan # <<>> => Head(p.plan) # "restock"
  BY <1>1, <1>4, <1>5, TailShape
<1>7. Len(req[r].rows) <= 1
  <2>1. Len(req[r].plan) >= 1
    BY <1>1
  <2> QED
    BY <1>1, <1>5, <2>1, TwoSteps
<1>8. /\ RunShape(p.rows) /\ p.rows[Len(p.rows)].to = to
      /\ Len(p.rows) = Len(req[r].rows) + 1
      /\ Atomic!Net(p.rows) = Atomic!Net(req[r].rows) + StockSign(req[r].view, to)
  BY <1>1, <1>3, <1>4, <1>5, <1>7, NetAppend
<1>9. PlanShape(p)
  <2>1. Len(p.rows) + Len(p.plan) <= 2
    BY <1>1, <1>5, <1>6, <1>8, TwoSteps
  <2> QED
    BY <1>4, <1>6, <1>8, <2>1 DEF PlanShape
<1>10. ASSUME NEW i \in Items PROVE Balances(p, i)
  <2>1. PICK n, s, t : /\ n = Atomic!Net(req[r].rows) /\ s = StockSign(req[r].view, to)
                       /\ t = Atomic!Taken(req[r].order, i)
    OBVIOUS
  <2>2. n \in -2..2 /\ s \in {-1, 0, 1} /\ t \in Nat
    BY <1>1, <2>1, NetType, StockSignType, TakenType
  <2>3. UnderWay(req[r], i) = s * t
    BY <1>1, <1>3, <2>1 DEF UnderWay, StepSign
  <2>4. req[r].hold[i] = -(n * t + s * t)
    BY <1>1, <2>1, <2>3 DEF Accounts, Balances
  <2>5. n * t + s * t = (n + s) * t
    BY <2>2
  <2>6. UnderWay(p, i) = 0 /\ ~AwaitsRestock(p, i) /\ Returned(p, i) = Returned(req[r], i)
    BY <1>4, <1>6 DEF UnderWay, AwaitsRestock, Returned
  <2>7. p.hold[i] = -((n + s) * t + 0)
    BY <1>4, <2>2, <2>4, <2>5
  <2> QED
    BY <1>1, <1>4, <1>8, <2>1, <2>6, <2>7 DEF Accounts, Balances
<1> QED
  BY <1>2, <1>8, <1>9, <1>10 DEF Accounts

\* Moving a line adds the pieces of that line.
LEMMA MoveStockAccounts ==
    ASSUME TypeOK, RequestShape, AccountsKept, NEW r \in Requests, NEW i \in Items,
           MoveStock(r, i)
    PROVE  Accounts(req'[r])
<1>1. /\ req[r].pc = "effects" /\ i \in req[r].todo /\ req[r].plan # <<>>
      /\ Accounts(req[r]) /\ req[r] \in Request /\ req[r].order \in Orders
      /\ \A j \in Items : req[r].hold[j] \in Int /\ req[r].delta[j] \in Int
  BY Parts DEF MoveStock, AccountsKept, RequestShape
<1>2. PICK p : p = req'[r]
  OBVIOUS
<1>3. PICK n \in Pieces(req[r], i) : MovePieces(r, i, n)
  BY DEF MoveStock
<1>4. PICK d : d = IF i \in Unmanaged THEN 0 ELSE StepSign(req[r]) * n
  OBVIOUS
<1>5. PICK t : t = Atomic!Taken(req[r].order, i)
  OBVIOUS
<1>6. t \in Nat /\ n \in Nat /\ StepSign(req[r]) \in {-1, 0, 1}
  BY <1>1, <1>3, <1>5, TakenType, PiecesType, StepSignType
<1>7. d \in Int
  BY <1>4, <1>6
<1>8. /\ p.pc = "effects" /\ p.todo = req[r].todo \ {i} /\ p.plan = req[r].plan
      /\ p.view = req[r].view /\ p.rows = req[r].rows /\ p.order = req[r].order
      /\ p.delta = [req[r].delta EXCEPT ![i] = @ + d]
      /\ p.hold = [req[r].hold EXCEPT ![i] =
                       IF Head(req[r].plan) = "restock" THEN @ ELSE @ - d]
  BY <1>1, <1>2, <1>3, <1>4 DEF MovePieces, TypeOK, Request
<1>9. /\ p.delta[i] = req[r].delta[i] + d
      /\ p.hold[i] = IF Head(req[r].plan) = "restock"
                     THEN req[r].hold[i] ELSE req[r].hold[i] - d
      /\ \A j \in Items \ {i} : p.delta[j] = req[r].delta[j] /\ p.hold[j] = req[r].hold[j]
  <2>1. req[r].delta \in [Items -> Int] /\ req[r].hold \in [Items -> Int]
    BY <1>1 DEF Request
  <2> QED
    BY <1>8, <2>1
<1>10. RunShape(p.rows) /\ PlanShape(p) /\ StepSign(p) = StepSign(req[r])
  BY <1>1, <1>8 DEF Accounts, PlanShape, StepSign
<1>11. ASSUME NEW j \in Items \ {i} PROVE Balances(p, j)
  <2>1. /\ UnderWay(p, j) = UnderWay(req[r], j) /\ Returned(p, j) = Returned(req[r], j)
        /\ AwaitsRestock(p, j) => AwaitsRestock(req[r], j)
    BY <1>1, <1>8, <1>9, <1>10 DEF UnderWay, Returned, AwaitsRestock
  <2>2. Balances(req[r], j)
    BY <1>1 DEF Accounts
  <2> QED
    BY <1>8, <1>9, <2>1, <2>2 DEF Balances
<1>12. Balances(p, i)
  <2>1. /\ req[r].hold[i] = -(Atomic!Net(req[r].rows) * t + UnderWay(req[r], i))
        /\ 0 <= Returned(req[r], i)
        /\ Returned(req[r], i) <= Atomic!Returnable(req[r].order, i)
        /\ AwaitsRestock(req[r], i) => Returned(req[r], i) = 0
    BY <1>1, <1>5 DEF Accounts, Balances
  <2>2. UnderWay(req[r], i) = 0 /\ ~AwaitsRestock(p, i)
    BY <1>1, <1>8 DEF UnderWay, AwaitsRestock
  <2>3. PICK m : m = Atomic!Net(req[r].rows) * t
    OBVIOUS
  <2>4. m \in Int
    BY <1>6, <2>3, NetType
  <2>5. CASE Head(req[r].plan) = "restock"
    <3>1. StepSign(req[r]) = 1 /\ AwaitsRestock(req[r], i)
      BY <1>1, <2>5 DEF StepSign, AwaitsRestock
    <3>2. 0 <= d /\ d <= Atomic!Returnable(req[r].order, i)
      <4>1. n \in 1..(MaxEntries * Quantity[req[r].order][i])
        BY <1>3, <2>5 DEF Pieces
      <4>2. i \notin Unmanaged =>
              Atomic!Returnable(req[r].order, i) = MaxEntries * Quantity[req[r].order][i]
        BY DEF Atomic!Taken, Atomic!Returnable
      <4>3. Atomic!Returnable(req[r].order, i) \in Nat
        BY <1>1, ReturnableType
      <4>4. d = IF i \in Unmanaged THEN 0 ELSE n
        BY <1>4, <1>6, <3>1
      <4> QED
        BY <1>6, <4>1, <4>2, <4>3, <4>4
    <3>3. UnderWay(p, i) = 0
      BY <1>8, <2>5 DEF UnderWay
    <3>4. Returned(p, i) = d
      BY <1>1, <1>7, <1>9, <2>1, <2>5, <3>1 DEF Returned
    <3> QED
      BY <1>5, <1>8, <1>9, <2>1, <2>2, <2>5, <3>2, <3>3, <3>4 DEF Balances
  <2>6. CASE Head(req[r].plan) # "restock"
    <3>1. d = StepSign(req[r]) * t
      <4>1. n = Quantity[req[r].order][i]
        BY <1>3, <2>6 DEF Pieces
      <4> QED
        BY <1>4, <1>5, <1>6, <4>1 DEF Atomic!Taken
    <3>2. UnderWay(p, i) = d
      BY <1>5, <1>8, <1>10, <2>6, <3>1 DEF UnderWay
    <3>3. p.hold[i] = -(m + d)
      BY <1>1, <1>7, <1>9, <2>1, <2>2, <2>3, <2>4, <2>6
    <3>4. Returned(p, i) = Returned(req[r], i)
      BY <1>1, <1>7, <1>9, <2>6 DEF Returned
    <3> QED
      BY <1>5, <1>8, <2>1, <2>2, <2>3, <3>2, <3>3, <3>4 DEF Balances
  <2> QED
    BY <2>5, <2>6
<1> QED
  BY <1>2, <1>10, <1>11, <1>12 DEF Accounts

\* Every step of a request that goes on keeps its accounts.
LEMMA AccountsStep ==
    ASSUME IInv, AccountsKept, NEW r \in Requests, Moves(r)
    PROVE  AccountsKept'
<1>1. TypeOK /\ RequestShape
  BY DEF IInv
<1>2. ASSUME NEW p \in Requests, p # r, req'[p].pc # "idle" PROVE Accounts(req'[p])
  BY <1>1, <1>2, OthersUntouched DEF AccountsKept
<1>3. ASSUME req'[r].pc # "idle" PROVE Accounts(req'[r])
  <2>1. CASE Rollback(r) \/ Commit(r)
    BY <1>1, <1>3, <2>1, EndsEmpty DEF Idle, NewRequest
  <2>2. CASE Arrives(r)
    <3>0. PICK k \in Kinds, o \in Orders, pc \in {"cart", "order", "plan"},
               view \in OrderStatuses : \E plan :
                 ShortPlan(plan) /\ Begin(r, NewRequest(k, o, pc, view, plan))
      BY <1>1, <2>2, BeginsShort
    <3>1. PICK plan : ShortPlan(plan) /\ Begin(r, NewRequest(k, o, pc, view, plan))
      BY <3>0
    <3>2. req'[r] = NewRequest(k, o, pc, view, plan)
      BY <1>1, <3>1 DEF Begin, TypeOK
    <3>3. TypeOK'
      BY <1>1, <2>2, ArrivesType
    <3>4. Len(plan) \in Nat
      <4>1. req'[r].plan \in Seq(PlanSteps) /\ req'[r].plan = plan
        BY <3>2, <3>3 DEF TypeOK, Request, NewRequest
      <4> QED
        BY <4>1
    <3> QED
      BY <3>1, <3>2, <3>4, NewAccounts
  <2>3. CASE (LockCart(r) \/ LockOrder(r)) /\ ~Rollback(r)
    BY <1>1, <2>3, LockAccounts
  <2>4. CASE BeginStep(r)
    BY <1>1, <2>4, BeginStepAccounts
  <2>5. CASE \E i \in Items : MoveStock(r, i)
    BY <1>1, <2>5, MoveStockAccounts
  <2>6. CASE WriteStatus(r) \/ EndRestock(r)
    BY <1>1, <2>6, WriteStatusAccounts, EndRestockAccounts
  <2> QED
    BY <2>1, <2>2, <2>3, <2>4, <2>5, <2>6
       DEF Moves, Serve, IllegalTransition, StockRefused, DeadlockVictim, RequestFails
<1> QED
  BY <1>2, <1>3 DEF AccountsKept

\* A commit is one step of the abstract specification.
LEMMA CommitTransacts ==
    ASSUME IInv, AccountsKept, NEW r \in Requests, Commit(r)
    PROVE  Atomic!Next
<1>1. /\ req[r].pc = "plan" /\ req[r].order \in Orders /\ Accounts(req[r])
      /\ \A i \in Items : req[r].hold[i] \in Int /\ req[r].delta[i] \in Int
  BY Parts DEF Commit, AccountsKept, IInv
<1>0. PICK o \in Orders : o = req[r].order
  BY <1>1
<1>2. PICK run : o = req[r].order /\ run = req[r].rows
  BY <1>0
<1>3. PICK restock : restock = [i \in Items |-> Returned(req[r], i)]
  OBVIOUS
<1>4. ASSUME NEW i \in Items
      PROVE  /\ req[r].hold[i] = -(Atomic!Net(run) * Atomic!Taken(o, i))
             /\ req[r].delta[i] = Atomic!Net(run) * Atomic!Taken(o, i) + restock[i]
             /\ restock[i] \in 0..Atomic!Returnable(o, i)
             /\ Atomic!Net(run) * Atomic!Taken(o, i) \in Int
  <2>1. UnderWay(req[r], i) = 0
    BY <1>1 DEF UnderWay
  <2>2. PICK m : m = Atomic!Net(run) * Atomic!Taken(o, i)
    OBVIOUS
  <2>3. m \in Int /\ Atomic!Returnable(o, i) \in Nat
    BY <2>2, NetType, TakenType, ReturnableType
  <2>4. /\ req[r].hold[i] = -(m + 0)
        /\ 0 <= Returned(req[r], i) /\ Returned(req[r], i) <= Atomic!Returnable(o, i)
    BY <1>1, <1>2, <2>1, <2>2 DEF Accounts, Balances
  <2>5. restock[i] = req[r].delta[i] + req[r].hold[i]
    BY <1>3 DEF Returned
  <2> QED
    BY <1>1, <1>3, <2>2, <2>3, <2>4, <2>5
<1>5. run \in Atomic!Runs
  BY <1>1, <1>2, ShapeIsRun DEF Accounts
<1>6. restock \in Atomic!Restocks(o)
  <2>1. restock \in [Items -> UNION {0..Atomic!Returnable(o, i) : i \in Items}]
    BY <1>3, <1>4
  <2>2. \A i \in Items : restock[i] <= Atomic!Returnable(o, i)
    BY <1>4, ReturnableType
  <2> QED
    BY <2>1, <2>2 DEF Atomic!Restocks
<1>7. ASSUME NEW i \in Items
      PROVE  /\ stock[i] \in Int /\ restock[i] \in Int
             /\ stock'[i] = stock[i] + req[r].delta[i]
             /\ ledger'[i] = ledger[i] + req[r].delta[i]
             /\ i \notin Backordered => stock'[i] >= 0
  <2>1. WritesUnderLock /\ NoOversell /\ stock \in [Items -> Int]
    BY DEF IInv, StockInv, TypeOK
  <2>2. stock'[i] = IF owner[i] = r THEN req[r].put[i] ELSE stock[i]
    BY DEF Commit
  <2>3. stock'[i] = stock[i] + req[r].delta[i]
    BY <1>1, <2>1, <2>2 DEF WritesUnderLock
  <2>4. i \notin Backordered => stock'[i] >= 0
    BY <2>1, <2>2 DEF WritesUnderLock, NoOversell
  <2> QED
    BY <1>4, <2>1, <2>3, <2>4, ReturnableType DEF Commit
<1>8. stock' = [i \in Items |->
                  stock[i] + Atomic!Net(run) * Atomic!Taken(o, i) + restock[i]]
  <2>1. stock' = [i \in Items |-> stock'[i]]
    BY DEF Commit
  <2>2. ASSUME NEW i \in Items
        PROVE  stock'[i] = stock[i] + Atomic!Net(run) * Atomic!Taken(o, i) + restock[i]
    <3>1. PICK m : m = Atomic!Net(run) * Atomic!Taken(o, i)
      OBVIOUS
    <3> QED
      BY <1>4, <1>7, <3>1
  <2> QED
    BY <2>1, <2>2
<1>9. ledger' = [i \in Items |->
                  ledger[i] + Atomic!Net(run) * Atomic!Taken(o, i) + restock[i]]
  <2>1. ledger' = [i \in Items |-> ledger'[i]]
    BY DEF Commit
  <2>2. ASSUME NEW i \in Items
        PROVE  ledger'[i] = ledger[i] + Atomic!Net(run) * Atomic!Taken(o, i) + restock[i]
    <3>1. PICK m : m = Atomic!Net(run) * Atomic!Taken(o, i)
      OBVIOUS
    <3>2. ledger[i] \in Int
      BY DEF IInv, TypeOK
    <3> QED
      BY <1>4, <1>7, <3>1, <3>2
  <2> QED
    BY <2>1, <2>2
<1>10. held' = [held EXCEPT ![o] =
                   [i \in Items |-> held[o][i] - Atomic!Net(run) * Atomic!Taken(o, i)]]
  <2>1. \A i \in Items : held[o][i] \in Int
    BY DEF IInv, TypeOK
  <2>2. ASSUME NEW i \in Items
        PROVE  held[o][i] + req[r].hold[i]
                 = held[o][i] - Atomic!Net(run) * Atomic!Taken(o, i)
    <3>1. PICK m : m = Atomic!Net(run) * Atomic!Taken(o, i)
      OBVIOUS
    <3>2. m \in Int /\ req[r].hold[i] = -m
      BY <1>4, <3>1
    <3> QED
      BY <2>1, <3>1, <3>2
  <2>3. [i \in Items |-> held[o][i] + req[r].hold[i]]
          = [i \in Items |-> held[o][i] - Atomic!Net(run) * Atomic!Taken(o, i)]
    BY <2>2
  <2>4. held' = [held EXCEPT ![o] = [i \in Items |-> held[o][i] + req[r].hold[i]]]
    BY <1>2 DEF Commit
  <2> QED
    BY <2>3, <2>4
<1>11. history' = [history EXCEPT ![o] = @ \o run]
  BY <1>2 DEF Commit
<1>12. status' = IF run = <<>> THEN status
                 ELSE [status EXCEPT ![o] = run[Len(run)].to]
  <2>1. run # <<>> => run[Len(run)].to = req[r].view
    BY <1>1, <1>2 DEF Accounts, PlanShape
  <2> QED
    BY <1>2, <2>1 DEF Commit
<1>13. \A i \in Items \ Backordered :
          stock[i] + Atomic!Net(run) * Atomic!Taken(o, i) + restock[i] >= 0
  <2> SUFFICES ASSUME NEW i \in Items \ Backordered
               PROVE  stock[i] + Atomic!Net(run) * Atomic!Taken(o, i) + restock[i] >= 0
    OBVIOUS
  <2>1. PICK m : m = Atomic!Net(run) * Atomic!Taken(o, i)
    OBVIOUS
  <2> QED
    BY <1>4, <1>7, <2>1
<1>14. Atomic!Transact(o, run)
  BY <1>6, <1>8, <1>9, <1>10, <1>11, <1>12, <1>13 DEF Atomic!Transact
<1> QED
  BY <1>5, <1>14 DEF Atomic!Next
----------------------------------------------------------------------------
(* The theorems.                                                           *)

LEMMA NextAccounts == IInv /\ AccountsKept /\ [Next]_vars => AccountsKept'
<1> SUFFICES ASSUME IInv, AccountsKept, [Next]_vars PROVE AccountsKept'
  OBVIOUS
<1>1. CASE UNCHANGED vars
  BY <1>1 DEF vars, AccountsKept
<1>2. CASE Next
  BY <1>2, AccountsStep DEF Next, Moves
<1> QED
  BY <1>1, <1>2

LEMMA InitAccounts == Init => AccountsKept
  BY DEF Init, AccountsKept, Idle, NewRequest

\* Whatever a request has booked is accounted for by the transitions it wrote and
\* the one under way, plus what a refund put back (order_state_machine.ts:44-106).
THEOREM AccountsInvariant == Spec => []AccountsKept
<1> QED
  BY Invariance, InitAccounts, NextAccounts, PTL DEF Spec

\* The database looks as if every request were one step that applies the effects
\* of its transitions (order_state_machine.ts:24-34).
THEOREM RequestsAreAtomic == Spec => ImplementsAtomicOrders
<1>1. Init => Atomic!Init
  BY DEF Init, Atomic!Init, Zero
<1>2. IInv /\ AccountsKept /\ [Next]_vars => [Atomic!Next]_(Atomic!abstractVars)
  <2> SUFFICES ASSUME IInv, AccountsKept, [Next]_vars
               PROVE  Atomic!Next \/ UNCHANGED Atomic!abstractVars
    OBVIOUS
  <2>1. CASE UNCHANGED vars
    BY <2>1 DEF vars, Atomic!abstractVars
  <2>2. CASE Next
    <3>1. PICK r \in Requests : Moves(r)
      BY <2>2 DEF Next, Moves
    <3>2. CASE Commit(r)
      BY <3>2, CommitTransacts
    <3>3. CASE UNCHANGED db
      BY <3>3 DEF db, Atomic!abstractVars
    <3> QED
      BY <3>1, <3>2, <3>3, MoveKinds DEF Rollback, IInv
  <2> QED
    BY <2>1, <2>2
<1> QED
  BY <1>1, <1>2, Invariance, AccountsInvariant, PTL
     DEF Spec, ImplementsAtomicOrders, Atomic!Spec
----------------------------------------------------------------------------
(* The audit trail and the ledger.                                         *)

\* The rows of a trail with a stock effect, and what they hold together.
RowsOf(h, sign) == {k \in DOMAIN h : StockSign(h[k].from, h[k].to) = sign}

Holding(h) == Cardinality(RowsOf(h, -1)) - Cardinality(RowsOf(h, 1))

LEMMA RowsFinite ==
    ASSUME NEW h \in Seq(HistoryRow), NEW sign
    PROVE  IsFiniteSet(RowsOf(h, sign)) /\ Cardinality(RowsOf(h, sign)) \in Nat
<1>1. DOMAIN h = 1..Len(h) /\ Len(h) \in Nat
  OBVIOUS
<1>2. IsFiniteSet(1..Len(h))
  BY <1>1, FS_Interval
<1>3. RowsOf(h, sign) \subseteq 1..Len(h)
  BY <1>1 DEF RowsOf
<1>4. IsFiniteSet(RowsOf(h, sign))
  BY <1>2, <1>3, FS_Subset
<1> QED
  BY <1>4, FS_CardinalityType

\* One row more takes or gives back one portion.
LEMMA HoldingAppend ==
    ASSUME NEW h \in Seq(HistoryRow), NEW e \in HistoryRow
    PROVE  /\ Append(h, e) \in Seq(HistoryRow)
           /\ Holding(h) \in Int
           /\ Holding(Append(h, e)) = Holding(h) - StockSign(e.from, e.to)
<1>1. PICK g, m : g = Append(h, e) /\ m = Len(h) + 1
  OBVIOUS
<1>2. /\ g \in Seq(HistoryRow) /\ m \in Nat /\ m \notin DOMAIN h
      /\ DOMAIN g = DOMAIN h \cup {m} /\ g[m] = e
      /\ \A k \in DOMAIN h : g[k] = h[k]
  BY <1>1
<1>3. ASSUME NEW sign
      PROVE  RowsOf(g, sign) = IF StockSign(e.from, e.to) = sign
                               THEN RowsOf(h, sign) \cup {m} ELSE RowsOf(h, sign)
  BY <1>2 DEF RowsOf
<1>4. ASSUME NEW sign
      PROVE  Cardinality(RowsOf(g, sign)) =
               IF StockSign(e.from, e.to) = sign
               THEN Cardinality(RowsOf(h, sign)) + 1 ELSE Cardinality(RowsOf(h, sign))
  <2>1. m \notin RowsOf(h, sign) /\ IsFiniteSet(RowsOf(h, sign))
    BY <1>2, RowsFinite DEF RowsOf
  <2> QED
    BY <1>3, <2>1, FS_AddElement
<1>5. PICK s : s = StockSign(e.from, e.to)
  OBVIOUS
<1>6. s \in {-1, 0, 1}
  BY <1>5, StockSignType
<1>7. PICK a, b : a = Cardinality(RowsOf(h, -1)) /\ b = Cardinality(RowsOf(h, 1))
  OBVIOUS
<1>8. a \in Nat /\ b \in Nat
  BY <1>7, RowsFinite
<1>9. /\ Cardinality(RowsOf(g, -1)) = IF s = -1 THEN a + 1 ELSE a
      /\ Cardinality(RowsOf(g, 1)) = IF s = 1 THEN b + 1 ELSE b
  BY <1>4, <1>5, <1>7
<1>10. Holding(h) = a - b /\ Holding(g) = (a - b) - s
  <2>1. Holding(h) = a - b
    BY <1>7 DEF Holding
  <2>2. PICK c, d : c = (IF s = -1 THEN a + 1 ELSE a) /\ d = (IF s = 1 THEN b + 1 ELSE b)
    OBVIOUS
  <2>3. Holding(g) = c - d
    BY <1>9, <2>2 DEF Holding
  <2>4. c - d = (a - b) - s
    BY <1>6, <1>8, <2>2
  <2> QED
    BY <2>1, <2>3, <2>4
<1> QED
  BY <1>1, <1>2, <1>5, <1>8, <1>10

\* A run more takes what its transitions take.
LEMMA HoldingRun ==
    ASSUME NEW h \in Seq(HistoryRow), NEW rows \in Seq(HistoryRow), Len(rows) <= 2
    PROVE  /\ Holding(h) \in Int
           /\ Holding(h \o rows) = Holding(h) - Atomic!Net(rows)
<1>1. ASSUME NEW k PROVE Atomic!Sign(rows, k) = IF k \in DOMAIN rows
                             THEN StockSign(rows[k].from, rows[k].to) ELSE 0
  BY SameTable DEF Atomic!Sign
<1>2. Holding(h) \in Int
  BY RowsFinite DEF Holding
<1>0. /\ Len(rows) \in Nat /\ DOMAIN rows = 1..Len(rows)
      /\ \A k \in 1..Len(rows) : rows[k] \in HistoryRow
  OBVIOUS
<1>7. PICK n, m : n = Len(rows) /\ m = Len(h)
  OBVIOUS
<1>8. /\ m \in Nat /\ h \o rows \in Seq(HistoryRow) /\ Len(h \o rows) = m + n
      /\ \A i \in 1..(m + n) : (h \o rows)[i] = IF i <= m THEN h[i] ELSE rows[i - m]
  BY <1>7, ConcatProperties
<1>3. CASE Len(rows) = 0
  <2>1. rows = <<>> /\ h \o <<>> = h
    BY <1>3, ConcatEmptySeq
  <2>2. Atomic!Net(rows) = 0
    BY <1>1, <2>1 DEF Atomic!Net
  <2> QED
    BY <1>2, <2>1, <2>2
<1>4. CASE Len(rows) = 1
  <2>1. rows[1] \in HistoryRow /\ 1 \in DOMAIN rows /\ 2 \notin DOMAIN rows
    BY <1>0, <1>4
  <2>2. h \o rows = Append(h, rows[1])
    <3>1. /\ Append(h, rows[1]) \in Seq(HistoryRow)
          /\ Len(Append(h, rows[1])) = m + 1
          /\ \A i \in 1..m : Append(h, rows[1])[i] = h[i]
          /\ Append(h, rows[1])[m + 1] = rows[1]
      BY <1>7, <2>1, AppendProperties
    <3>2. ASSUME NEW i \in 1..(m + 1) PROVE (h \o rows)[i] = Append(h, rows[1])[i]
      <4>1. CASE i \in 1..m
        BY <1>4, <1>7, <1>8, <3>1, <4>1
      <4>2. CASE i = m + 1
        BY <1>4, <1>7, <1>8, <3>1, <4>2
      <4>3. m \in Nat
        BY <1>8
      <4>4. i \in 1..m \/ i = m + 1
        BY <3>2, <4>3
      <4> QED
        BY <4>1, <4>2, <4>4
    <3> QED
      BY <1>4, <1>7, <1>8, <3>1, <3>2, SeqEqual
  <2>3. Atomic!Net(rows) = StockSign(rows[1].from, rows[1].to)
    BY <1>1, <2>1, StockSignType DEF Atomic!Net
  <2> QED
    BY <1>2, <2>1, <2>2, <2>3, HoldingAppend
<1>5. CASE Len(rows) = 2
  <2>1. /\ rows[1] \in HistoryRow /\ rows[2] \in HistoryRow
        /\ 1 \in DOMAIN rows /\ 2 \in DOMAIN rows
    BY <1>0, <1>5
  <2>2. h \o rows = Append(Append(h, rows[1]), rows[2])
    <3>1. PICK g : g = Append(h, rows[1])
      OBVIOUS
    <3>2. /\ g \in Seq(HistoryRow) /\ Len(g) = m + 1 /\ g[m + 1] = rows[1]
          /\ \A i \in 1..m : g[i] = h[i]
      BY <1>7, <2>1, <3>1, AppendProperties
    <3>3. PICK f : f = Append(g, rows[2])
      OBVIOUS
    <3>4. /\ f \in Seq(HistoryRow) /\ Len(f) = (m + 1) + 1 /\ f[(m + 1) + 1] = rows[2]
          /\ \A i \in 1..(m + 1) : f[i] = g[i]
      BY <2>1, <3>2, <3>3, AppendProperties
    <3>5. ASSUME NEW i \in 1..(m + 2) PROVE (h \o rows)[i] = f[i]
      <4>1. CASE i \in 1..m
        BY <1>5, <1>7, <1>8, <3>2, <3>4, <4>1
      <4>2. CASE i = m + 1
        BY <1>5, <1>7, <1>8, <3>2, <3>4, <4>2
      <4>3. CASE i = m + 2
        BY <1>5, <1>7, <1>8, <3>4, <4>3
      <4>4. m \in Nat
        BY <1>8
      <4>5. i \in 1..m \/ i = m + 1 \/ i = m + 2
        BY <3>5, <4>4
      <4> QED
        BY <4>1, <4>2, <4>3, <4>5
    <3>6. (m + 1) + 1 = m + 2
      BY <1>8
    <3> QED
      BY <1>5, <1>7, <1>8, <3>1, <3>3, <3>4, <3>5, <3>6, SeqEqual
  <2>3. Atomic!Net(rows) = StockSign(rows[1].from, rows[1].to)
                             + StockSign(rows[2].from, rows[2].to)
    BY <1>1, <2>1 DEF Atomic!Net
  <2>4. /\ Append(h, rows[1]) \in Seq(HistoryRow)
        /\ Holding(Append(h, rows[1])) = Holding(h) - StockSign(rows[1].from, rows[1].to)
    BY <2>1, HoldingAppend
  <2>5. Holding(h \o rows) =
          Holding(Append(h, rows[1])) - StockSign(rows[2].from, rows[2].to)
    BY <2>1, <2>2, <2>4, HoldingAppend
  <2>6. /\ StockSign(rows[1].from, rows[1].to) \in {-1, 0, 1}
        /\ StockSign(rows[2].from, rows[2].to) \in {-1, 0, 1}
    BY StockSignType
  <2> QED
    BY <1>2, <2>3, <2>4, <2>5, <2>6
<1>6. Len(rows) = 0 \/ Len(rows) = 1 \/ Len(rows) = 2
  <2>1. Len(rows) \in Nat
    OBVIOUS
  <2> QED
    BY <2>1, SmallLength
<1> QED
  BY <1>2, <1>3, <1>4, <1>5, <1>6

\* A commit books what its rows say.
LEMMA CommitHolds ==
    ASSUME IInv, AccountsKept, HeldFollowsHistory, NEW r \in Requests, Commit(r)
    PROVE  HeldFollowsHistory'
<1>1. /\ req[r].pc = "plan" /\ req[r].order \in Orders /\ Accounts(req[r])
      /\ req[r].rows \in Seq(HistoryRow) /\ Len(req[r].rows) <= 2
  BY Parts DEF Commit, AccountsKept, IInv, Accounts, RunShape
<1>2. /\ history \in [Orders -> Seq(HistoryRow)] /\ held \in [Orders -> [Items -> Int]]
  BY DEF IInv, TypeOK
<1>4. ASSUME NEW o \in Orders, NEW i \in Items \ Unmanaged
      PROVE  held[o][i] = Quantity[o][i] * Holding(history[o])
  BY DEF HeldFollowsHistory, RowCount, Holding, RowsOf
<1>5. ASSUME NEW o \in Orders, NEW i \in Items \ Unmanaged
      PROVE  held'[o][i] = Quantity[o][i] * Holding(history'[o])
  <2>1. CASE o # req[r].order
    BY <1>2, <1>4, <2>1 DEF Commit
  <2>2. CASE o = req[r].order
    <3>1. /\ held'[o][i] = held[o][i] + req[r].hold[i]
          /\ history'[o] = history[o] \o req[r].rows
      BY <1>2, <2>2 DEF Commit
    <3>2. PICK n, q, b : /\ n = Atomic!Net(req[r].rows) /\ q = Quantity[o][i]
                         /\ b = Holding(history[o])
      OBVIOUS
    <3>3. n \in -2..2 /\ q \in Nat
      BY <3>2, NetType, ConstantsAssumption
    <3>4. b \in Int /\ Holding(history'[o]) = b - n
      BY <1>1, <1>2, <3>1, <3>2, HoldingRun
    <3>5. req[r].hold[i] = -(n * q + 0)
      <4>1. UnderWay(req[r], i) = 0 /\ Atomic!Taken(o, i) = q
        BY <1>1, <3>2 DEF UnderWay, Atomic!Taken
      <4> QED
        BY <1>1, <2>2, <3>2, <4>1 DEF Accounts, Balances
    <3>6. held[o][i] = q * b
      BY <1>4, <3>2
    <3>7. q * b + (-(n * q + 0)) = q * (b - n)
      BY <3>3, <3>4
    <3> QED
      BY <3>1, <3>2, <3>4, <3>5, <3>6, <3>7
  <2> QED
    BY <2>1, <2>2
<1> QED
  BY <1>5 DEF HeldFollowsHistory, RowCount, Holding, RowsOf

\* The ledger of an order and its audit trail agree: a status change and its
\* stock effect are one unit (order_state_machine.ts:26-31).
THEOREM TrailAgrees == Spec => []HeldFollowsHistory
<1>1. Init => HeldFollowsHistory
  <2> SUFFICES ASSUME Init, NEW o \in Orders, NEW i \in Items \ Unmanaged
               PROVE  held[o][i] = Quantity[o][i] * (RowCount(o, -1) - RowCount(o, 1))
    BY DEF HeldFollowsHistory
  <2>1. history[o] = <<>> /\ held[o][i] = 0
    BY DEF Init, Zero
  <2>2. RowCount(o, -1) = 0 /\ RowCount(o, 1) = 0
    <3>1. DOMAIN history[o] = {}
      BY <2>1
    <3> QED
      BY <3>1, FS_EmptySet DEF RowCount
  <2>3. Quantity[o][i] \in Nat
    BY ConstantsAssumption
  <2> QED
    BY <2>1, <2>2, <2>3
<1>2. IInv /\ AccountsKept /\ HeldFollowsHistory /\ [Next]_vars => HeldFollowsHistory'
  <2> SUFFICES ASSUME IInv, AccountsKept, HeldFollowsHistory, [Next]_vars
               PROVE  HeldFollowsHistory'
    OBVIOUS
  <2>1. CASE UNCHANGED db
    BY <2>1 DEF db, HeldFollowsHistory, RowCount
  <2>2. CASE \E r \in Requests : Commit(r)
    BY <2>2, CommitHolds
  <2> QED
    BY <2>1, <2>2, MoveKinds DEF Next, Moves, Rollback, IInv, vars, db
<1> QED
  BY <1>1, <1>2, Invariance, AccountsInvariant, PTL DEF Spec
=============================================================================
