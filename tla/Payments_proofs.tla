-------------------------- MODULE Payments_proofs --------------------------
(***************************************************************************)
(* What Payments guarantees for every number of orders, attempts, keys and *)
(* requests, and whatever the PSP and the customers do.  The argument: a   *)
(* callback past LockAttempt owns the row of its attempt, so nobody else   *)
(* changes the attempt or its ledger row until it ends; and an attempt     *)
(* that init() is creating is known to its own request only.               *)
(***************************************************************************)
EXTENDS Payments, TLAPS

\* The callbacks that hold the row of their attempt.
Holding == {"order", "recorded", "answered"}

Request ==
    [pc : {"idle", "save", "find", "insert", "link", "attempt"} \cup Holding,
     kind : {"none", "init", "paylink", "callback"},
     order : Orders \cup {None}, attempt : Attempts \cup {None},
     key : Keys \cup {NoKey}, view : OrderStatuses,
     seen : AttemptStatuses \cup {"absent"},
     told : Declines \cup Answers \cup {"success", "reopened", "none"}]

\* An init() that has inserted its row: nobody else has the attempt or the key.
OwnsNew(r) ==
    req[r].pc = "link" =>
        /\ req[r].attempt \in Attempts
        /\ attempt[req[r].attempt] = Absent
        /\ \A p \in Requests \ {r} : req[p].attempt # req[r].attempt
        /\ req[r].key # NoKey =>
              /\ \A a \in Attempts : attempt[a].key # req[r].key
              /\ ~KeyInFlight(r, req[r].key)

\* A callback is about an attempt of its order that the PSP was handed.
KnowsAttempt(r) ==
    req[r].pc \in {"attempt"} \cup Holding =>
        /\ req[r].attempt \in Attempts
        /\ sent[req[r].attempt] # {}
        /\ attempt[req[r].attempt].order = req[r].order

\* What a callback has read of its attempt is what is committed.
HoldsAttempt(r) ==
    req[r].pc \in Holding =>
        /\ owner[req[r].attempt] = r
        /\ attempt[req[r].attempt].status = req[r].seen

\* The PSP's answer is about an attempt whose outcome is still open.
KnowsAnswer(r) ==
    /\ req[r].pc \in {"attempt", "order", "recorded"} =>
          req[r].told \in Declines \cup {"success"}
    /\ req[r].pc = "answered" =>
          /\ req[r].told \in Answers
          /\ req[r].seen # "verified"
          /\ event[req[r].attempt] = "none"
          /\ req[r].told = "ok" => PaidFor(req[r].attempt)

Relies(r) ==
    /\ req[r].pc \notin {"idle"} => req[r].order \in Orders
    /\ OwnsNew(r) /\ KnowsAttempt(r) /\ HoldsAttempt(r) /\ KnowsAnswer(r)

\* Nobody pays for, or hears of, an attempt that is not committed.
Unheard ==
    \A a \in Attempts :
        /\ sent[a] = {} => psp[a] = "open" /\ event[a] = "none"
        /\ attempt[a] = Absent => sent[a] = {}

Books == Unheard /\ LedgerMatchesAttempt /\ ChargeIsSettled /\ OneAttemptPerKey

IInv ==
    /\ TypeOK /\ Books
    /\ req \in [Requests -> Request]
    /\ \A r \in Requests : Relies(r)
----------------------------------------------------------------------------
(* The parts of a step.                                                    *)

LEMMA IdleType == Idle \in Request /\ Idle.pc = "idle" /\ Idle.attempt = None
  BY DEF Idle, Request, OrderStatuses

\* The end of a request takes its own locks along and no other.
LEMMA EndTyped ==
    ASSUME IInv, NEW r \in Requests, End(r)
    PROVE  /\ req' \in [Requests -> Request]
           /\ req'[r] = Idle
           /\ \A p \in Requests \ {r} : req'[p] = req[p]
           /\ owner' \in [Orders \cup Attempts -> Requests \cup {None}]
           /\ \A p \in Requests \ {r}, w \in Orders \cup Attempts :
                 owner[w] = p => owner'[w] = p
<1>1. req \in [Requests -> Request]
  BY DEF IInv
<1>2. owner \in [Orders \cup Attempts -> Requests \cup {None}]
  BY DEF IInv, TypeOK
<1>3. owner' = [w \in Orders \cup Attempts |-> IF owner[w] = r THEN None ELSE owner[w]]
  BY <1>2 DEF End
<1>4. req' = [req EXCEPT ![r] = Idle]
  BY DEF End
<1>5. owner' \in [Orders \cup Attempts -> Requests \cup {None}]
  BY <1>2, <1>3
<1>6. \A p \in Requests \ {r}, w \in Orders \cup Attempts :
         owner[w] = p => owner'[w] = p
  BY <1>2, <1>3
<1> QED
  BY <1>1, <1>4, <1>5, <1>6, IdleType

\* An idle request relies on nothing.
LEMMA IdleRelies ==
    ASSUME NEW r \in Requests, req'[r] = Idle PROVE Relies(r)'
  BY IdleType DEF Relies, OwnsNew, KnowsAttempt, HoldsAttempt, KnowsAnswer, Holding

\* Every attempt but the one in the hands of an init() is off its hands.
LEMMA NotNew ==
    ASSUME IInv, NEW r \in Requests, NEW p \in Requests \ {r}, req[p].pc = "link"
    PROVE  req[p].attempt # req[r].attempt
  BY DEF IInv, Relies, OwnsNew

\* A step of one request that leaves attempts, ledger and PSP alone.
LEMMA Quiet ==
    ASSUME IInv, NEW r \in Requests, NEW q \in Request,
           req' = [req EXCEPT ![r] = q], Relies(r)', issued' \in Nat,
           \A p \in Requests \ {r} : req[p].pc = "link" =>
               /\ req[p].attempt # q.attempt
               /\ q.pc = "link" /\ q.key # NoKey => req[p].key # q.key,
           UNCHANGED <<charged, attempt, event, psp, sent>>,
           status' \in [Orders -> OrderStatuses],
           latest' \in [Orders -> Attempts \cup {None}],
           \A o \in Orders : latest'[o] # None => attempt[latest'[o]].order = o,
           owner' \in [Orders \cup Attempts -> Requests \cup {None}],
           \A p \in Requests \ {r}, w \in Orders \cup Attempts :
               owner[w] = p => owner'[w] = p
    PROVE  IInv'
<1>1. TypeOK' /\ Books'
  BY DEF PaidFor, IInv, TypeOK, Books, Unheard, LedgerMatchesAttempt, ChargeIsSettled,
         OneAttemptPerKey
<1>2. /\ req' \in [Requests -> Request]
      /\ req'[r] = q
      /\ \A p \in Requests \ {r} : req'[p] = req[p]
  BY DEF IInv
<1>3. ASSUME NEW p \in Requests \ {r} PROVE Relies(p)'
  <2>1. Relies(p) /\ req'[p] = req[p]
    BY <1>2, <1>3 DEF IInv
  <2>2. OwnsNew(p)'
    <3> SUFFICES ASSUME req[p].pc = "link" PROVE OwnsNew(p)'
      BY <2>1 DEF OwnsNew
    <3>1. \A x \in Requests \ {p} : req'[x].attempt # req[p].attempt
      BY <1>2, <2>1 DEF Relies, OwnsNew
    <3>2. req[p].key # NoKey => ~KeyInFlight(p, req[p].key)'
      BY <1>2, <2>1 DEF Relies, OwnsNew, KeyInFlight
    <3> QED
      BY <2>1, <3>1, <3>2 DEF Relies, OwnsNew
  <2>3. KnowsAttempt(p)' /\ KnowsAnswer(p)'
    BY <2>1 DEF PaidFor, Relies, KnowsAttempt, KnowsAnswer
  <2>4. HoldsAttempt(p)'
    BY <2>1 DEF Relies, HoldsAttempt, KnowsAttempt, Holding
  <2> QED
    BY <2>1, <2>2, <2>3, <2>4 DEF Relies
<1> QED
  BY <1>1, <1>2, <1>3 DEF IInv

\* The end of a request that wrote to its attempt or to the attempt's ledger row
\* is not noticed by the others.
LEMMA Undisturbed ==
    ASSUME IInv, NEW r \in Requests, req[r].pc \in {"link", "recorded", "answered"},
           End(r),
           \A b \in Attempts \ {req[r].attempt} :
               attempt'[b] = attempt[b] /\ event'[b] = event[b],
           attempt'[req[r].attempt].order = req[r].order,
           attempt'[req[r].attempt].key =
               IF req[r].pc = "link" THEN req[r].key ELSE attempt[req[r].attempt].key,
           NEW p \in Requests
    PROVE  Relies(p)'
<1>1. CASE p = r
  BY <1>1, EndTyped, IdleRelies
<1>2. CASE p # r
  <2>1. Relies(p) /\ Relies(r) /\ req'[p] = req[p] /\ sent' = sent /\ psp' = psp
    BY <1>2, EndTyped DEF IInv, End
  <2>2. OwnsNew(p)'
    <3> SUFFICES ASSUME req[p].pc = "link" PROVE OwnsNew(p)'
      BY <2>1 DEF OwnsNew
    <3>1. req[p].attempt \in Attempts /\ req[p].attempt # req[r].attempt
      BY <1>2, <2>1 DEF Relies, OwnsNew
    <3>2. attempt'[req[p].attempt] = Absent
      BY <2>1, <3>1 DEF Relies, OwnsNew
    <3>3. \A x \in Requests \ {p} : req'[x].attempt # req[p].attempt
      BY <1>2, <2>1, <3>1, EndTyped, IdleType, PaymentsAssumption DEF Relies, OwnsNew
    <3>4. ASSUME req[p].key # NoKey
          PROVE  ~KeyInFlight(p, req[p].key)' /\ \A a \in Attempts : attempt'[a].key # req[p].key
      <4>1. ~KeyInFlight(p, req[p].key)'
        BY <1>2, <2>1, <3>4, EndTyped, IdleType DEF Relies, OwnsNew, KeyInFlight
      <4>2. req[r].pc = "link" => req[r].key # req[p].key
        BY <1>2, <2>1, <3>4 DEF Relies, OwnsNew, KeyInFlight
      <4>3. req[r].attempt \in Attempts
        BY <2>1 DEF Relies, OwnsNew, KnowsAttempt, Holding
      <4>4. attempt'[req[r].attempt].key # req[p].key
        BY <2>1, <3>4, <4>2, <4>3 DEF Relies, OwnsNew
      <4>5. ASSUME NEW a \in Attempts PROVE attempt'[a].key # req[p].key
        BY <2>1, <3>4, <4>4 DEF Relies, OwnsNew
      <4> QED
        BY <4>1, <4>5
    <3> QED
      BY <2>1, <3>1, <3>2, <3>3, <3>4 DEF OwnsNew
  <2>3. KnowsAttempt(p)'
    <3> SUFFICES ASSUME req[p].pc \in {"attempt"} \cup Holding PROVE KnowsAttempt(p)'
      BY <2>1 DEF KnowsAttempt
    <3>1. /\ req[p].attempt \in Attempts /\ sent[req[p].attempt] # {}
          /\ attempt[req[p].attempt].order = req[p].order
      BY <2>1 DEF Relies, KnowsAttempt
    <3>2. CASE req[p].attempt # req[r].attempt
      BY <2>1, <3>1, <3>2 DEF KnowsAttempt
    <3>3. CASE req[p].attempt = req[r].attempt
      <4>1. req[r].pc # "link"
        BY <1>2, <2>1, <3>3 DEF Relies, OwnsNew
      <4>2. attempt[req[r].attempt].order = req[r].order
        BY <2>1, <4>1 DEF Relies, KnowsAttempt, Holding
      <4> QED
        BY <2>1, <3>1, <3>3, <4>2 DEF KnowsAttempt
    <3> QED
      BY <3>2, <3>3
  <2>4. HoldsAttempt(p)' /\ (req[p].pc \in Holding =>
                               event'[req[p].attempt] = event[req[p].attempt])
    <3> SUFFICES ASSUME req[p].pc \in Holding
                 PROVE  /\ owner'[req[p].attempt] = p
                        /\ attempt'[req[p].attempt].status = req[p].seen
                        /\ event'[req[p].attempt] = event[req[p].attempt]
      BY <2>1 DEF HoldsAttempt
    <3>1. req[p].attempt \in Attempts /\ owner[req[p].attempt] = p
          /\ attempt[req[p].attempt].status = req[p].seen
      BY <2>1 DEF Relies, KnowsAttempt, HoldsAttempt, Holding
    <3>2. req[p].attempt # req[r].attempt
      BY <1>2, <2>1, <3>1 DEF Relies, OwnsNew, HoldsAttempt, Holding
    <3> QED
      BY <1>2, <3>1, <3>2, EndTyped
  <2>5. KnowsAnswer(p)'
    BY <2>1, <2>4 DEF PaidFor, Relies, KnowsAnswer, Holding
  <2> QED
    BY <2>1, <2>2, <2>3, <2>4, <2>5 DEF Relies
<1> QED
  BY <1>1, <1>2
----------------------------------------------------------------------------
(* The actions.                                                            *)

LEMMA RollbackStep == ASSUME IInv, NEW r \in Requests, Rollback(r) PROVE IInv'
<1>1. Relies(r)'
  BY EndTyped, IdleRelies DEF Rollback
<1>2. req' = [req EXCEPT ![r] = Idle] /\ issued' = issued /\ psp' = psp /\ sent' = sent
  BY DEF Rollback, End
<1>3. UNCHANGED db
  BY DEF Rollback
<1>4. \A p \in Requests \ {r} : req[p].pc = "link" => req[p].attempt # Idle.attempt
  BY IdleType, PaymentsAssumption DEF IInv, Relies, OwnsNew
<1>5. /\ UNCHANGED <<charged, attempt, event, psp, sent>>
      /\ status' \in [Orders -> OrderStatuses] /\ issued' \in Nat
      /\ latest' \in [Orders -> Attempts \cup {None}]
      /\ \A o \in Orders : latest'[o] # None => attempt[latest'[o]].order = o
  BY <1>2, <1>3 DEF db, IInv, TypeOK
<1>6. End(r)
  BY DEF Rollback
<1> QED
  BY <1>1, <1>2, <1>4, <1>5, <1>6, EndTyped, IdleType, Quiet

\* A request that begins holds no row yet.
LEMMA BeginStep ==
    ASSUME IInv, NEW r \in Requests, NEW q \in Request, Begin(r, q), Relies(r)',
           q.pc # "link",
           \A p \in Requests \ {r} : req[p].pc = "link" => req[p].attempt # q.attempt
    PROVE  IInv'
<1>1. issued' \in Nat
  BY DEF Begin, IInv, TypeOK
<1> QED
  BY <1>1, Quiet DEF Begin, db, IInv, TypeOK

LEMMA InitPaymentStep == ASSUME IInv, NEW r \in Requests, InitPayment(r) PROVE IInv'
<1>1. PICK o \in Orders, k \in Keys \cup {NoKey} :
        Begin(r, [Idle EXCEPT !.pc = "find", !.kind = "init", !.order = o,
                              !.key = k, !.view = status[o]])
  BY DEF InitPayment
<1>2. PICK q : q = [Idle EXCEPT !.pc = "find", !.kind = "init", !.order = o,
                                !.key = k, !.view = status[o]]
  OBVIOUS
<1>3. q \in Request /\ q.pc = "find" /\ q.order = o /\ q.attempt = None
  BY <1>2, IdleType DEF IInv, TypeOK, Request, Idle
<1>4. req'[r] = q
  BY <1>1, <1>2 DEF Begin, IInv
<1>5. Relies(r)'
  BY <1>3, <1>4 DEF Relies, OwnsNew, KnowsAttempt, HoldsAttempt, KnowsAnswer, Holding
<1>6. \A p \in Requests \ {r} : req[p].pc = "link" => req[p].attempt # q.attempt
  BY <1>3, PaymentsAssumption DEF IInv, Relies, OwnsNew
<1> QED
  BY <1>1, <1>2, <1>3, <1>5, <1>6, BeginStep

LEMMA PayLinkStep == ASSUME IInv, NEW r \in Requests, PayLink(r) PROVE IInv'
<1>1. PICK o \in Orders, k \in Keys \cup {NoKey}, pc \in {"save", "find"} :
        Begin(r, [Idle EXCEPT !.pc = pc, !.kind = "paylink", !.order = o,
                              !.key = k, !.view = status[o]])
  BY DEF PayLink
<1>2. PICK q : q = [Idle EXCEPT !.pc = pc, !.kind = "paylink", !.order = o,
                                !.key = k, !.view = status[o]]
  OBVIOUS
<1>3. q \in Request /\ q.pc \in {"save", "find"} /\ q.order = o /\ q.attempt = None
  BY <1>2, IdleType DEF IInv, TypeOK, Request, Idle
<1>4. req'[r] = q
  BY <1>1, <1>2 DEF Begin, IInv
<1>5. Relies(r)'
  BY <1>3, <1>4 DEF Relies, OwnsNew, KnowsAttempt, HoldsAttempt, KnowsAnswer, Holding
<1>6. \A p \in Requests \ {r} : req[p].pc = "link" => req[p].attempt # q.attempt
  BY <1>3, PaymentsAssumption DEF IInv, Relies, OwnsNew
<1> QED
  BY <1>1, <1>2, <1>3, <1>5, <1>6, BeginStep

LEMMA CallbackStep == ASSUME IInv, NEW r \in Requests, Callback(r) PROVE IInv'
<1>0. PICK a \in Attempts : \E how \in sent[a] :
        Begin(r, [Idle EXCEPT !.pc = "attempt", !.kind = "callback",
                              !.order = attempt[a].order, !.attempt = a, !.told = how])
  BY DEF Callback
<1>1. PICK how \in sent[a] :
        Begin(r, [Idle EXCEPT !.pc = "attempt", !.kind = "callback",
                              !.order = attempt[a].order, !.attempt = a, !.told = how])
  BY <1>0
<1>2. PICK q : q = [Idle EXCEPT !.pc = "attempt", !.kind = "callback",
                                !.order = attempt[a].order, !.attempt = a, !.told = how]
  OBVIOUS
<1>3. attempt[a] # Absent /\ how \in Declines \cup {"success"}
  BY DEF IInv, Books, Unheard, TypeOK
<1>4. attempt[a].order \in Orders
  BY <1>3 DEF IInv, TypeOK
<1>5. /\ q \in Request /\ q.pc = "attempt" /\ q.order = attempt[a].order
      /\ q.attempt = a /\ q.told = how
  BY <1>2, <1>3, <1>4, IdleType DEF Request, Idle
<1>6. req'[r] = q /\ attempt' = attempt /\ sent' = sent
  BY <1>1, <1>2 DEF Begin, IInv, db
<1>7. Relies(r)'
  BY <1>3, <1>4, <1>5, <1>6
     DEF Relies, OwnsNew, KnowsAttempt, HoldsAttempt, KnowsAnswer, Holding
<1>8. \A p \in Requests \ {r} : req[p].pc = "link" => req[p].attempt # q.attempt
  BY <1>3, <1>5 DEF IInv, Relies, OwnsNew
<1> QED
  BY <1>1, <1>2, <1>5, <1>7, <1>8, BeginStep

\* A request that locks a row keeps its attempt, and takes no row from another.
LEMMA LockStep ==
    ASSUME IInv, NEW r \in Requests, NEW w \in Orders \cup Attempts,
           NEW q \in Request, Lock(r, w, q), Relies(r)',
           q.pc # "link", q.attempt = req[r].attempt
    PROVE  IInv'
<1>1. \A p \in Requests \ {r} : req[p].pc = "link" => req[p].attempt # q.attempt
  BY NotNew
<1>2. owner \in [Orders \cup Attempts -> Requests \cup {None}]
  BY DEF IInv, TypeOK
<1>3. /\ owner' \in [Orders \cup Attempts -> Requests \cup {None}]
      /\ \A p \in Requests \ {r}, x \in Orders \cup Attempts :
            owner[x] = p => owner'[x] = p
  BY <1>2, PaymentsAssumption DEF Lock, Free
<1> QED
  BY <1>1, <1>3, Quiet DEF Lock, db, IInv, TypeOK

LEMMA SaveOrderStep == ASSUME IInv, NEW r \in Requests, SaveOrder(r) PROVE IInv'
<1>1. req[r] \in Request /\ req[r].pc = "save" /\ req[r].order \in Orders
  BY DEF SaveOrder, IInv, Relies
<1>2. PICK q : q = IF req[r].view = "failed"
                   THEN [req[r] EXCEPT !.pc = "find", !.view = "pending", !.told = "reopened"]
                   ELSE [req[r] EXCEPT !.pc = "find"]
  OBVIOUS
<1>3. /\ q \in Request /\ q.pc = "find"
      /\ q.order = req[r].order /\ q.attempt = req[r].attempt
  BY <1>1, <1>2 DEF Request, OrderStatuses
<1>4. Lock(r, req[r].order, q)
  BY <1>2 DEF SaveOrder
<1>5. req'[r] = q
  BY <1>4 DEF Lock, IInv
<1>6. Relies(r)'
  BY <1>1, <1>3, <1>5 DEF Relies, OwnsNew, KnowsAttempt, HoldsAttempt, KnowsAnswer, Holding
<1> QED
  BY <1>1, <1>3, <1>4, <1>6, LockStep

LEMMA LockAttemptStep == ASSUME IInv, NEW r \in Requests, LockAttempt(r) PROVE IInv'
<1>1. /\ req[r] \in Request /\ req[r].pc = "attempt" /\ req[r].order \in Orders
      /\ KnowsAttempt(r) /\ KnowsAnswer(r)
  BY DEF LockAttempt, IInv, Relies
<1>2. req[r].attempt \in Attempts /\ attempt[req[r].attempt].order = req[r].order
  BY <1>1 DEF KnowsAttempt
<1>3. PICK q : q = [req[r] EXCEPT !.pc = "order", !.seen = attempt[req[r].attempt].status]
  OBVIOUS
<1>4. attempt[req[r].attempt].status \in AttemptStatuses \cup {"absent"}
  BY <1>2 DEF IInv, TypeOK, Absent
<1>5. /\ q \in Request /\ q.pc = "order" /\ q.seen = attempt[req[r].attempt].status
      /\ q.order = req[r].order /\ q.attempt = req[r].attempt /\ q.told = req[r].told
  BY <1>1, <1>3, <1>4 DEF Request, Holding
<1>6. Lock(r, req[r].attempt, q)
  BY <1>3 DEF LockAttempt
<1>7. req'[r] = q /\ attempt' = attempt /\ sent' = sent /\ owner'[req[r].attempt] = r
  BY <1>2, <1>6 DEF Lock, IInv, TypeOK, db
<1>8. Relies(r)'
  BY <1>1, <1>2, <1>5, <1>7
     DEF Relies, OwnsNew, KnowsAttempt, HoldsAttempt, KnowsAnswer, Holding
<1> QED
  BY <1>2, <1>5, <1>6, <1>8, LockStep

LEMMA LockOrderStep == ASSUME IInv, NEW r \in Requests, LockOrder(r) PROVE IInv'
<1> SUFFICES ASSUME LedgerKeyed PROVE IInv'
  BY RollbackStep DEF LockOrder
<1>1. /\ req[r] \in Request /\ req[r].pc = "order" /\ req[r].order \in Orders
      /\ KnowsAttempt(r) /\ HoldsAttempt(r) /\ KnowsAnswer(r)
  BY DEF LockOrder, IInv, Relies
<1>2. PICK q : q = [req[r] EXCEPT !.pc = "recorded", !.view = status[req[r].order]]
  OBVIOUS
<1>3. /\ q \in Request /\ q.pc = "recorded" /\ q.seen = req[r].seen
      /\ q.order = req[r].order /\ q.attempt = req[r].attempt /\ q.told = req[r].told
  BY <1>1, <1>2 DEF Request, Holding, IInv, TypeOK
<1>4. Lock(r, req[r].order, q)
  BY <1>2 DEF LockOrder
<1>5. req'[r] = q /\ attempt' = attempt /\ sent' = sent /\ owner' = [owner EXCEPT ![req[r].order] = r]
  BY <1>4 DEF Lock, IInv, db
<1>6. req[r].attempt \in Attempts /\ owner[req[r].attempt] = r
  BY <1>1 DEF KnowsAttempt, HoldsAttempt, Holding
<1>7. owner'[req[r].attempt] = r
  BY <1>1, <1>5, <1>6 DEF IInv, TypeOK
<1>8. Relies(r)'
  BY <1>1, <1>3, <1>5, <1>7
     DEF Relies, OwnsNew, KnowsAttempt, HoldsAttempt, KnowsAnswer, Holding
<1> QED
  BY <1>1, <1>3, <1>4, <1>8, LockStep

LEMMA FindAttemptStep == ASSUME IInv, NEW r \in Requests, FindAttempt(r) PROVE IInv'
<1>1. /\ req[r] \in Request /\ req[r].pc = "find" /\ req[r].order \in Orders
  BY DEF FindAttempt, IInv, Relies
<1>2. CASE Existing(req[r].order, req[r].key) = {}
  <2>1. PICK q : q = [req[r] EXCEPT !.pc = "insert"]
    OBVIOUS
  <2>2. /\ q \in Request /\ q.pc = "insert"
        /\ q.order = req[r].order /\ q.attempt = req[r].attempt
    BY <1>1, <2>1 DEF Request
  <2>3. req' = [req EXCEPT ![r] = q] /\ UNCHANGED <<db, psp, sent, owner, issued>>
    BY <1>2, <2>1 DEF FindAttempt
  <2>4. Relies(r)'
    BY <1>1, <2>2, <2>3
       DEF IInv, Relies, OwnsNew, KnowsAttempt, HoldsAttempt, KnowsAnswer, Holding
  <2>5. \A p \in Requests \ {r} : req[p].pc = "link" => req[p].attempt # q.attempt
    BY <2>2, NotNew
  <2> QED
    BY <2>2, <2>3, <2>4, <2>5, Quiet DEF db, IInv, TypeOK
<1>3. CASE Existing(req[r].order, req[r].key) # {}
  <2>1. /\ End(r) /\ UNCHANGED <<charged, latest, attempt, event>>
        /\ status' = IF req[r].told = "reopened"
                     THEN [status EXCEPT ![req[r].order] = "pending"] ELSE status
    BY <1>3 DEF FindAttempt
  <2>2. status' \in [Orders -> OrderStatuses]
    BY <2>1 DEF IInv, TypeOK, OrderStatuses
  <2>3. /\ UNCHANGED <<charged, attempt, event, psp, sent>> /\ issued' \in Nat
        /\ latest' \in [Orders -> Attempts \cup {None}]
        /\ \A o \in Orders : latest'[o] # None => attempt[latest'[o]].order = o
        /\ req' = [req EXCEPT ![r] = Idle]
    BY <2>1 DEF End, IInv, TypeOK
  <2>4. Relies(r)'
    BY <2>1, EndTyped, IdleRelies
  <2>5. \A p \in Requests \ {r} : req[p].pc = "link" => req[p].attempt # Idle.attempt
    BY IdleType, PaymentsAssumption DEF IInv, Relies, OwnsNew
  <2> QED
    BY <2>1, <2>2, <2>3, <2>4, <2>5, EndTyped, IdleType, Quiet
<1> QED
  BY <1>2, <1>3

LEMMA InsertAttemptStep ==
    ASSUME IInv, NEW r \in Requests, InsertAttempt(r) PROVE IInv'
<1>1. CASE KeyTaken(req[r].key)
  BY <1>1, RollbackStep DEF InsertAttempt
<1>2. CASE ~KeyTaken(req[r].key)
  <2>1. PICK a \in Attempts :
          /\ attempt[a] = Absent
          /\ \A p \in Requests : req[p].attempt # a
          /\ req' = [req EXCEPT ![r] = [req[r] EXCEPT !.pc = "link", !.attempt = a]]
          /\ UNCHANGED <<db, psp, sent, owner, issued>>
    BY <1>2 DEF InsertAttempt
  <2>2. PICK q : q = [req[r] EXCEPT !.pc = "link", !.attempt = a]
    OBVIOUS
  <2>3. /\ req[r] \in Request /\ req[r].order \in Orders
        /\ ~KeyInFlight(r, req[r].key)
    BY DEF InsertAttempt, IInv, Relies
  <2>4. /\ q \in Request /\ q.pc = "link" /\ q.attempt = a
        /\ q.order = req[r].order /\ q.key = req[r].key
    BY <2>2, <2>3 DEF Request
  <2>5. req'[r] = q /\ \A p \in Requests \ {r} : req'[p] = req[p]
    BY <2>1, <2>2 DEF IInv
  <2>6. \A p \in Requests \ {r} : req[p].pc = "link" =>
            req[p].attempt # a /\ (q.key # NoKey => req[p].key # q.key)
    BY <2>1, <2>3, <2>4 DEF KeyInFlight
  <2>7. OwnsNew(r)'
    <3>1. attempt' = attempt
      BY <2>1 DEF db
    <3>2. q.key # NoKey => ~KeyInFlight(r, q.key)'
      BY <2>5, <2>6 DEF KeyInFlight
    <3>3. q.key # NoKey => \A b \in Attempts : attempt[b].key # q.key
      BY <1>2, <2>4 DEF KeyTaken
    <3> QED
      BY <2>1, <2>4, <2>5, <3>1, <3>2, <3>3 DEF OwnsNew
  <2>8. Relies(r)'
    BY <2>3, <2>4, <2>5, <2>7
       DEF Relies, KnowsAttempt, HoldsAttempt, KnowsAnswer, Holding
  <2> QED
    BY <2>1, <2>2, <2>4, <2>6, <2>8, Quiet DEF db, IInv, TypeOK
<1> QED
  BY <1>1, <1>2

\* init() commits its attempt: until then nobody could have paid for it.
LEMMA LinkLatestStep == ASSUME IInv, NEW r \in Requests, LinkLatest(r) PROVE IInv'
<1>1. PICK s \in InitOutcomes :
         /\ attempt' = [attempt EXCEPT ![req[r].attempt] =
                          [order |-> req[r].order, status |-> s, key |-> req[r].key]]
         /\ status' = [status EXCEPT ![req[r].order] =
              IF s = "verified" /\ req[r].view = "pending" THEN "on_hold"
              ELSE IF req[r].told = "reopened" THEN "pending" ELSE @]
  BY DEF LinkLatest
<1>2. /\ req[r].pc = "link" /\ End(r) /\ UNCHANGED <<charged, event, psp, sent>>
      /\ latest' = [latest EXCEPT ![req[r].order] = req[r].attempt]
      /\ req[r] \in Request
  BY DEF LinkLatest, End, IInv
<1>3. /\ req[r].order \in Orders /\ req[r].attempt \in Attempts
      /\ attempt[req[r].attempt] = Absent
      /\ req[r].key # NoKey => \A b \in Attempts : attempt[b].key # req[r].key
  BY <1>2 DEF IInv, Relies, OwnsNew
<1>4. PICK a \in Attempts : a = req[r].attempt
  BY <1>3
<1>5. /\ attempt'[a].order = req[r].order /\ attempt'[a].status = s
      /\ attempt'[a].key = req[r].key
      /\ \A b \in Attempts \ {a} : attempt'[b] = attempt[b]
      /\ \A b \in Attempts \ {a} : event'[b] = event[b]
  BY <1>1, <1>2, <1>4 DEF IInv, TypeOK
<1>6. \A p \in Requests : Relies(p)'
  BY <1>2, <1>4, <1>5, Undisturbed
<1>7. sent[a] = {} /\ psp[a] = "open" /\ event[a] = "none"
  BY <1>3, <1>4 DEF IInv, Books, Unheard
<1>8. TypeOK'
  <2>1. status' \in [Orders -> OrderStatuses]
    BY <1>1, <1>3 DEF IInv, TypeOK, OrderStatuses
  <2>2. attempt' \in [Attempts ->
           [order : Orders, status : AttemptStatuses, key : Keys \cup {NoKey}]
           \cup {Absent}]
    BY <1>1, <1>2, <1>3 DEF IInv, TypeOK, InitOutcomes, AttemptStatuses, Request
  <2>3. latest' \in [Orders -> Attempts \cup {None}]
    BY <1>2, <1>3 DEF IInv, TypeOK
  <2>4. ASSUME NEW o \in Orders, latest'[o] # None
        PROVE  attempt'[latest'[o]].order = o
    <3>1. CASE o = req[r].order
      BY <1>2, <1>4, <1>5, <3>1 DEF IInv, TypeOK
    <3>2. CASE o # req[r].order
      <4>1. latest'[o] = latest[o] /\ attempt[latest[o]].order = o /\ latest[o] \in Attempts
        BY <1>2, <2>4, <3>2 DEF IInv, TypeOK
      <4>2. latest[o] # a
        BY <1>3, <1>4, <4>1, PaymentsAssumption DEF Absent
      <4> QED
        BY <1>5, <4>1, <4>2
    <3> QED
      BY <3>1, <3>2
  <2> QED
    BY <1>2, <2>1, <2>2, <2>3, <2>4, EndTyped DEF IInv, TypeOK, End
<1>9. Books'
  <2>1. Unheard'
    BY <1>2, <1>5, <1>7 DEF IInv, Books, Unheard
  <2>2. LedgerMatchesAttempt'
    BY <1>2, <1>5, <1>7 DEF IInv, Books, LedgerMatchesAttempt, Declines
  <2>3. ChargeIsSettled'
    <3>1. ASSUME NEW o \in Orders, charged[o] # None
          PROVE  charged[o] \in Attempts \ {a}
      BY <1>7, <3>1 DEF PaidFor, IInv, Books, ChargeIsSettled, TypeOK
    <3> QED
      BY <1>2, <1>5, <3>1 DEF PaidFor, IInv, Books, ChargeIsSettled
  <2>4. OneAttemptPerKey'
    BY <1>3, <1>4, <1>5 DEF IInv, Books, OneAttemptPerKey
  <2> QED
    BY <2>1, <2>2, <2>3, <2>4 DEF Books
<1> QED
  BY <1>2, <1>6, <1>8, <1>9, EndTyped DEF IInv

\* What the holder of an attempt whose outcome is open knows of it.
LEMMA OpenAttempt ==
    ASSUME IInv, NEW r \in Requests, req[r].pc \in {"recorded", "answered"},
           event[req[r].attempt] = "none"
    PROVE  /\ req[r].order \in Orders
           /\ req[r].attempt \in Attempts
           /\ sent[req[r].attempt] # {}
           /\ attempt[req[r].attempt] \in
                 [order : Orders, status : AttemptStatuses, key : Keys \cup {NoKey}]
           /\ attempt[req[r].attempt].order = req[r].order
           /\ attempt[req[r].attempt].status = req[r].seen
           /\ req[r].seen # "verified"
<1>1. /\ req[r].order \in Orders /\ req[r].attempt \in Attempts
      /\ sent[req[r].attempt] # {}
      /\ attempt[req[r].attempt].order = req[r].order
      /\ attempt[req[r].attempt].status = req[r].seen
  BY DEF IInv, Relies, KnowsAttempt, HoldsAttempt, Holding
<1>2. attempt[req[r].attempt] # Absent
  BY <1>1 DEF IInv, Books, Unheard
<1>3. req[r].seen # "verified"
  BY <1>1 DEF IInv, Books, LedgerMatchesAttempt
<1> QED
  BY <1>1, <1>2, <1>3 DEF IInv, TypeOK

\* The ledger row and the attempt are written together, once.
LEMMA AnswerStep ==
    ASSUME IInv, NEW r \in Requests, req[r].pc \in {"recorded", "answered"},
           event[req[r].attempt] = "none",
           NEW s \in AttemptStatuses, NEW outcome \in Outcomes,
           NEW to \in {"processing", "failed"}, Answer(r, s, outcome, to),
           \/ outcome = "verified" /\ s = "verified" /\ PaidFor(req[r].attempt)
           \/ outcome \in Declines /\ s = outcome
           \/ outcome \in {"verify_failed", "amount_mismatch"} /\ s = "failed"
    PROVE  IInv'
<1>1. PICK a \in Attempts : a = req[r].attempt
  BY OpenAttempt
<1>2. /\ req[r].order \in Orders /\ sent[a] # {} /\ event[a] = "none"
      /\ attempt[a] \in
            [order : Orders, status : AttemptStatuses, key : Keys \cup {NoKey}]
      /\ attempt[a].order = req[r].order
      /\ attempt[a].status # "verified"
  BY <1>1, OpenAttempt
<1>3. /\ attempt' = [attempt EXCEPT ![a].status = s]
      /\ event' = [event EXCEPT ![a] = outcome]
      /\ status' = IF req[r].view = "pending" /\ to # "pending"
                   THEN [status EXCEPT ![req[r].order] = to] ELSE status
      /\ latest' = [latest EXCEPT ![req[r].order] = a]
      /\ charged' = IF outcome = "verified"
                    THEN [charged EXCEPT ![req[r].order] = a] ELSE charged
      /\ End(r) /\ UNCHANGED <<psp, sent, issued>>
  BY <1>1 DEF Answer, End
<1>4. /\ \A b \in Attempts \ {a} : attempt'[b] = attempt[b] /\ event'[b] = event[b]
      /\ attempt'[a] \in
            [order : Orders, status : AttemptStatuses, key : Keys \cup {NoKey}]
      /\ attempt'[a].order = req[r].order /\ attempt'[a].key = attempt[a].key
      /\ attempt'[a].status = s /\ event'[a] = outcome
  BY <1>2, <1>3 DEF IInv, TypeOK
<1>5. \A p \in Requests : Relies(p)'
  BY <1>1, <1>3, <1>4, Undisturbed
<1>6. \A b \in Attempts : attempt'[b].order = attempt[b].order /\ attempt'[b].key = attempt[b].key
  BY <1>2, <1>4
<1>7. TypeOK'
  <2>1. status' \in [Orders -> OrderStatuses]
    BY <1>2, <1>3 DEF IInv, TypeOK, OrderStatuses
  <2>2. attempt' \in [Attempts ->
           [order : Orders, status : AttemptStatuses, key : Keys \cup {NoKey}]
           \cup {Absent}]
    BY <1>3, <1>4 DEF IInv, TypeOK
  <2>3. /\ latest' \in [Orders -> Attempts \cup {None}]
        /\ charged' \in [Orders -> Attempts \cup {None}]
        /\ event' \in [Attempts -> Outcomes \cup {"none"}]
    BY <1>2, <1>3 DEF IInv, TypeOK
  <2>4. \A o \in Orders : latest'[o] # None => attempt'[latest'[o]].order = o
    <3>1. \A o \in Orders \ {req[r].order} : latest'[o] = latest[o]
      BY <1>3 DEF IInv, TypeOK
    <3>2. latest'[req[r].order] = a
      BY <1>2, <1>3 DEF IInv, TypeOK
    <3>3. ASSUME NEW o \in Orders \ {req[r].order}, latest[o] # None
          PROVE  attempt'[latest[o]].order = o
      <4>1. latest[o] \in Attempts /\ attempt[latest[o]].order = o
        BY <3>3 DEF IInv, TypeOK
      <4> QED
        BY <1>6, <4>1
    <3> QED
      BY <1>4, <3>1, <3>2, <3>3
  <2> QED
    BY <1>3, <2>1, <2>2, <2>3, <2>4, EndTyped DEF IInv, TypeOK
<1>8. Books'
  <2>1. Unheard'
    BY <1>2, <1>3, <1>4, PaymentsAssumption DEF Absent, IInv, Books, Unheard
  <2>2. LedgerMatchesAttempt'
    BY <1>2, <1>3, <1>4 DEF IInv, Books, LedgerMatchesAttempt, Declines
  <2>3. ChargeIsSettled'
    <3>1. ASSUME NEW o \in Orders, charged'[o] # None
          PROVE  /\ PaidFor(charged[o])'
                 /\ attempt'[charged'[o]].status = "verified"
                 /\ attempt'[charged'[o]].order = o
      <4>1. CASE charged'[o] = charged[o]
        <5>1. /\ charged[o] \in Attempts /\ PaidFor(charged[o])
              /\ attempt[charged[o]].status = "verified"
              /\ attempt[charged[o]].order = o
          BY <3>1, <4>1 DEF IInv, TypeOK, Books, ChargeIsSettled
        <5>2. charged[o] # a
          BY <1>2, <5>1
        <5> QED
          BY <1>3, <1>4, <4>1, <5>1, <5>2 DEF PaidFor
      <4>2. CASE charged'[o] # charged[o]
        <5>1. outcome = "verified" /\ o = req[r].order /\ charged'[o] = a
          BY <1>2, <1>3, <4>2 DEF IInv, TypeOK
        <5>2. s = "verified" /\ PaidFor(a)
          BY <1>1, <5>1 DEF Declines
        <5> QED
          BY <1>3, <1>4, <5>1, <5>2 DEF PaidFor
      <4> QED
        BY <4>1, <4>2
    <3> QED
      BY <3>1 DEF ChargeIsSettled
  <2>4. OneAttemptPerKey'
    BY <1>6 DEF IInv, Books, OneAttemptPerKey
  <2> QED
    BY <2>1, <2>2, <2>3, <2>4 DEF Books
<1> QED
  BY <1>3, <1>5, <1>7, <1>8, EndTyped DEF IInv

\* parsed.status decides; a verified attempt would be in the ledger.
LEMMA AnswerUnaskedStep ==
    ASSUME IInv, NEW r \in Requests, AnswerUnasked(r) PROVE IInv'
<1>1. req[r].pc = "recorded" /\ event[req[r].attempt] = "none"
  BY DEF AnswerUnasked, Replayed
<1>2. req[r].seen # "verified"
  BY <1>1, OpenAttempt
<1>3. req[r].told \in Declines
      /\ Answer(r, req[r].told, req[r].told, "failed")
  BY <1>2 DEF AnswerUnasked
<1>4. req[r].told \in AttemptStatuses /\ req[r].told \in Outcomes
  BY <1>3 DEF Declines, AttemptStatuses, Outcomes
<1> QED
  BY <1>1, <1>3, <1>4, AnswerStep

LEMMA VerifyAnsweredStep ==
    ASSUME IInv, NEW r \in Requests, VerifyAnswered(r) PROVE IInv'
<1>1. /\ req[r].pc = "answered" /\ event[req[r].attempt] = "none"
      /\ req[r].told = "ok" => PaidFor(req[r].attempt)
  BY DEF VerifyAnswered, IInv, Relies, KnowsAnswer
<1>2. {"verified", "failed"} \subseteq AttemptStatuses
      /\ {"verified", "verify_failed", "amount_mismatch"} \subseteq Outcomes
  BY DEF AttemptStatuses, Outcomes
<1>3. CASE req[r].told = "ok" /\ Answer(r, "verified", "verified", "processing")
  BY <1>1, <1>2, <1>3, AnswerStep
<1>4. CASE NotVerified(r, "amount_mismatch")
  BY <1>1, <1>2, <1>4, AnswerStep DEF NotVerified
<1>5. CASE NotVerified(r, "verify_failed")
  BY <1>1, <1>2, <1>5, AnswerStep DEF NotVerified
<1> QED
  BY <1>3, <1>4, <1>5 DEF VerifyAnswered

\* A replay only points the order to the attempt again.
LEMMA ReplayStep == ASSUME IInv, NEW r \in Requests, Replay(r) PROVE IInv'
<1>1. /\ req[r].pc = "recorded" /\ End(r)
      /\ latest' = [latest EXCEPT ![req[r].order] = req[r].attempt]
      /\ UNCHANGED <<status, charged, attempt, event, psp, sent, issued>>
      /\ req' = [req EXCEPT ![r] = Idle]
  BY DEF Replay, End
<1>2. /\ req[r].order \in Orders /\ req[r].attempt \in Attempts
      /\ attempt[req[r].attempt].order = req[r].order
  BY <1>1 DEF IInv, Relies, KnowsAttempt, Holding
<1>3. /\ latest' \in [Orders -> Attempts \cup {None}]
      /\ \A o \in Orders : latest'[o] # None => attempt[latest'[o]].order = o
      /\ status' \in [Orders -> OrderStatuses] /\ issued' \in Nat
  BY <1>1, <1>2 DEF IInv, TypeOK
<1>4. \A p \in Requests \ {r} : req[p].pc = "link" => req[p].attempt # Idle.attempt
  BY IdleType, PaymentsAssumption DEF IInv, Relies, OwnsNew
<1>5. Relies(r)'
  BY <1>1, EndTyped, IdleRelies
<1> QED
  BY <1>1, <1>3, <1>4, <1>5, EndTyped, IdleType, Quiet

\* verify() threw: the ledger row is committed, the attempt is as it was.
LEMMA VerifyThrowsStep == ASSUME IInv, NEW r \in Requests, VerifyThrows(r) PROVE IInv'
<1>1. /\ req[r].pc = "answered" /\ End(r) /\ event[req[r].attempt] = "none"
      /\ event' = [event EXCEPT ![req[r].attempt] = "pending"]
      /\ UNCHANGED <<status, charged, latest, attempt, psp, sent, issued>>
  BY DEF VerifyThrows, End, IInv, Relies, KnowsAnswer
<1>2. PICK a \in Attempts : a = req[r].attempt
  BY <1>1, OpenAttempt
<1>3. /\ sent[a] # {} /\ attempt[a].status # "verified"
      /\ attempt[a].order = req[r].order
  BY <1>1, <1>2, OpenAttempt
<1>4. event'[a] = "pending" /\ \A b \in Attempts \ {a} : event'[b] = event[b]
  BY <1>1, <1>2 DEF IInv, TypeOK
<1>5. \A p \in Requests : Relies(p)'
  BY <1>1, <1>2, <1>3, <1>4, Undisturbed
<1>6. TypeOK'
  BY <1>1, EndTyped DEF IInv, TypeOK, Outcomes
<1>7. Books'
  <2>1. Unheard'
    BY <1>1, <1>3, <1>4 DEF IInv, Books, Unheard
  <2>2. LedgerMatchesAttempt'
    BY <1>1, <1>3, <1>4 DEF IInv, Books, LedgerMatchesAttempt, Declines
  <2>3. ChargeIsSettled' /\ OneAttemptPerKey'
    BY <1>1 DEF PaidFor, IInv, Books, ChargeIsSettled, OneAttemptPerKey
  <2> QED
    BY <2>1, <2>2, <2>3 DEF Books
<1> QED
  BY <1>1, <1>5, <1>6, <1>7, EndTyped DEF IInv

\* The PSP and the customers: payments are settled once and for all, and callbacks
\* that were sent stay sent.
LEMMA PspStep ==
    ASSUME IInv, UNCHANGED <<charged, latest, attempt, event, owner, issued>>,
           status' \in [Orders -> OrderStatuses],
           psp' \in [Attempts -> {"open", "paid", "mispaid", "settled", "mispaid_settled"}],
           sent' \in [Attempts -> SUBSET (Declines \cup {"success"})],
           \A a \in Attempts :
               /\ sent[a] \subseteq sent'[a]
               /\ sent[a] = {} /\ sent'[a] # {} =>
                     attempt[a] # Absent /\ attempt[a].status # "verified"
               /\ PaidFor(a) => PaidFor(a)'
               /\ sent'[a] = {} => psp'[a] = "open"
    PROVE  /\ TypeOK' /\ Books'
           /\ \A p \in Requests : req'[p] = req[p] => KnowsAttempt(p)' /\ HoldsAttempt(p)'
                                                      /\ KnowsAnswer(p)'
<1>1. TypeOK'
  BY DEF IInv, TypeOK
<1>2. Unheard' /\ ChargeIsSettled' /\ OneAttemptPerKey'
  BY DEF IInv, Books, Unheard, ChargeIsSettled, OneAttemptPerKey, TypeOK
<1>3. LedgerMatchesAttempt'
  BY DEF IInv, Books, LedgerMatchesAttempt
<1>4. ASSUME NEW p \in Requests, req'[p] = req[p]
      PROVE  KnowsAttempt(p)' /\ HoldsAttempt(p)' /\ KnowsAnswer(p)'
  <2>1. Relies(p)
    BY DEF IInv
  <2>2. KnowsAttempt(p)'
    BY <1>4, <2>1 DEF Relies, KnowsAttempt
  <2>3. HoldsAttempt(p)'
    BY <1>4, <2>1 DEF Relies, HoldsAttempt
  <2>4. KnowsAnswer(p)'
    BY <1>4, <2>1 DEF Relies, KnowsAttempt, KnowsAnswer, Holding
  <2> QED
    BY <2>2, <2>3, <2>4
<1> QED
  BY <1>1, <1>2, <1>3, <1>4 DEF Books

LEMMA WorldStep == ASSUME IInv, World PROVE IInv'
<1>1. /\ UNCHANGED <<charged, latest, attempt, event, owner, req, issued>>
      /\ status' \in [Orders -> OrderStatuses]
  BY DEF World, Customer, Declined, Pays, AdminTransition, db, IInv, TypeOK
<1>2. /\ psp' \in [Attempts -> {"open", "paid", "mispaid", "settled", "mispaid_settled"}]
      /\ sent' \in [Attempts -> SUBSET (Declines \cup {"success"})]
      /\ \A a \in Attempts :
            /\ sent[a] \subseteq sent'[a]
            /\ sent[a] = {} /\ sent'[a] # {} =>
                  attempt[a] # Absent /\ attempt[a].status # "verified"
            /\ PaidFor(a) => PaidFor(a)'
            /\ sent'[a] = {} => psp'[a] = "open"
  <2>1. CASE \E a \in Attempts, how \in Declines : Declined(a, how)
    BY <2>1 DEF PaidFor, Declined, IInv, TypeOK, Books, Unheard, Absent
  <2>2. CASE \E a \in Attempts, how \in {"paid", "mispaid"} : Pays(a, how)
    <3>1. PICK a \in Attempts, how \in {"paid", "mispaid"} : Pays(a, how)
      BY <2>2
    <3>2. /\ psp' = [psp EXCEPT ![a] = how] /\ psp[a] = "open"
          /\ sent' = [sent EXCEPT ![a] = @ \cup {"success"}]
          /\ attempt[a].status = "awaiting_callback" \/ sent[a] # {}
      BY <3>1 DEF Pays
    <3>3. /\ psp \in [Attempts -> {"open", "paid", "mispaid", "settled", "mispaid_settled"}]
          /\ sent \in [Attempts -> SUBSET (Declines \cup {"success"})]
          /\ \A b \in Attempts : sent[b] = {} => psp[b] = "open"
      BY DEF IInv, TypeOK, Books, Unheard
    <3>4. /\ \A b \in Attempts \ {a} : psp'[b] = psp[b] /\ sent'[b] = sent[b]
          /\ sent'[a] = sent[a] \cup {"success"}
      BY <3>2, <3>3
    <3>5. /\ psp' \in [Attempts -> {"open", "paid", "mispaid", "settled", "mispaid_settled"}]
          /\ sent' \in [Attempts -> SUBSET (Declines \cup {"success"})]
      BY <3>2, <3>3
    <3>6. sent[a] = {} => attempt[a] # Absent /\ attempt[a].status # "verified"
      BY <3>2 DEF Absent
    <3> QED
      BY <3>2, <3>3, <3>4, <3>5, <3>6 DEF PaidFor
  <2>3. CASE \E o \in Orders : AdminTransition(o)
    BY <2>3 DEF PaidFor, AdminTransition, IInv, TypeOK, Books, Unheard
  <2> QED
    BY <2>1, <2>2, <2>3 DEF World, Customer
<1>3. TypeOK' /\ Books'
      /\ \A p \in Requests : KnowsAttempt(p)' /\ HoldsAttempt(p)' /\ KnowsAnswer(p)'
  BY <1>1, <1>2, PspStep
<1>4. \A p \in Requests : OwnsNew(p)' /\ (req'[p].pc \notin {"idle"} => req'[p].order \in Orders)
  BY <1>1 DEF IInv, Relies, OwnsNew, KeyInFlight
<1>5. req' \in [Requests -> Request]
  BY <1>1 DEF IInv
<1> QED
  BY <1>3, <1>4, <1>5 DEF IInv, Relies

LEMMA VerifyStep == ASSUME IInv, NEW r \in Requests, Verify(r) PROVE IInv'
<1>1. PICK t \in Answers :
        /\ req' = [req EXCEPT ![r] = [req[r] EXCEPT !.pc = "answered", !.told = t]]
        /\ \/ /\ t \in {"ok", "mismatch"} /\ psp[req[r].attempt] # "open"
              /\ t = AmountGuard(req[r].attempt)
              /\ psp' = [psp EXCEPT ![req[r].attempt] = Settled(req[r].attempt)]
           \/ /\ t = "throws"
              /\ psp' \in {psp, [psp EXCEPT ![req[r].attempt] = Settled(req[r].attempt)]}
           \/ t = "rejected" /\ UNCHANGED psp
  BY DEF Verify
<1>2. PICK q : q = [req[r] EXCEPT !.pc = "answered", !.told = t]
  OBVIOUS
<1>3. /\ req[r] \in Request /\ req[r].pc = "recorded" /\ req[r].seen # "verified"
      /\ event[req[r].attempt] = "none"
      /\ UNCHANGED <<db, sent, owner, issued>>
  BY DEF Verify, IInv, Replayed
<1>4. /\ q \in Request /\ q.pc = "answered" /\ q.told = t /\ q.seen = req[r].seen
      /\ q.order = req[r].order /\ q.attempt = req[r].attempt
  BY <1>2, <1>3 DEF Request, Holding
<1>5. /\ req' \in [Requests -> Request]
      /\ req'[r] = q /\ \A p \in Requests \ {r} : req'[p] = req[p]
  BY <1>1, <1>2, <1>4 DEF IInv
<1>6. PICK a \in Attempts : a = req[r].attempt
  BY <1>3, OpenAttempt
<1>7. sent[a] # {} /\ attempt[a] # Absent /\ req[r].order \in Orders
  BY <1>3, <1>6, OpenAttempt DEF IInv, Books, Unheard
<1>8. /\ psp \in [Attempts -> {"open", "paid", "mispaid", "settled", "mispaid_settled"}]
      /\ psp' \in {psp, [psp EXCEPT ![a] = Settled(a)]}
  BY <1>1, <1>6 DEF IInv, TypeOK
<1>9. /\ Settled(a) \in {"open", "paid", "mispaid", "settled", "mispaid_settled"}
      /\ psp[a] \in {"settled", "mispaid_settled"} => Settled(a) = psp[a]
  BY <1>8 DEF Settled
<1>10. /\ psp' \in [Attempts -> {"open", "paid", "mispaid", "settled", "mispaid_settled"}]
       /\ \A b \in Attempts : PaidFor(b) => PaidFor(b)'
       /\ \A b \in Attempts \ {a} : psp'[b] = psp[b]
  BY <1>8, <1>9 DEF PaidFor
<1>11. UNCHANGED <<status, charged, latest, attempt, event, owner, issued, sent>>
  BY <1>3 DEF db
<1>12. /\ status' \in [Orders -> OrderStatuses]
       /\ sent' \in [Attempts -> SUBSET (Declines \cup {"success"})]
       /\ \A b \in Attempts : sent'[b] = {} => psp'[b] = "open"
  BY <1>7, <1>10, <1>11 DEF IInv, TypeOK, Books, Unheard
<1>13. /\ TypeOK' /\ Books'
       /\ \A p \in Requests : req'[p] = req[p] => KnowsAttempt(p)' /\ HoldsAttempt(p)'
                                                  /\ KnowsAnswer(p)'
  BY <1>10, <1>11, <1>12, PspStep
<1>14. ASSUME NEW p \in Requests \ {r} PROVE Relies(p)'
  <2>1. Relies(p) /\ req'[p] = req[p] /\ attempt' = attempt
    BY <1>5, <1>11 DEF IInv
  <2>2. OwnsNew(p)'
    <3> SUFFICES ASSUME req[p].pc = "link" PROVE OwnsNew(p)'
      BY <2>1 DEF OwnsNew
    <3>1. \A x \in Requests \ {p} : req'[x].attempt # req[p].attempt
      BY <1>4, <1>5, <2>1 DEF Relies, OwnsNew
    <3>2. req[p].key # NoKey => ~KeyInFlight(p, req[p].key)'
      BY <1>4, <1>5, <2>1 DEF Relies, OwnsNew, KeyInFlight
    <3> QED
      BY <2>1, <3>1, <3>2 DEF Relies, OwnsNew
  <2> QED
    BY <1>13, <2>1, <2>2 DEF Relies
<1>15. Relies(r)'
  <2>1. OwnsNew(r)'
    BY <1>4, <1>5 DEF OwnsNew
  <2>2. KnowsAttempt(r)' /\ HoldsAttempt(r)'
    BY <1>3, <1>4, <1>5, <1>11 DEF IInv, Relies, KnowsAttempt, HoldsAttempt, Holding
  <2>3. t = "ok" => PaidFor(a)'
    BY <1>1, <1>6, <1>8 DEF AmountGuard, Settled, PaidFor
  <2>4. KnowsAnswer(r)'
    BY <1>3, <1>4, <1>5, <1>6, <1>11, <2>3 DEF KnowsAnswer
  <2> QED
    BY <1>4, <1>5, <1>7, <2>1, <2>2, <2>4 DEF Relies
<1> QED
  BY <1>5, <1>13, <1>14, <1>15 DEF IInv
----------------------------------------------------------------------------
LEMMA InitIInv == ASSUME Init PROVE IInv
<1>1. TypeOK
  BY PaymentsAssumption DEF Init, TypeOK, OrderStatuses
<1>2. Books
  <2>1. \A a \in Attempts : attempt[a].status = "absent" /\ attempt[a].key = NoKey
    BY DEF Init, Absent
  <2> QED
    BY <2>1 DEF Init, Books, Unheard, LedgerMatchesAttempt, ChargeIsSettled,
                OneAttemptPerKey, Declines
<1>3. req \in [Requests -> Request]
  BY IdleType DEF Init
<1>4. ASSUME NEW r \in Requests PROVE Relies(r)
  BY IdleType DEF Init, Relies, OwnsNew, KnowsAttempt, HoldsAttempt, KnowsAnswer, Holding
<1> QED
  BY <1>1, <1>2, <1>3, <1>4 DEF IInv

LEMMA StepIInv == ASSUME IInv, NEW r \in Requests, Step(r) PROVE IInv'
<1>1. CASE InitPayment(r) \/ PayLink(r) \/ SaveOrder(r) \/ FindAttempt(r)
           \/ InsertAttempt(r) \/ LinkLatest(r)
  BY <1>1, InitPaymentStep, PayLinkStep, SaveOrderStep, FindAttemptStep,
     InsertAttemptStep, LinkLatestStep
<1>2. CASE Callback(r) \/ LockAttempt(r) \/ LockOrder(r) \/ Replay(r)
  BY <1>2, CallbackStep, LockAttemptStep, LockOrderStep, ReplayStep
<1>3. CASE AnswerUnasked(r) \/ Verify(r) \/ VerifyAnswered(r) \/ VerifyThrows(r)
  BY <1>3, AnswerUnaskedStep, VerifyStep, VerifyAnsweredStep, VerifyThrowsStep
<1>4. CASE RequestFails(r)
  BY <1>4, RollbackStep DEF RequestFails
<1> QED
  BY <1>1, <1>2, <1>3, <1>4 DEF Step, Arrives, Serve

LEMMA NextIInv == IInv /\ [Next]_vars => IInv'
<1> SUFFICES ASSUME IInv, [Next]_vars PROVE IInv'
  OBVIOUS
<1>1. CASE UNCHANGED vars
  <2>1. UNCHANGED <<status, charged, latest, attempt, event, psp, sent, owner, req, issued>>
    BY <1>1 DEF vars
  <2>2. \A p \in Requests : OwnsNew(p)' /\ (req'[p].pc \notin {"idle"} => req'[p].order \in Orders)
    BY <2>1 DEF IInv, Relies, OwnsNew, KeyInFlight
  <2>3. TypeOK' /\ Books'
    BY <2>1 DEF PaidFor, IInv, TypeOK, Books, Unheard, LedgerMatchesAttempt, ChargeIsSettled,
                OneAttemptPerKey
  <2>4. \A p \in Requests : KnowsAttempt(p)' /\ HoldsAttempt(p)' /\ KnowsAnswer(p)'
    BY <2>1 DEF PaidFor, IInv, Relies, KnowsAttempt, HoldsAttempt, KnowsAnswer
  <2> QED
    BY <2>1, <2>2, <2>3, <2>4 DEF IInv, Relies
<1> QED
  BY <1>1, WorldStep, StepIInv DEF Next

\* The inductive invariant: what the holder of an attempt knows of it, and that an
\* attempt in the making is nobody else's.
THEOREM Invariance == Spec => []IInv
<1> QED
  BY InitIInv, NextIInv, PTL DEF Spec

\* Type correctness, and an order's last attempt is an attempt for that order
\* (payment_service.ts:126-131).
THEOREM TypeCorrect == Spec => []TypeOK
<1>1. IInv => TypeOK
  BY DEF IInv
<1> QED
  BY <1>1, Invariance, PTL

\* The ledger and the attempt tell the same story, however often and in whichever
\* order callbacks arrive (payment_service.ts:203-227).
THEOREM LedgerAgrees == Spec => []LedgerMatchesAttempt
<1>1. IInv => LedgerMatchesAttempt
  BY DEF IInv, Books
<1> QED
  BY <1>1, Invariance, PTL

\* The PSP is asked about an attempt by one callback at a time, and never about
\* one with an outcome (payment_service.ts:46-48).
THEOREM AskedOnce == Spec => []VerifyExclusive
<1>1. IInv => VerifyExclusive
  <2> SUFFICES ASSUME IInv, NEW r \in Requests, req[r].pc = "answered"
               PROVE  /\ event[req[r].attempt] = "none"
                      /\ \A p \in Requests \ {r} :
                            req[p].attempt = req[r].attempt => req[p].pc # "answered"
    BY DEF VerifyExclusive
  <2>1. event[req[r].attempt] = "none" /\ owner[req[r].attempt] = r
    BY DEF IInv, Relies, KnowsAnswer, HoldsAttempt, Holding
  <2>2. \A p \in Requests : req[p].pc = "answered" => owner[req[p].attempt] = p
    BY DEF IInv, Relies, HoldsAttempt, Holding
  <2> QED
    BY <2>1, <2>2
<1> QED
  BY <1>1, Invariance, PTL

\* Only a payment the PSP settled charges an order, in the amount of its attempt or
\* in one that its adapter does not report (payment_service.ts:274-283).
THEOREM ChargedWhenSettled == Spec => []ChargeIsSettled
<1>1. IInv => ChargeIsSettled
  BY DEF IInv, Books
<1> QED
  BY <1>1, Invariance, PTL

\* One Idempotency-Key, one attempt (payment_service.ts:60-62).
THEOREM OneKeyOneAttempt == Spec => []OneAttemptPerKey
<1>1. IInv => OneAttemptPerKey
  BY DEF IInv, Books
<1> QED
  BY <1>1, Invariance, PTL

\* No callback and no init() touches a verified attempt (payment_service.ts:230).
THEOREM VerifiedStays == Spec => VerifiedIsFinal
<1>1. IInv /\ [Next]_vars =>
        [\A a \in Attempts :
            attempt[a].status = "verified" => attempt'[a] = attempt[a]]_vars
  <2> SUFFICES ASSUME IInv, [Next]_vars, NEW a \in Attempts,
                      attempt[a].status = "verified"
               PROVE  attempt'[a] = attempt[a]
    OBVIOUS
  <2>1. ASSUME NEW r \in Requests, LinkLatest(r) PROVE attempt'[a] = attempt[a]
    <3>1. attempt[req[r].attempt] = Absent
      BY <2>1 DEF LinkLatest, IInv, Relies, OwnsNew
    <3>2. req[r].attempt # a
      BY <3>1 DEF Absent
    <3> QED
      BY <2>1, <3>2 DEF LinkLatest, IInv, TypeOK
  <2>2. ASSUME NEW r \in Requests, AnswerUnasked(r) \/ VerifyAnswered(r)
        PROVE  attempt'[a] = attempt[a]
    <3>1. req[r].pc \in {"recorded", "answered"} /\ event[req[r].attempt] = "none"
      BY <2>2 DEF AnswerUnasked, VerifyAnswered, Replayed, IInv, Relies, KnowsAnswer
    <3>2. req[r].attempt # a
      BY <3>1, OpenAttempt
    <3> QED
      BY <2>2, <3>2
         DEF AnswerUnasked, VerifyAnswered, NotVerified, Answer, IInv, TypeOK
  <2>3. \A r \in Requests : Rollback(r) => attempt' = attempt
    BY DEF Rollback, db
  <2>4. \A r, q : Begin(r, q) => attempt' = attempt
    BY DEF Begin, db
  <2>5. \A r, w, q : Lock(r, w, q) => attempt' = attempt
    BY DEF Lock, db
  <2>6. World \/ UNCHANGED vars => attempt' = attempt
    BY DEF World, Customer, Declined, Pays, AdminTransition, db, vars
  <2>7. ASSUME NEW r \in Requests, Step(r) PROVE attempt'[a] = attempt[a]
    BY <2>1, <2>2, <2>3, <2>4, <2>5, <2>7
       DEF Step, Arrives, Serve, InitPayment, PayLink, SaveOrder, FindAttempt, InsertAttempt, Callback,
           LockAttempt, LockOrder, Replay, Verify, VerifyThrows, RequestFails, db
  <2> QED
    BY <2>6, <2>7 DEF Next
<1> QED
  BY <1>1, Invariance, PTL DEF Spec, VerifiedIsFinal
=============================================================================
