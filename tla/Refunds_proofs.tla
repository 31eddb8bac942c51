--------------------------- MODULE Refunds_proofs ---------------------------
(***************************************************************************)
(* What Refunds guarantees for every number of requests, lines, bodies and *)
(* keys.  The argument: only the holder of the order row is between the    *)
(* check of its body and its commit, so what it checked still holds when   *)
(* it commits, whatever became of its lease.                               *)
(***************************************************************************)
EXTENDS Refunds, TLAPS

IInv == TypeOK /\ RefundsBounded /\ CheckedUnderLock /\ PaidBackBooked

\* Every body names each line in one entry, and a body with an amount names
\* none: the assumption under which quantities are bounded.
OneEntryPerLine ==
    \A b \in Payloads :
        /\ b.total = b.largest
        /\ b.kind = "amount" => b.total = NoLines
----------------------------------------------------------------------------
\* The body of a request that is not there yet has the type of a body.
LEMMA EmptyType == Empty \in Payload /\ Idle \in Request
<1>1. NoLines \in [Lines -> Nat]
  BY DEF NoLines
<1>2. Empty \in Payload
  BY <1>1 DEF Empty, Payload
<1>3. "draft" \in OrderStatuses
  BY DEF OrderStatuses
<1> QED
  BY <1>2, <1>3 DEF Idle, NewRequest, Request, Inside

\* The body a request carries has the type of a body.
LEMMA BodyType == ASSUME TypeOK, NEW r \in Requests
                  PROVE  req[r].body \in Payload
<1>1. req[r].body \in Payloads \cup {Empty}
  BY DEF TypeOK, Request
<1> QED
  BY <1>1, EmptyType, RefundsAssumption

\* A booking request holds the row, so there is one at most.
LEMMA OneInside ==
    ASSUME TypeOK, NEW r \in Requests, NEW p \in Requests,
           req[r].pc \in Inside, req[p].pc \in Inside
    PROVE  p = r
  BY DEF TypeOK

\* The invariant holds before the first refund.
LEMMA InitIInv == ASSUME Init PROVE IInv
<1>1. TypeOK
  <2>1. Idle \in Request
    BY EmptyType
  <2>2. returned \in [Lines -> Nat]
    BY DEF Init, NoLines
  <2>3. \A r \in Requests : req[r] = Idle /\ req[r].pc = "idle"
    BY DEF Init, Idle, NewRequest
  <2>4. \A r \in Requests : owner # r
    BY RefundsAssumption DEF Init
  <2> QED
    BY <2>1, <2>2, <2>3, <2>4 DEF Init, TypeOK, Inside
<1>2. RefundsBounded
  BY RefundsAssumption DEF Init, RefundsBounded
<1>3. CheckedUnderLock
  BY DEF Init, CheckedUnderLock, Idle, NewRequest
<1>4. PaidBackBooked
  BY RefundsAssumption DEF Init, PaidBackBooked, Idle, NewRequest, Empty
<1> QED
  BY <1>1, <1>2, <1>3, <1>4 DEF IInv
----------------------------------------------------------------------------
(* Each action preserves the invariant.                                    *)

\* A request that ends without a commit takes nothing with it that others know.
LEMMA EndsQuietly ==
    ASSUME IInv, NEW r \in Requests,
           req' = [req EXCEPT ![r] = Idle], Unlock(r), Loses(r),
           lease' \in Requests \cup {None, Lost}, UNCHANGED <<db, issued>>
    PROVE  IInv'
<1> USE DEF IInv
<1>1. req' \in [Requests -> Request]
  BY EmptyType DEF TypeOK
<1>2. req'[r] = Idle /\ \A p \in Requests \ {r} : req'[p] = req[p]
  BY DEF TypeOK
<1>3. /\ Idle.pc = "idle" /\ Idle.books = FALSE /\ Idle.paid = 0
      /\ Idle.body.amount = 0 /\ req[r].paid \in Nat
  BY DEF Idle, NewRequest, Empty, TypeOK, Request
<1>4. owner' \in Requests \cup {None}
  BY DEF TypeOK, Unlock
<1>5. \A p \in Requests : owner' = p <=> req'[p].pc \in Inside
  BY <1>2, <1>3, RefundsAssumption DEF TypeOK, Unlock, Inside
<1>6. TypeOK'
  BY <1>1, <1>3, <1>4, <1>5 DEF TypeOK, Loses, db
<1>7. CheckedUnderLock'
  <2> SUFFICES ASSUME NEW p \in Requests, req'[p].books \/ req'[p].pc \in {"idle", "order"}
               PROVE  /\ p # r => req'[p] = req[p]
                      /\ p = r => ~req'[p].books
    BY <1>2, <1>3 DEF CheckedUnderLock, db
  <2> QED
    BY <1>2, <1>3
<1>8. owner # r => req[r].paid = 0
  BY DEF TypeOK, Request, PaidBackBooked, Inside
<1>9. PaidBackBooked'
  <2>1. \A p \in Requests : LET q == req'[p] IN
           /\ q.paid <= q.body.amount
           /\ q.pc \in {"idle", "order", "gateway"} \/ ~q.books => q.paid = 0
    BY <1>2, <1>3 DEF PaidBackBooked
  <2>2. CASE owner = r
    BY <1>3, <2>1, <2>2, RefundsAssumption DEF PaidBackBooked, Unlock, Loses, TypeOK, db
  <2>3. CASE owner # r
    BY <1>2, <1>3, <1>8, <2>1, <2>3 DEF PaidBackBooked, Unlock, Loses, TypeOK, db
  <2> QED
    BY <2>2, <2>3
<1> QED
  BY <1>6, <1>7, <1>9 DEF RefundsBounded, db

\* A request that starts, or is answered 409, knows nothing yet.
LEMMA CreateStep == ASSUME IInv, NEW r \in Requests, Create(r) PROVE IInv'
<1> USE DEF IInv
<1>1. CASE lease = None
  <2>1. PICK body \in Payloads, k \in Keys \cup {NoKey} :
          req' = [req EXCEPT ![r] = NewRequest("order", body, k)]
    BY <1>1 DEF Create
  <2> DEFINE q == NewRequest("order", body, k)
  <2>2. /\ q \in Request /\ q.pc = "order" /\ q.books = FALSE
        /\ q.paid = 0 /\ q.body = body /\ body.amount \in Nat
    BY EmptyType, RefundsAssumption DEF NewRequest, Idle, Request, Payload
  <2>3. req'[r] = q /\ \A p \in Requests \ {r} : req'[p] = req[p]
    BY <2>1 DEF TypeOK
  <2>4. req' \in [Requests -> Request]
    BY <2>1, <2>2 DEF TypeOK
  <2>5. \A p \in Requests : owner' = p <=> req'[p].pc \in Inside
    BY <2>2, <2>3 DEF TypeOK, Create, Inside
  <2>6. TypeOK'
    BY <1>1, <2>4, <2>5 DEF TypeOK, Create, db, psp
  <2>7. CheckedUnderLock'
    BY <2>2, <2>3 DEF CheckedUnderLock, Create, db
  <2>8. PaidBackBooked'
    BY <2>2, <2>3 DEF PaidBackBooked, Create, TypeOK, Inside, db, psp
  <2> QED
    BY <2>6, <2>7, <2>8 DEF RefundsBounded, Create, db
<1>2. CASE lease # None
  BY <1>2 DEF Create, TypeOK, CheckedUnderLock, RefundsBounded, PaidBackBooked, db, psp
<1> QED
  BY <1>1, <1>2

\* The steps of the holder of the row that only move it on.
LEMMA MovesOn ==
    ASSUME IInv, NEW r \in Requests, NEW pc \in {"transition", "leave", "commit"},
           NEW paid \in Nat,
           req[r].pc \in Inside \/ (req[r].pc = "order" /\ Free(r)),
           req' = [req EXCEPT ![r].pc = pc, ![r].paid = paid], owner' = r,
           lease' \in Requests \cup {None, Lost}, UNCHANGED <<db, lost, issued>>,
           paidBack' + req[r].paid = paidBack + paid,
           paidBack' \in Nat,
           req[r].books /\ req[r].full /\ pc \in {"leave", "commit"} =>
               CanTransition(req[r].view, "refunded"),
           pc = "transition" => req[r].books,
           paid <= req[r].body.amount, ~req[r].books => paid = 0
    PROVE  IInv'
<1> USE DEF IInv
<1>1. /\ req'[r] = [req[r] EXCEPT !.pc = pc, !.paid = paid]
      /\ \A p \in Requests \ {r} : req'[p] = req[p]
  BY DEF TypeOK
<1>2. req[r] \in Request
  BY DEF TypeOK
<1>3. req'[r] \in Request /\ req'[r].pc = pc /\ req'[r].paid = paid
      /\ req'[r].books = req[r].books /\ req'[r].full = req[r].full
      /\ req'[r].body = req[r].body /\ req'[r].view = req[r].view
  <2>1. PICK n : n = [req[r] EXCEPT !.pc = pc, !.paid = paid]
    OBVIOUS
  <2>2. PICK q \in Request : q = req[r]
    BY <1>2
  <2>3. n = [q EXCEPT !.pc = pc, !.paid = paid] /\ pc \in {"idle", "order"} \cup Inside
    BY <2>1, <2>2 DEF Inside
  <2>4. /\ n \in Request /\ n.pc = pc /\ n.paid = paid /\ n.books = q.books
        /\ n.full = q.full /\ n.body = q.body /\ n.view = q.view
    BY <2>3 DEF Request
  <2> QED
    BY <1>1, <2>1, <2>2, <2>4
<1>4. req' \in [Requests -> Request]
  BY <1>1, <1>3 DEF TypeOK
<1>5. \A p \in Requests \ {r} : req[p].pc \notin Inside
  BY RefundsAssumption DEF TypeOK, Free
<1>6. TypeOK'
  BY <1>1, <1>3, <1>4, <1>5 DEF TypeOK, Inside, db
<1>7. CheckedUnderLock'
  <2> SUFFICES ASSUME NEW p \in Requests
               PROVE  LET q == req'[p] IN
        /\ q.pc \in {"idle", "order"} => ~q.books
        /\ q.pc \in {"gateway", "transition"} => q.books
        /\ q.books =>
             /\ q.body \in Payloads /\ q.body.kind # "invalid"
             /\ q.body.amount > 0
             /\ refunded + q.body.amount <= GrandTotal
             /\ q.view = status /\ Refundable(status)
             /\ q.full <=> refunded + q.body.amount >= GrandTotal
             /\ q.full /\ q.pc \in {"leave", "commit"} =>
                    CanTransition(q.view, "refunded")
             /\ \A l \in Lines :
                    q.body.kind = "lines" /\ q.body.largest[l] > 0 =>
                        returned[l] + q.body.largest[l] <= Quantity[l]
    BY DEF CheckedUnderLock, db, Refundable
  <2>1. CASE p = r
    BY <1>3, <2>1 DEF CheckedUnderLock
  <2>2. CASE p # r
    BY <1>1, <2>2 DEF CheckedUnderLock
  <2> QED
    BY <2>1, <2>2
<1>8. PaidBackBooked'
  <2>1. \A p \in Requests : LET q == req'[p] IN
           /\ q.paid <= q.body.amount
           /\ q.pc \in {"idle", "order", "gateway"} \/ ~q.books => q.paid = 0
    <3> TAKE p \in Requests
    <3>1. CASE p = r
      BY <1>3, <3>1
    <3>2. CASE p # r
      BY <1>1, <3>2 DEF PaidBackBooked
    <3> QED
      BY <3>1, <3>2
  <2>2. paidBack <= refunded + lost + req[r].paid /\ req[r].paid \in Nat
    <3>1. owner \in {None, r} /\ req[r].paid \in Nat
      BY <1>2 DEF TypeOK, Free, Request
    <3>2. owner # r => req[r].paid = 0
      BY DEF TypeOK, PaidBackBooked
    <3> QED
      BY <3>1, <3>2 DEF PaidBackBooked, TypeOK
  <2> QED
    BY <1>3, <2>1, <2>2, RefundsAssumption DEF PaidBackBooked, TypeOK, db
<1> QED
  BY <1>6, <1>7, <1>8 DEF RefundsBounded, db

\* The same, of a step that does not ask the PSP.
LEMMA MovesOnUnpaid ==
    ASSUME IInv, NEW r \in Requests, NEW pc \in {"leave", "commit"},
           req[r].pc \in Inside \/ (req[r].pc = "order" /\ Free(r)),
           req' = [req EXCEPT ![r].pc = pc], owner' = r,
           lease' \in Requests \cup {None, Lost}, UNCHANGED <<db, psp, issued>>,
           req[r].books /\ req[r].full => CanTransition(req[r].view, "refunded")
    PROVE  IInv'
<1>1. req[r] \in Request /\ req[r].paid \in Nat /\ paidBack \in Nat
      /\ req \in [Requests -> Request]
  BY DEF IInv, TypeOK, Request
<1>2. [req EXCEPT ![r].pc = pc] = [req EXCEPT ![r].pc = pc, ![r].paid = req[r].paid]
  <2>1. PICK q \in Request : q = req[r]
    BY <1>1
  <2>2. [q EXCEPT !.pc = pc] = [q EXCEPT !.pc = pc, !.paid = q.paid]
    BY DEF Request
  <2> QED
    BY <1>1, <2>1, <2>2
<1>3. req[r].paid <= req[r].body.amount /\ (~req[r].books => req[r].paid = 0)
  BY DEF IInv, PaidBackBooked
<1>4. /\ req' = [req EXCEPT ![r].pc = pc, ![r].paid = req[r].paid]
      /\ UNCHANGED <<db, lost, issued, paidBack>>
  BY <1>2 DEF psp
<1> QED
  BY <1>1, <1>3, <1>4, MovesOn

\* Book is the only step that makes a promise, and keeps it: it has just checked.
LEMMA BookStep == ASSUME IInv, NEW r \in Requests, Book(r) PROVE IInv'
<1> USE DEF IInv
<1> DEFINE q == [req[r] EXCEPT !.pc = "gateway", !.books = TRUE,
                               !.view = status, !.full = FullyRefunded(req[r].body)]
<1>1. req'[r] = q /\ (\A p \in Requests \ {r} : req'[p] = req[p])
      /\ req' = [req EXCEPT ![r] = q] /\ owner' = r
      /\ UNCHANGED <<status, refunded, returned, keys, lease, issued, paidBack, lost>>
  BY DEF Book, TypeOK, db, psp
<1>2. FullyRefunded(req[r].body) \in BOOLEAN
  BY DEF FullyRefunded
<1>3. q \in Request /\ q.pc = "gateway" /\ q.books = TRUE /\ q.body = req[r].body
      /\ q.view = status /\ q.full = FullyRefunded(req[r].body)
      /\ q.paid = req[r].paid
  BY <1>2 DEF TypeOK, Request, Inside
<1>4. req' \in [Requests -> Request]
  BY <1>1, <1>3 DEF TypeOK
<1>5. \A p \in Requests \ {r} : req[p].pc \notin Inside
  BY RefundsAssumption DEF TypeOK, Book, Free
<1>6. TypeOK'
  BY <1>1, <1>3, <1>4, <1>5 DEF TypeOK, Inside
<1>7. req[r].body \in Payload
  BY BodyType
<1>8. req[r].body \in Payloads /\ req[r].body.kind # "invalid"
  <2>1. req[r].body.kind # "invalid"
    BY DEF Book, Valid
  <2>2. req[r].body \in Payloads \cup {Empty}
    BY DEF TypeOK, Request
  <2> QED
    BY <2>1, <2>2 DEF Empty
<1>9. /\ req[r].body.amount > 0
      /\ refunded + req[r].body.amount <= GrandTotal
      /\ Refundable(status)
  BY <1>7, RefundsAssumption
  DEF Book, Valid, WithinOutstanding, Payload, TypeOK, RefundsBounded
<1>10. \A l \in Lines : req[r].body.kind = "lines" /\ req[r].body.largest[l] > 0 =>
           returned[l] + req[r].body.largest[l] <= Quantity[l]
  BY <1>7, RefundsAssumption DEF Book, Valid, WithinRemaining, Payload, TypeOK
<1>11. req'[r].full <=> refunded + req'[r].body.amount >= GrandTotal
  BY <1>1, <1>3 DEF FullyRefunded
<1>12. CheckedUnderLock'
  <2> SUFFICES ASSUME NEW p \in Requests
               PROVE  /\ req'[p].pc \in {"idle", "order"} => ~req'[p].books
                      /\ req'[p].pc \in {"gateway", "transition"} => req'[p].books
                      /\ req'[p].books =>
                           /\ req'[p].body \in Payloads
                           /\ req'[p].body.kind # "invalid"
                           /\ req'[p].body.amount > 0
                           /\ refunded + req'[p].body.amount <= GrandTotal
                           /\ req'[p].view = status /\ Refundable(status)
                           /\ req'[p].full <=> refunded + req'[p].body.amount >= GrandTotal
                           /\ req'[p].full /\ req'[p].pc \in {"leave", "commit"} =>
                                  CanTransition(req'[p].view, "refunded")
                           /\ \A l \in Lines :
                                  req'[p].body.kind = "lines"
                                  /\ req'[p].body.largest[l] > 0 =>
                                    returned[l] + req'[p].body.largest[l] <= Quantity[l]
    BY <1>1 DEF CheckedUnderLock, Refundable
  <2>1. CASE p = r
    BY <2>1, <1>1, <1>3, <1>8, <1>9, <1>10, <1>11
  <2>2. CASE p # r
    BY <2>2, <1>1 DEF CheckedUnderLock
  <2> QED
    BY <2>1, <2>2
<1>13. PaidBackBooked'
  <2>1. req[r].paid = 0 /\ owner = None
    BY RefundsAssumption DEF Book, TypeOK, Free, PaidBackBooked, Inside
  <2> QED
    BY <1>1, <1>3, <2>1, RefundsAssumption DEF PaidBackBooked, TypeOK
<1> QED
  BY <1>1, <1>6, <1>12, <1>13 DEF RefundsBounded

\* The commit of a booking: nobody else has checked against the old sums.
LEMMA CommitStep == ASSUME IInv, NEW r \in Requests, Commit(r) PROVE IInv'
<1> USE DEF IInv
<1>1. CASE ~req[r].books
  <2>1. lease' \in Requests \cup {None, Lost}
    BY DEF Commit, TypeOK
  <2>2. Loses(r)
    BY <1>1 DEF Commit, Loses, PaidBackBooked, TypeOK, psp
  <2> QED
    BY <1>1, <2>1, <2>2, EndsQuietly DEF Commit, db
<1>2. CASE req[r].books
  <2>1. req[r].body \in Payload
    BY BodyType
  <2>2. req'[r] = Idle /\ \A p \in Requests \ {r} : req'[p] = req[p]
    BY DEF Commit, TypeOK
  <2>3. /\ Idle \in Request /\ Idle.pc = "idle" /\ Idle.books = FALSE
        /\ Idle.paid = 0 /\ Idle.body.amount = 0
    BY EmptyType DEF Idle, NewRequest, Empty
  <2>4. req' \in [Requests -> Request]
    BY <2>3 DEF Commit, TypeOK
  <2>5. \A p \in Requests \ {r} : req[p].pc \notin Inside
    BY OneInside DEF Commit, Inside
  <2>6. owner = r
    BY DEF Commit, TypeOK, Inside
  <2>7. owner' = None
    BY <2>6 DEF Commit, Unlock
  <2>8. \A p \in Requests : owner' = p <=> req'[p].pc \in Inside
    BY <2>2, <2>3, <2>5, <2>7, RefundsAssumption DEF Inside
  <2>9. refunded' \in Nat /\ returned' \in [Lines -> Nat]
    BY <1>2, <2>1 DEF Commit, TypeOK, Payload
  <2>10. keys' \subseteq Keys
    BY <1>2 DEF Commit, TypeOK, Request
  <2>11. status' \in OrderStatuses
    BY <1>2 DEF Commit, TypeOK, OrderStatuses
  <2>12. TypeOK'
    BY <2>4, <2>7, <2>8, <2>9, <2>10, <2>11 DEF TypeOK, Commit, psp
  <2>13. RefundsBounded'
    BY <1>2 DEF Commit, CheckedUnderLock, RefundsBounded
  <2>14. \A p \in Requests : ~req'[p].books /\ req'[p].pc \in {"idle", "order"}
    <3> SUFFICES ASSUME NEW p \in Requests \ {r}
                 PROVE  ~req[p].books /\ req[p].pc \in {"idle", "order"}
      BY <2>2, <2>3
    <3>1. req[p].pc \in {"idle", "order"}
      BY <2>5 DEF TypeOK, Request
    <3> QED
      BY <3>1 DEF CheckedUnderLock
  <2>15. CheckedUnderLock'
    BY <2>14 DEF CheckedUnderLock
  <2>16. PaidBackBooked'
    <3>1. \A p \in Requests : LET q == req'[p] IN
             /\ q.paid <= q.body.amount
             /\ q.pc \in {"idle", "order", "gateway"} \/ ~q.books => q.paid = 0
      BY <2>2, <2>3 DEF PaidBackBooked
    <3>2. /\ paidBack <= refunded + lost + req[r].paid
          /\ req[r].paid <= req[r].body.amount
          /\ req[r].paid \in Nat /\ req[r].body.amount \in Nat
      BY <2>1, <2>6 DEF PaidBackBooked, TypeOK, Request, Payload
    <3>3. /\ refunded' = refunded + req[r].body.amount
          /\ paidBack' = paidBack /\ lost' = lost
      BY <1>2 DEF Commit, psp
    <3> QED
      BY <2>7, <3>1, <3>2, <3>3, RefundsAssumption DEF PaidBackBooked, TypeOK
  <2> QED
    BY <2>12, <2>13, <2>15, <2>16
<1> QED
  BY <1>1, <1>2

\* A lease that runs out, and a request that moves the order while no refund
\* holds its row.
LEMMA OthersStep == ASSUME IInv, LeaseExpires \/ OtherRequest PROVE IInv'
<1> USE DEF IInv
<1>1. CASE LeaseExpires
  BY <1>1 DEF LeaseExpires, TypeOK, CheckedUnderLock, RefundsBounded, PaidBackBooked,
              db, psp
<1>2. CASE OtherRequest
  <2>1. \A r \in Requests : req[r].pc \in {"idle", "order"}
    BY <1>2, RefundsAssumption DEF OtherRequest, TypeOK, Request
  <2>2. \A r \in Requests : ~req[r].books
    BY <2>1 DEF CheckedUnderLock
  <2>3. TypeOK' /\ RefundsBounded'
    BY <1>2 DEF OtherRequest, TypeOK, RefundsBounded, psp
  <2>4. CheckedUnderLock'
    BY <1>2, <2>2 DEF OtherRequest, CheckedUnderLock
  <2>5. PaidBackBooked'
    BY <1>2 DEF OtherRequest, PaidBackBooked, psp
  <2> QED
    BY <2>3, <2>4, <2>5
<1> QED
  BY <1>1, <1>2

\* Every step of a refund, by its actions.
LEMMA StepIInv == ASSUME IInv, NEW r \in Requests, Step(r) PROVE IInv'
<1> USE DEF IInv
<1>0. /\ lease \in Requests \cup {None, Lost}
      /\ (IF lease = r THEN None ELSE lease) \in Requests \cup {None, Lost}
      /\ (IF lease = r THEN Lost ELSE lease) \in Requests \cup {None, Lost}
  BY DEF TypeOK
<1>1. CASE Create(r)
  BY <1>1, CreateStep
<1>2. CASE AnswerRetry(r)
  <2>1. ~req[r].books
    BY <1>2 DEF AnswerRetry, CheckedUnderLock
  <2>2. /\ req[r].pc = "order" /\ Free(r) /\ owner' = r
        /\ req' = [req EXCEPT ![r].pc = "leave"]
        /\ lease' = lease /\ UNCHANGED <<db, psp, issued>>
    BY <1>2 DEF AnswerRetry
  <2> QED
    BY <1>0, <2>1, <2>2, MovesOnUnpaid
<1>3. CASE Refuse(r)
  BY <1>0, <1>3, EndsQuietly DEF Refuse, Rollback, Unlease
<1>4. CASE Book(r)
  BY <1>4, BookStep
<1>5. CASE CallGateway(r)
  <2>1. req[r].pc \in Inside
    BY <1>5 DEF CallGateway, Inside
  <2>2. owner = r
    BY <2>1 DEF TypeOK
  <2>3. PICK paid \in {0, req[r].body.amount} :
          /\ req' = [req EXCEPT ![r].pc = "transition", ![r].paid = paid]
          /\ paidBack' = paidBack + paid
    BY <1>5 DEF CallGateway
  <2>4. lease' = lease /\ owner' = r /\ UNCHANGED <<db, lost, issued>>
    BY <1>5, <2>2 DEF CallGateway
  <2>5. req[r].books /\ req[r].paid = 0
    BY <1>5 DEF CallGateway, CheckedUnderLock, PaidBackBooked
  <2>6. paid \in Nat /\ paid <= req[r].body.amount /\ paidBack' \in Nat
        /\ paidBack' + req[r].paid = paidBack + paid
    BY <2>3, <2>5, BodyType DEF Payload, TypeOK
  <2> QED
    BY <1>0, <2>1, <2>3, <2>4, <2>5, <2>6, MovesOn
<1>6. CASE Transition(r)
  <2>1. CASE req[r].full /\ ~CanTransition(req[r].view, "refunded")
    BY <1>0, <1>6, <2>1, EndsQuietly DEF Transition, Rollback, Unlease
  <2>2. CASE ~(req[r].full /\ ~CanTransition(req[r].view, "refunded"))
    <3>1. req[r].pc \in Inside
      BY <1>6 DEF Transition, Inside
    <3>2. owner = r
      BY <3>1 DEF TypeOK
    <3>3. /\ req' = [req EXCEPT ![r].pc = "leave"]
          /\ lease' = lease /\ owner' = r /\ UNCHANGED <<db, psp, issued>>
      BY <1>6, <2>2, <3>2 DEF Transition
    <3> QED
      BY <1>0, <2>2, <3>1, <3>3, MovesOnUnpaid
  <2> QED
    BY <2>1, <2>2
<1>7. CASE Leave(r)
  <2>1. req[r].pc \in Inside /\ req[r].pc = "leave"
    BY <1>7 DEF Leave, Inside
  <2>2. owner = r
    BY <2>1 DEF TypeOK
  <2>3. /\ req' = [req EXCEPT ![r].pc = "commit"] /\ owner' = r
        /\ lease' \in Requests \cup {None, Lost} /\ UNCHANGED <<db, psp, issued>>
    BY <1>0, <1>7, <2>2 DEF Leave, Unlease
  <2>4. req[r].books /\ req[r].full => CanTransition(req[r].view, "refunded")
    BY <2>1 DEF CheckedUnderLock
  <2> QED
    BY <2>1, <2>3, <2>4, MovesOnUnpaid
<1>8. CASE Commit(r)
  BY <1>8, CommitStep
<1>9. CASE Crash(r)
  BY <1>0, <1>9, EndsQuietly DEF Crash
<1> QED
  BY <1>1, <1>2, <1>3, <1>4, <1>5, <1>6, <1>7, <1>8, <1>9 DEF Step

\* The invariant holds along every behaviour.
THEOREM Invariance == Spec => []IInv
<1>1. Init => IInv
  BY InitIInv
<1>2. IInv /\ [Next]_vars => IInv'
  <2> SUFFICES ASSUME IInv, [Next]_vars PROVE IInv'
    OBVIOUS
  <2>1. CASE LeaseExpires \/ OtherRequest
    BY <2>1, OthersStep
  <2>2. CASE \E r \in Requests : Step(r)
    BY <2>2, StepIInv
  <2>3. CASE UNCHANGED vars
    BY <2>3 DEF vars, IInv, TypeOK, RefundsBounded, CheckedUnderLock,
                   PaidBackBooked
  <2> QED
    BY <2>1, <2>2, <2>3 DEF Next
<1> QED
  BY <1>1, <1>2, PTL DEF Spec
----------------------------------------------------------------------------
\* Type correctness, and the row lock belongs to the request past it.
THEOREM TypeCorrect == Spec => []TypeOK
<1>1. IInv => TypeOK
  BY DEF IInv
<1> QED
  BY <1>1, Invariance, PTL

\* refund_service.ts:43, 138-162: however many refunds run side by side, and
\* whenever their leases run out, they never add up to more than the order.
THEOREM NeverOverRefunded == Spec => []RefundsBounded
<1>1. IInv => RefundsBounded
  BY DEF IInv
<1> QED
  BY <1>1, Invariance, PTL

\* refund_service.ts:157-198: the PSP is never asked for more than is left.
THEOREM NeverOverAsked == Spec => []AskedWithinOutstanding
<1>1. IInv => AskedWithinOutstanding
  <2> SUFFICES ASSUME IInv, NEW r \in Requests, req[r].pc = "gateway"
               PROVE  /\ refunded + req[r].body.amount <= GrandTotal
                      /\ \A p \in Requests \ {r} : req[p].pc \notin Inside
    BY DEF AskedWithinOutstanding
  <2> QED
    BY OneInside DEF IInv, CheckedUnderLock, Inside
<1> QED
  BY <1>1, Invariance, PTL

\* refund_service.ts:52, 341-348: what the PSP gives back, over all refunds and
\* retries, stays within the order but for what was lost with a transaction.
THEOREM NeverPaidBackTwice == Spec => []PaidBackBounded
<1>1. IInv => PaidBackBounded
  <2> SUFFICES ASSUME IInv PROVE PaidBackBounded
    OBVIOUS
  <2>1. CASE owner = None
    BY <2>1, RefundsAssumption
    DEF IInv, TypeOK, RefundsBounded, PaidBackBooked, PaidBackBounded
  <2>2. ASSUME NEW r \in Requests, owner = r PROVE PaidBackBounded
    <3>1. req[r].body \in Payload
      BY BodyType DEF IInv
    <3>2. /\ req[r].paid \in Nat /\ req[r].paid <= req[r].body.amount
          /\ paidBack <= refunded + lost + req[r].paid
          /\ ~req[r].books => req[r].paid = 0
          /\ req[r].body.amount \in Nat
      BY <2>2, <3>1 DEF IInv, TypeOK, Request, PaidBackBooked, Payload
    <3>3. req[r].books => refunded + req[r].body.amount <= GrandTotal
      BY DEF IInv, CheckedUnderLock
    <3> QED
      BY <3>2, <3>3, RefundsAssumption DEF IInv, TypeOK, RefundsBounded, PaidBackBounded
  <2> QED
    BY <2>1, <2>2 DEF IInv, TypeOK
<1> QED
  BY <1>1, Invariance, PTL

\* Only a commit books a refund.
LEMMA OnlyCommits ==
    ASSUME [Next]_vars
    PROVE  \/ UNCHANGED <<refunded, returned>>
           \/ \E r \in Requests : Commit(r) /\ req[r].books
<1>1. CASE LeaseExpires \/ OtherRequest \/ UNCHANGED vars
  BY <1>1 DEF LeaseExpires, OtherRequest, vars, db
<1>2. ASSUME NEW r \in Requests, Step(r), ~(Commit(r) /\ req[r].books)
      PROVE  UNCHANGED <<refunded, returned>>
  BY <1>2 DEF Step, Create, AnswerRetry, Refuse, Book, CallGateway, Transition,
              Leave, Commit, Crash, Rollback, db
<1> QED
  BY <1>1, <1>2 DEF Next

\* refund_service.ts:52, 200-208: a booking reaches the total exactly when it
\* moves the order to refunded, along an edge of the table.
THEOREM RefundedWhenFull == Spec => FullMeansRefunded
<1> DEFINE Booked == refunded' # refunded =>
             IF refunded' = GrandTotal
             THEN status' = "refunded" /\ CanTransition(status, "refunded")
             ELSE status' = status /\ Refundable(status)
<1>1. IInv /\ [Next]_vars => [Booked]_vars
  <2> SUFFICES ASSUME IInv, [Next]_vars, refunded' # refunded PROVE Booked
    OBVIOUS
  <2>1. PICK r \in Requests : Commit(r) /\ req[r].books
    BY OnlyCommits
  <2>2. refunded' = refunded + req[r].body.amount
        /\ status' = IF req[r].full THEN "refunded" ELSE status
    BY <2>1 DEF Commit
  <2>3. /\ refunded + req[r].body.amount <= GrandTotal
        /\ req[r].full <=> refunded + req[r].body.amount >= GrandTotal
        /\ req[r].full => CanTransition(status, "refunded")
        /\ Refundable(status)
    BY <2>1 DEF Commit, IInv, CheckedUnderLock
  <2>4. req[r].body.amount \in Nat /\ refunded \in Nat
    BY BodyType DEF IInv, TypeOK, Payload
  <2> QED
    BY <2>2, <2>3, <2>4, RefundsAssumption
<1> QED
  BY <1>1, Invariance, PTL DEF Spec, FullMeansRefunded

\* refund_service.ts:246-280: when no body names a line twice, no line is ever
\* refunded in a greater quantity than was ordered.
THEOREM NeverMoreThanOrdered ==
    ASSUME OneEntryPerLine PROVE Spec => []LinesBounded
<1>1. Init => LinesBounded
  BY RefundsAssumption DEF Init, LinesBounded, NoLines
<1>2. IInv /\ LinesBounded /\ [Next]_vars => LinesBounded'
  <2> SUFFICES ASSUME IInv, LinesBounded, [Next]_vars PROVE LinesBounded'
    OBVIOUS
  <2>1. CASE UNCHANGED <<refunded, returned>>
    BY <2>1 DEF LinesBounded
  <2>2. CASE \E r \in Requests : Commit(r) /\ req[r].books
    <3>1. PICK r \in Requests : Commit(r) /\ req[r].books
      BY <2>2
    <3> DEFINE b == req[r].body
    <3>2. b \in Payload /\ b \in Payloads /\ b.kind # "invalid"
      BY <3>1, BodyType DEF IInv, CheckedUnderLock
    <3>3. returned' = [l \in Lines |-> returned[l] + b.total[l]]
      BY <3>1 DEF Commit
    <3>4. \A l \in Lines : returned[l] \in Nat /\ Quantity[l] \in Nat
                            /\ b.total[l] \in Nat
      BY <3>2, RefundsAssumption DEF IInv, TypeOK, Payload
    <3>5. CASE b.kind = "amount"
      <4>1. b.total = NoLines
        BY <3>2, <3>5 DEF OneEntryPerLine
      <4> QED
        BY <3>3, <3>4, <4>1 DEF LinesBounded, NoLines
    <3>6. CASE b.kind = "lines"
      <4>1. b.total = b.largest
        BY <3>2 DEF OneEntryPerLine
      <4>2. \A l \in Lines : b.largest[l] > 0 => returned[l] + b.largest[l] <= Quantity[l]
        BY <3>1, <3>6 DEF IInv, CheckedUnderLock
      <4> QED
        BY <3>3, <3>4, <4>1, <4>2 DEF LinesBounded
    <3> QED
      BY <3>2, <3>5, <3>6 DEF Payload
  <2> QED
    BY <2>1, <2>2, OnlyCommits
<1> QED
  BY <1>1, <1>2, Invariance, PTL DEF Spec
=============================================================================
