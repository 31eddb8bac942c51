---------------------------- MODULE AtomicOrders ----------------------------
(***************************************************************************)
(* What OrderStateMachine and InventoryService promise their callers: the  *)
(* status of an order, its audit trail, the stock of its lines and the     *)
(* movement ledger change together, in one step, by exactly the effects of *)
(* the transitions taken, and no step takes stock that is not there.       *)
(*                                                                         *)
(* There are no requests, locks or half-done transactions here.            *)
(* OrderRequests is shown to implement this specification.  The status a   *)
(* step starts from is the one its request read, which this specification  *)
(* does not tie to the committed one: see StatusFollowsTable there.        *)
(***************************************************************************)
EXTENDS Integers, Sequences, OrderStatus

CONSTANTS Orders, Items, Quantity, InitialStock, Backordered, Unmanaged, MaxEntries

VARIABLES status, stock, ledger, held, history

abstractVars == <<status, stock, ledger, held, history>>

Init ==
    /\ status = [o \in Orders |-> "draft"]
    /\ stock = InitialStock
    /\ ledger = [i \in Items |-> 0]
    /\ held = [o \in Orders |-> [i \in Items |-> 0]]
    /\ history = [o \in Orders |-> <<>>]

Edges == {[from |-> t.from, to |-> t.to] : t \in ORDER_TRANSITIONS}

\* The transitions one request takes: at most two, each from where the last one
\* ended.
Runs == {<<>>} \cup {<<e>> : e \in Edges}
        \cup {run \in Edges \X Edges : run[1].to = run[2].from}

\* What the k-th transition of a run does to the stock.
Sign(run, k) ==
    IF k \in DOMAIN run THEN StockSign(run[k].from, run[k].to) ELSE 0

Net(run) == Sign(run, 1) + Sign(run, 2)

\* What a transition takes of an item, or gives back.
Taken(o, i) == IF i \in Unmanaged THEN 0 ELSE Quantity[o][i]

\* What a refund may return to the shelf, item by item: nothing binds it to what was
\* ordered but the number of times its body names a line.
Returnable(o, i) == MaxEntries * Taken(o, i)

Restocks(o) ==
    {f \in [Items -> UNION {0..Returnable(o, i) : i \in Items}] :
        \A i \in Items : f[i] <= Returnable(o, i)}

\* One request: the transitions of run, and the restock of a refund.
Transact(o, run) ==
    LET moved(i) == Net(run) * Taken(o, i) IN
    /\ history' = [history EXCEPT ![o] = @ \o run]
    /\ status' = IF run = <<>> THEN status
                 ELSE [status EXCEPT ![o] = run[Len(run)].to]
    /\ held' = [held EXCEPT ![o] = [i \in Items |-> held[o][i] - moved(i)]]
    /\ \E restock \in Restocks(o) :
         /\ \A i \in Items \ Backordered :
                moved(i) < 0 => stock[i] + moved(i) + restock[i] >= 0
         /\ stock' = [i \in Items |-> stock[i] + moved(i) + restock[i]]
         /\ ledger' = [i \in Items |-> ledger[i] + moved(i) + restock[i]]

Next == \E o \in Orders, run \in Runs : Transact(o, run)

Spec == Init /\ [][Next]_abstractVars
=============================================================================
