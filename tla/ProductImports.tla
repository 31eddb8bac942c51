--------------------------- MODULE ProductImports ---------------------------
(***************************************************************************)
(* The product importer: the wizard's requests, the job queue, the worker  *)
(* that runs an import, and the rollback of a finished one                 *)
(* (apps/api/app/controllers/admin/catalog/product_imports_controller.ts,  *)
(* jobs, services/product_import).                                         *)
(*                                                                         *)
(* A worker runs a whole import in one transaction                         *)
(* (with_job_tenant_context.ts).  The withTenantTransaction around each    *)
(* row opens no savepoint in it (tenant_context.ts:71-79), so what the     *)
(* import writes is seen by nobody before its last commit, and a row that  *)
(* the database refuses ends all of it.  The queue table and the snapshot  *)
(* files are outside that transaction.                                     *)
(*                                                                         *)
(* A product is its SKU as it is spelled and its price; product[n] is the  *)
(* one whose SKU is n in lower case, at most one of each                   *)
(* (products_sku_lower_unique).                                            *)
(***************************************************************************)
EXTENDS Integers, Sequences, FiniteSets, Functions

CONSTANTS
    Names,           \* SKUs in lower case
    Skus,            \* SKUs as they are spelled
    Lower,           \* Lower[s]: s in lower case
    Prices,
    InitialProducts, \* what the products may be before the first import
    Absent,          \* no product of that name
    Imports,         \* uploaded files
    File,            \* File[i]: the rows of a file
    EmptyRow,        \* a row without content
    NamelessRow,     \* a row with neither SKU nor name
    SkulessRow,      \* a row with a name and no SKU
    Invalid,         \* Invalid[i]: where projectRow finds an error
    Pathless,        \* Pathless[i]: where a category path has no segment
    Flagged,         \* Flagged[i]: the rows the anomaly detector warns of
    Filters,         \* Filters[i]: what an operator may ask a run of i to skip
    ChunkSize,       \* CHUNK_SIZE
    Workers,         \* concurrency of the queue worker
    Admins,          \* requests of the wizard at the same time
    MaxAsked,        \* bound: starts of imports and edits of products by hand
    MayDie,          \* a worker may die, or run out of time
    None             \* nobody, or no snapshot

ProductRow == [sku : Skus, price : Prices]

\* Rows that name no product.
Bare == {EmptyRow, NamelessRow, SkulessRow}

Skips == {"new", "updates", "warnings"}

ASSUME ImportsAssumption ==
    /\ Lower \in [Skus -> Names]
    /\ InitialProducts \subseteq [Names -> ProductRow \cup {Absent}]
    /\ \A p \in InitialProducts, n \in Names : p[n] = Absent \/ Lower[p[n].sku] = n
    /\ \A i \in Imports : File[i] \in Seq(ProductRow \cup Bare)
    /\ (Bare \cup {Absent}) \cap ProductRow = {}
    /\ Cardinality(Bare) = 3
    /\ Filters \in [Imports -> SUBSET SUBSET Skips]
    /\ ChunkSize \in Nat \ {0}
    /\ MaxAsked \in Nat /\ MayDie \in BOOLEAN
    /\ Imports \cap Names = {} /\ Workers \cap Admins = {}
    /\ None \notin Workers \cup Admins

VARIABLES
    product,   \* products, committed
    import,    \* product_imports, committed
    snapshot,  \* the snapshot file of each import, or None
    jobs,      \* jobs waiting in the queue, for each import
    work,      \* what each worker does
    call,      \* what each request of the wizard does
    owner,     \* the transaction that holds the row's lock, or None
    lease,     \* the lock import:rollback:<id>
    starts,    \* starts so far, of each import
    edits      \* edits by hand so far

db == <<product, import>>
bounds == <<starts, edits>>
vars == <<product, import, snapshot, jobs, work, call, owner, lease,
          starts, edits>>

Final == {"completed", "completed_with_errors", "failed", "cancelled"}
Outcomes == {"created", "updated", "skipped", "failed"}

\* A row of product_imports; count[o] is created_count, updated_count ...
Uploaded == [status |-> "validating", update |-> FALSE, processed |-> 0,
             count |-> [o \in Outcomes |-> 0],
             finished |-> FALSE, cancel |-> FALSE, rolledBack |-> FALSE]

Nothing == [x \in {} |-> None]

\* loaded and row: importRow as the worker read it, and as it has changed it.
\* skip: the filters of the job.  found: the products of the chunk.  writes: what the
\* transaction has written.
Resting == [pc |-> "idle", import |-> None, loaded |-> Uploaded, row |-> Uploaded,
            skip |-> {}, offset |-> 0, found |-> Nothing, writes |-> Nothing]

\* update: what start asks for.  prices: the snapshot; todo: names to restore.
NoCall == [pc |-> "idle", import |-> None, update |-> FALSE,
           prices |-> Nothing, todo |-> {}]

Init ==
    /\ product \in InitialProducts
    /\ import = [i \in Imports |-> Uploaded]
    /\ snapshot = [i \in Imports |-> None]
    /\ jobs = [i \in Imports |-> 0]
    /\ work = [w \in Workers |-> Resting]
    /\ call = [a \in Admins |-> NoCall]
    /\ owner = [x \in Imports \cup Names |-> None]
    /\ lease = [i \in Imports |-> None]
    /\ starts = [i \in Imports |-> 0]
    /\ edits = 0
----------------------------------------------------------------------------
(* Transactions and row locks, as in OrderRequests.                        *)

\* Mutant: writers do not wait for one another.
Unlocked(t, x) == TRUE

Free(t, x) == owner[x] \in {None, t}

Locked(t, x) == [owner EXCEPT ![x] = t]

\* Mutant: the locks on the products outlive the transaction.
ReleasedImports(t) ==
    [x \in DOMAIN owner |-> IF owner[x] = t /\ x \in Imports THEN None ELSE owner[x]]

Released(t) == [x \in DOMAIN owner |-> IF owner[x] = t THEN None ELSE owner[x]]

WorkerEnds(w) ==
    /\ work' = [work EXCEPT ![w] = Resting]
    /\ owner' = Released(w)
    /\ UNCHANGED <<snapshot, jobs, call, lease, bounds>>

\* The transaction is rolled back and the job is not retried (maxRetries: 0).
Abort(w) == WorkerEnds(w) /\ UNCHANGED db

\* Lucid saves the fields that have changed since the row was loaded.
Saved(committed, loaded, row) ==
    [f \in DOMAIN row |-> IF row[f] = loaded[f] THEN committed[f] ELSE row[f]]

\* finalize, or the catch of runImport; then withJobTenantContext commits.
Conclude(w, status) ==
    LET q == work[w]
    IN  /\ import' = [import EXCEPT ![q.import] =
               [Saved(@, q.loaded, q.row) EXCEPT !.status = status, !.finished = TRUE]]
        /\ product' = [n \in Names |->
               IF n \in DOMAIN q.writes THEN q.writes[n] ELSE product[n]]
        /\ WorkerEnds(w)

Works(w, q) ==
    /\ work' = [work EXCEPT ![w] = q]
    /\ UNCHANGED <<db, jobs, call, lease, bounds>>

\* What the transaction of w sees.
Seen(w, n) ==
    IF n \in DOMAIN work[w].writes THEN work[w].writes[n] ELSE product[n]
----------------------------------------------------------------------------
(* RunImportJob and runImport.                                             *)

\* The queue hands a job out as soon as it is dispatched, also when the request
\* that dispatched it has not committed: the row is then read as it was before.  The
\* filters are those the operator has put into the job.
PickUp(w, i) ==
    /\ work[w].pc = "idle" /\ jobs[i] > 0
    /\ jobs' = [jobs EXCEPT ![i] = @ - 1]
    /\ \E skip \in Filters[i] :
          work' = [work EXCEPT ![w] =
              [Resting EXCEPT !.pc = "claim", !.import = i, !.skip = skip,
                              !.loaded = import[i], !.row = import[i]]]
    /\ UNCHANGED <<db, snapshot, call, owner, lease, bounds>>

\* importRow.save() with the status validating, and then with running.
Claim(w) ==
    /\ work[w].pc = "claim"
    /\ Free(w, work[w].import)
    /\ owner' = Locked(w, work[w].import)
    /\ Works(w, [work[w] EXCEPT !.pc = "snapshot"])
    /\ UNCHANGED snapshot

SkusOf(i) == {row.sku : row \in Range(File[i]) \ Bare}

\* The products that are spelled as the file spells them, with their prices.
Existing(w, skus) ==
    LET there(s) == Seen(w, Lower[s]) # Absent /\ Seen(w, Lower[s]).sku = s
    IN  [s \in {s \in skus : there(s)} |-> Seen(w, Lower[s]).price]

\* writePreImportSnapshot.
TakeSnapshot(w) ==
    LET q == work[w] IN
    /\ q.pc = "snapshot"
    /\ snapshot' = [snapshot EXCEPT ![q.import] = Existing(w, SkusOf(q.import))]
    /\ Works(w, [q EXCEPT !.pc = "chunk"])
    /\ UNCHANGED owner

Rows(q) == File[q.import]

\* isCancellationRequested: the flag as the transaction sees it.
StopsAtFlag(w) ==
    /\ work[w].pc = "chunk" /\ work[w].offset < Len(Rows(work[w]))
    /\ import[work[w].import].cancel
    /\ Conclude(w, "cancelled")

\* fetchExistingProductsForChunk.
NextChunk(w) ==
    LET q == work[w]
        last == IF q.offset + ChunkSize < Len(Rows(q)) THEN q.offset + ChunkSize
                ELSE Len(Rows(q))
        chunk == {Rows(q)[k] : k \in (q.offset + 1)..last} \ Bare
    IN
    /\ q.pc = "chunk" /\ q.offset < Len(Rows(q))
    /\ ~import[q.import].cancel
    /\ Works(w, [q EXCEPT !.pc = "rows", !.found = Existing(w, {r.sku : r \in chunk})])
    /\ UNCHANGED <<snapshot, owner>>

\* Mutant: a skipped row is not counted.
CountsDone(row, outcome) ==
    [row EXCEPT !.processed = @ + 1,
                !.count[outcome] = IF outcome = "skipped" THEN @ ELSE @ + 1]

Counted(row, outcome) == [row EXCEPT !.processed = @ + 1, !.count[outcome] = @ + 1]

\* The row is done; the chunk ends after ChunkSize rows or with the file.
RowDone(q, outcome) ==
    LET chunkEnds == \/ (q.offset + 1) % ChunkSize = 0
                     \/ q.offset + 1 = Len(Rows(q))
    IN  [q EXCEPT !.pc = IF chunkEnds THEN "chunk" ELSE "rows",
                  !.offset = @ + 1,
                  !.row = Counted(@, outcome)]

AtRow(w) == work[w].pc = "rows"
Row(w) == Rows(work[w])[work[w].offset + 1]

\* existingMap.get(sku).
Found(w) == Row(w) \notin Bare /\ Row(w).sku \in DOMAIN work[w].found

Projected(w) ==
    /\ AtRow(w) /\ Row(w) # EmptyRow
    /\ work[w].offset + 1 \notin Invalid[work[w].import]

\* A row that the operator has asked to skip.
Filtered(w) ==
    \/ "warnings" \in work[w].skip /\ work[w].offset + 1 \in Flagged[work[w].import]
    \/ "new" \in work[w].skip /\ ~Found(w)
    \/ "updates" \in work[w].skip /\ Found(w)

Applied(w) == Projected(w) /\ ~Filtered(w)

HasProduct(w) == Applied(w) /\ Row(w) \notin Bare

\* resolveCategoryPath throws after the product has been written.  The error is
\* caught, the row has failed, and what it wrote stays in the transaction.
Written(w, outcome) ==
    IF work[w].offset + 1 \in Pathless[work[w].import] THEN "failed" ELSE outcome

\* The row does not touch a product with a SKU: it has no content, a projection error,
\* is filtered or has neither name nor SKU; it creates a product that has no SKU; its
\* product must not be updated, or had the row's price when the chunk was read.
PassRow(w) ==
    LET Passed(outcome) == Works(w, RowDone(work[w], outcome))
        update == work[w].row.update
    IN
    /\ AtRow(w)
    /\ \/ Row(w) = EmptyRow /\ Passed("skipped")
       \/ Row(w) # EmptyRow /\ ~Projected(w) /\ Passed("failed")
       \/ Projected(w) /\ Filtered(w) /\ Passed("skipped")
       \/ Applied(w) /\ Row(w) = NamelessRow /\ Passed("failed")
       \/ Applied(w) /\ Row(w) = SkulessRow /\ Passed(Written(w, "created"))
       \/ HasProduct(w) /\ Found(w) /\ ~update /\ Passed("skipped")
       \/ /\ HasProduct(w) /\ Found(w) /\ update
          /\ work[w].found[Row(w).sku] = Row(w).price
          /\ Passed(Written(w, "updated"))
    /\ UNCHANGED <<snapshot, owner>>

Updates(w) ==
    /\ HasProduct(w) /\ Found(w) /\ work[w].row.update
    /\ work[w].found[Row(w).sku] # Row(w).price

Creates(w) == HasProduct(w) /\ ~Found(w)

\* Mutant: each row is committed by itself.
RowCommitted(w, outcome) ==
    LET n == Lower[Row(w).sku] IN
    /\ Free(w, n)
    /\ owner' = Locked(w, n)
    /\ product' = [product EXCEPT ![n] = [sku |-> Row(w).sku, price |-> Row(w).price]]
    /\ work' = [work EXCEPT ![w] = RowDone(work[w], outcome)]
    /\ UNCHANGED <<import, snapshot, jobs, call, lease, bounds>>

WriteRow(w, outcome) ==
    LET n == Lower[Row(w).sku]
        written == [RowDone(work[w], outcome) EXCEPT !.writes =
                       [m \in DOMAIN @ \cup {n} |->
                           IF m = n THEN Row(w) ELSE work[w].writes[m]]]
    IN
    /\ Free(w, n)
    /\ owner' = Locked(w, n)
    /\ Works(w, written)
    /\ UNCHANGED snapshot

\* applyUpdate and applyCreate.
UpdateProduct(w) == Updates(w) /\ WriteRow(w, Written(w, "updated"))

CreateProduct(w) ==
    /\ Creates(w) /\ Seen(w, Lower[Row(w).sku]) = Absent
    /\ WriteRow(w, Written(w, "created"))

\* The unique index refuses the row: another row of the chunk or another import has
\* created the product, or its SKU is spelled otherwise.  Postgres refuses all
\* further statements of the transaction: recordError fails, and so does the save
\* in the catch of runImport.
RowRefused(w) ==
    Creates(w) /\ Seen(w, Lower[Row(w).sku]) # Absent /\ Abort(w)

Finish(w) ==
    LET q == work[w] IN
    /\ q.pc = "chunk" /\ q.offset = Len(Rows(q))
    /\ Conclude(w, IF q.row.count["failed"] > 0 THEN "completed_with_errors"
                   ELSE "completed")

\* The file cannot be read, or the error report cannot be written.
RunFails(w) ==
    /\ \/ work[w].pc = "snapshot"
       \/ work[w].pc = "chunk" /\ work[w].offset = Len(Rows(work[w]))
    /\ Conclude(w, "failed")

\* The worker process dies, or the job runs out of its hour.
WorkerDies(w) ==
    MayDie /\ work[w].pc # "idle" /\ Abort(w)

Run(w) ==
    \/ Claim(w) \/ TakeSnapshot(w) \/ StopsAtFlag(w) \/ NextChunk(w)
    \/ PassRow(w) \/ UpdateProduct(w) \/ CreateProduct(w) \/ RowRefused(w)
    \/ Finish(w)
----------------------------------------------------------------------------
(* AdminProductImportsController.                                          *)

Calls(a, c) ==
    /\ call' = [call EXCEPT ![a] = c]
    /\ UNCHANGED <<snapshot, work, edits>>

Asked == FoldFunction(+, edits, starts)

\* The row is saved and the job dispatched, in whatever status the row is.
Start(a, i) ==
    /\ call[a].pc = "idle" /\ Asked < MaxAsked
    /\ Free(a, i)
    /\ owner' = Locked(a, i)
    /\ jobs' = [jobs EXCEPT ![i] = @ + 1]
    /\ starts' = [starts EXCEPT ![i] = @ + 1]
    /\ \E update \in BOOLEAN :
          Calls(a, [NoCall EXCEPT !.pc = "started", !.import = i, !.update = update])
    /\ UNCHANGED <<db, lease>>

StartCommits(a) ==
    LET i == call[a].import IN
    /\ call[a].pc = "started"
    /\ import' = [import EXCEPT ![i].status = "queued", ![i].update = call[a].update]
    /\ owner' = Released(a)
    /\ Calls(a, NoCall)
    /\ UNCHANGED <<product, jobs, lease, starts>>

Cancel(i) ==
    /\ ~import[i].cancel
    /\ owner[i] = None
    /\ import' = [import EXCEPT ![i].cancel = TRUE]
    /\ UNCHANGED <<product, snapshot, jobs, work, call, owner, lease, bounds>>

\* The checks, readSnapshot and runImmediately.
Rollback(a, i) ==
    /\ call[a].pc = "idle"
    /\ import[i].finished /\ ~import[i].rolledBack
    /\ snapshot[i] # None
    /\ lease[i] = None
    /\ lease' = [lease EXCEPT ![i] = a]
    /\ Calls(a, [NoCall EXCEPT !.pc = "restoring", !.import = i, !.prices = snapshot[i],
                               !.todo = {Lower[s] : s \in DOMAIN snapshot[i]}])
    /\ UNCHANGED <<db, jobs, owner, starts>>

\* UPDATE products ... WHERE sku: the spelling of a product does not change.
RestoreProduct(a, n) ==
    /\ call[a].pc = "restoring" /\ n \in call[a].todo
    /\ Free(a, n)
    /\ owner' = Locked(a, n)
    /\ Calls(a, [call[a] EXCEPT !.todo = @ \ {n}])
    /\ UNCHANGED <<db, jobs, lease, starts>>

\* The row of the import is saved and the lease given back; the request has still
\* to commit.
SaveRollback(a) ==
    LET i == call[a].import IN
    /\ call[a].pc = "restoring" /\ call[a].todo = {}
    /\ Free(a, i)
    /\ owner' = Locked(a, i)
    /\ lease' = [lease EXCEPT ![i] = None]
    /\ Calls(a, [call[a] EXCEPT !.pc = "restored"])
    /\ UNCHANGED <<db, jobs, starts>>

RollbackCommits(a) ==
    LET c == call[a] IN
    /\ c.pc = "restored"
    /\ import' = [import EXCEPT ![c.import].status = "rolled_back",
                                ![c.import].rolledBack = TRUE]
    /\ product' = [n \in Names |->
           IF product[n] # Absent /\ product[n].sku \in DOMAIN c.prices
           THEN [product[n] EXCEPT !.price = c.prices[product[n].sku]]
           ELSE product[n]]
    /\ owner' = Released(a)
    /\ Calls(a, NoCall)
    /\ UNCHANGED <<jobs, lease, starts>>

\* The request ends without a commit; what start dispatched stays in the queue.
CallFails(a) ==
    /\ call[a].pc # "idle"
    /\ owner' = Released(a)
    /\ lease' = [i \in Imports |-> IF lease[i] = a THEN None ELSE lease[i]]
    /\ Calls(a, NoCall)
    /\ UNCHANGED <<db, jobs, starts>>

Answer(a) ==
    \/ StartCommits(a)
    \/ \E n \in Names : RestoreProduct(a, n)
    \/ SaveRollback(a) \/ RollbackCommits(a)
----------------------------------------------------------------------------
\* A product is saved by hand, in the products of the admin.
EditProduct(n) ==
    /\ Asked < MaxAsked
    /\ product[n] # Absent /\ owner[n] = None
    /\ \E p \in Prices \ {product[n].price} :
          product' = [product EXCEPT ![n].price = p]
    /\ edits' = edits + 1
    /\ UNCHANGED <<import, snapshot, jobs, work, call, owner, lease, starts>>
----------------------------------------------------------------------------
(* Postgres' deadlock detector.                                            *)

Wants(t) ==
    IF t \in Workers
    THEN CASE work[t].pc = "claim" -> {work[t].import}
           [] Updates(t) \/ Creates(t) -> {Lower[Row(t).sku]}
           [] OTHER -> {}
    ELSE CASE call[t].pc = "restoring" /\ call[t].todo = {} -> {call[t].import}
           [] call[t].pc = "restoring" -> call[t].todo
           [] OTHER -> {}

WaitCycle(S) ==
    \A t \in S : /\ Wants(t) # {}
                 /\ \A x \in Wants(t) : owner[x] \in S \ {t}

\* Mutant: no deadlock detector.
NoVictim(t) == FALSE

InDeadlock(t) == \E S \in SUBSET (Workers \cup Admins) : t \in S /\ WaitCycle(S)

\* A worker that is chosen loses its import, as in RowRefused.
DeadlockVictim(t) ==
    /\ InDeadlock(t)
    /\ IF t \in Workers THEN Abort(t) ELSE CallFails(t)
----------------------------------------------------------------------------
Next ==
    \/ \E w \in Workers, i \in Imports : PickUp(w, i)
    \/ \E w \in Workers : Run(w) \/ RunFails(w) \/ WorkerDies(w)
    \/ \E a \in Admins, i \in Imports : Start(a, i) \/ Rollback(a, i)
    \/ \E a \in Admins : Answer(a) \/ CallFails(a)
    \/ \E t \in Workers \cup Admins : DeadlockVictim(t)
    \/ \E i \in Imports : Cancel(i)
    \/ \E n \in Names : EditProduct(n)

Spec == Init /\ [][Next]_vars

\* A worker and a request go on whenever they can, and Postgres looks for
\* deadlocks; nobody has to start, cancel or roll back anything.
FairSpec ==
    /\ Spec
    /\ \A w \in Workers : SF_vars(Run(w))
    /\ \A a \in Admins : SF_vars(Answer(a))
    /\ WF_vars(\E t \in Workers \cup Admins : DeadlockVictim(t))
----------------------------------------------------------------------------
(* Type invariant.                                                         *)

ImportRow ==
    [ status : Final \cup {"validating", "queued", "rolled_back"}, update : BOOLEAN,
      processed : Nat, count : [Outcomes -> Nat],
      finished : BOOLEAN, cancel : BOOLEAN, rolledBack : BOOLEAN ]

\* The partial functions from S to T.
Partial(S, T) == UNION {[U -> T] : U \in SUBSET S}

WorkRow ==
    [ pc : {"idle", "claim", "snapshot", "chunk", "rows"}, import : Imports \cup {None},
      loaded : ImportRow, row : ImportRow, skip : SUBSET Skips, offset : Nat,
      found : Partial(Skus, Prices), writes : Partial(Names, ProductRow) ]

CallRow ==
    [ pc : {"idle", "started", "restoring", "restored"}, import : Imports \cup {None},
      update : BOOLEAN, prices : Partial(Skus, Prices), todo : SUBSET Names ]

\* Every variable has its type; a name stands for the product whose SKU it is in
\* lower case (1750002000000_*.ts:241, products_sku_lower_unique), and a transaction
\* that has ended holds no lock.
TypeOK ==
    /\ product \in [Names -> ProductRow \cup {Absent}]
    /\ \A n \in Names : product[n] # Absent => Lower[product[n].sku] = n
    /\ import \in [Imports -> ImportRow]
    /\ snapshot \in [Imports -> Partial(Skus, Prices) \cup {None}]
    /\ jobs \in [Imports -> Nat] /\ starts \in [Imports -> Nat]
    /\ work \in [Workers -> WorkRow] /\ call \in [Admins -> CallRow]
    /\ \A i \in Imports : jobs[i] <= starts[i]
    /\ \A w \in Workers : work[w].pc # "idle" =>
          work[w].import \in Imports /\ work[w].offset <= Len(Rows(work[w]))
    /\ \A a \in Admins : call[a].pc # "idle" => call[a].import \in Imports
    /\ owner \in [Imports \cup Names -> Workers \cup Admins \cup {None}]
    /\ lease \in [Imports -> Admins \cup {None}]
    /\ edits \in Nat
    /\ \A x \in Imports \cup Names :
          /\ owner[x] \in Workers => work[owner[x]].pc # "idle"
          /\ owner[x] \in Admins => call[owner[x]].pc # "idle"
----------------------------------------------------------------------------
(* Properties.                                                             *)

\* with_job_tenant_context.ts:15-19: what an import or a rollback writes is seen all
\* at once, and only together with its outcome.  A run that is refused, chosen by the
\* deadlock detector or killed after half of its rows leaves no product changed.  (The
\* comment on runImport says otherwise: see ChunkCommitted.)
VisibleWithOutcome ==
    [][product' # product /\ edits' = edits =>
          \/ \E w \in Workers : LET q == work[w] IN
                /\ q.pc # "idle" /\ work'[w].pc = "idle"
                /\ import'[q.import].status \in Final
                /\ \A n \in DOMAIN q.writes : product'[n] = q.writes[n]
          \/ \E a \in Admins : LET c == call[a] IN
                /\ c.pc = "restored" /\ import'[c.import].rolledBack
                /\ \A s \in DOMAIN c.prices : product'[Lower[s]] # Absent =>
                      \/ product'[Lower[s]].sku # s
                      \/ product'[Lower[s]].price = c.prices[s]]_vars

\* import_runner.ts:21-24: the runner "persists counters on the `product_imports` row as
\* it goes so polling clients + a worker restart both see consistent state" and
\* "commits a chunk-level transaction": after a chunk its counters and its products
\* are committed, and the row of the import is not locked, so that a cancel asked for
\* meanwhile is saved and seen before the next chunk (475-480).
ChunkCommitted ==
    \A w \in Workers : LET q == work[w] IN
        q.pc = "chunk" /\ q.offset > 0 =>
            /\ import[q.import].processed = q.row.processed
            /\ \A n \in DOMAIN q.writes : product[n] = q.writes[n]
            /\ owner[q.import] # w

\* What is so instead: an import is cancelled before its first row or not at all.
\* The runner asks for the flag before each chunk, but a cancel waits for the row of
\* the import, which the run has locked until its end.
CancelsBeforeWriting ==
    [][\A i \in Imports :
          import'[i].status = "cancelled" /\ import[i].status # "cancelled" =>
              product' = product]_vars

\* A run holds the row of its import, and everything it has written, until it ends:
\* two starts of one import do not run it twice at the same time, an administrator's
\* edit or a rollback does not get between a row and its commit, and a rollback that
\* has saved its outcome runs beside no import of its rows.
RunsAlone ==
    /\ \A w \in Workers :
          /\ work[w].pc \notin {"idle", "claim"} => owner[work[w].import] = w
          /\ \A n \in DOMAIN work[w].writes : owner[n] = w
    /\ \A a \in Admins :
          /\ call[a].pc = "restored" => owner[call[a].import] = a
          /\ call[a].pc \in {"restoring", "restored"} =>
                \A s \in DOMAIN call[a].prices :
                    Lower[s] \in call[a].todo \/ owner[Lower[s]] = a

\* import_runner.ts:126-130, 156, 327-331: an import that was started once and has ended has
\* counted every row of its file once, a row that failed after it was written too, and
\* says so when rows have failed.  (Started again, it adds to what an earlier run has
\* counted.)
OutcomesAddUp ==
    \A i \in Imports :
        LET n == import[i].count IN
        import[i].status \in {"completed", "completed_with_errors"} /\ starts[i] = 1 =>
            /\ import[i].processed = Len(File[i])
            /\ n["created"] + n["updated"] + n["skipped"] + n["failed"] = Len(File[i])
            /\ import[i].status = "completed" <=> n["failed"] = 0

\* Two imports lock the products of their rows in the order of their files, a
\* rollback in the order of the snapshot and the row of the import last, each in one
\* long transaction: still every run and every request ends.
RunsEnd ==
    /\ \A w \in Workers : work[w].pc # "idle" ~> work[w].pc = "idle"
    /\ \A a \in Admins : call[a].pc # "idle" ~> call[a].pc = "idle"
=============================================================================
