----------------------- MODULE ProductImports_proofs -----------------------
(***************************************************************************)
(* What the importer guarantees for any number of imports, files, workers  *)
(* and requests of the wizard.  The argument: a run holds the row of its   *)
(* import from its first save and every product it has written, so neither *)
(* a cancel nor another run or request gets between its steps; and an      *)
(* import that was started once is run once.                               *)
(***************************************************************************)
EXTENDS ProductImports, TLAPS

\* A run changes two fields of the row of its import: the rest is as it was loaded.
KeepsLoaded(q) ==
    /\ q.row.update = q.loaded.update /\ q.row.cancel = q.loaded.cancel
    /\ q.row.rolledBack = q.loaded.rolledBack /\ q.row.status = q.loaded.status
    /\ q.row.finished = q.loaded.finished

RowsCounted(row) ==
    row.count["created"] + row.count["updated"] + row.count["skipped"]
        + row.count["failed"]

\* Where a run is: it has counted the rows it has done on top of what it loaded.
RunFits(q) ==
    q.pc # "idle" =>
        /\ KeepsLoaded(q)
        /\ q.pc \in {"claim", "snapshot"} => q.offset = 0
        /\ q.pc = "rows" => q.offset < Len(Rows(q))
        /\ q.offset = 0 => DOMAIN q.writes = {}
        /\ \A n \in DOMAIN q.writes : Lower[q.writes[n].sku] = n
        /\ q.row.processed = q.loaded.processed + q.offset
        /\ RowsCounted(q.row) = RowsCounted(q.loaded) + q.offset

\* No cancel is seen once the first chunk has begun.
Uncancelled(q) ==
    q.pc \notin {"idle", "claim"} /\ import[q.import].cancel =>
        q.pc \in {"snapshot", "chunk"} /\ q.offset = 0

\* A row that counts nothing and is not completed.
Fresh(row) ==
    /\ row.processed = 0
    /\ \A o \in Outcomes : row.count[o] = 0
    /\ row.status \notin {"completed", "completed_with_errors"}

Runs(w, i) == work[w].pc # "idle" /\ work[w].import = i

\* A start leaves one job, and one worker runs a job; until the first run has
\* ended, the import counts nothing.
RunOnce ==
    \A i \in Imports :
        /\ starts[i] = 0 => /\ jobs[i] = 0 /\ Fresh(import[i])
                            /\ \A w \in Workers : ~Runs(w, i)
        /\ starts[i] = 1 =>
              /\ jobs[i] = 1 => Fresh(import[i]) /\ \A w \in Workers : ~Runs(w, i)
              /\ \A w \in Workers : Runs(w, i) =>
                    /\ jobs[i] = 0 /\ Fresh(import[i]) /\ Fresh(work[w].loaded)
                    /\ \A v \in Workers : Runs(v, i) => v = w

RunsFit == \A w \in Workers : RunFits(work[w]) /\ Uncancelled(work[w])

IInv == TypeOK /\ RunsAlone /\ RunsFit /\ RunOnce /\ OutcomesAddUp

----------------------------------------------------------------------------
(* Rows of imports.                                                        *)

\* The row a run leaves behind: a save keeps the committed value of what has not
\* been changed.
Ended(c, l, row, status) == [Saved(c, l, row) EXCEPT !.status = status, !.finished = TRUE]

\* A row is counted once, under its outcome.
LEMMA CountsOne ==
    ASSUME NEW row \in ImportRow, NEW outcome \in Outcomes
    PROVE  /\ Counted(row, outcome) \in ImportRow
           /\ Counted(row, outcome).processed = row.processed + 1
           /\ RowsCounted(Counted(row, outcome)) = RowsCounted(row) + 1
           /\ Counted(row, outcome).update = row.update
           /\ Counted(row, outcome).cancel = row.cancel
           /\ Counted(row, outcome).rolledBack = row.rolledBack
           /\ Counted(row, outcome).status = row.status
           /\ Counted(row, outcome).finished = row.finished
<1>0. row.count \in [Outcomes -> Nat] /\ row.count[outcome] \in Nat
      /\ row.processed \in Nat
  BY DEF ImportRow
<1>1. PICK count \in [Outcomes -> Nat] :
        count = [row.count EXCEPT ![outcome] = row.count[outcome] + 1]
  <2>1. ASSUME NEW f \in [Outcomes -> Nat], NEW n \in Nat
        PROVE  [f EXCEPT ![outcome] = n] \in [Outcomes -> Nat]
    OBVIOUS
  <2>2. row.count[outcome] + 1 \in Nat
    BY <1>0
  <2> QED
    BY <1>0, <2>1, <2>2
<1>2. Counted(row, outcome) = [row EXCEPT !.processed = row.processed + 1, !.count = count]
  BY <1>1 DEF Counted, ImportRow
<1>3. /\ \A o \in Outcomes : row.count[o] \in Nat
      /\ count[outcome] = row.count[outcome] + 1
      /\ \A o \in Outcomes \ {outcome} : count[o] = row.count[o]
  BY <1>0, <1>1
<1>4. Counted(row, outcome).count = count
  BY <1>2 DEF ImportRow
<1>5. RowsCounted(Counted(row, outcome)) = RowsCounted(row) + 1
  <2>1. {"created", "updated", "skipped", "failed"} = Outcomes
    BY DEF Outcomes
  <2>2. CASE outcome = "created"
    BY <1>3, <1>4, <2>1, <2>2 DEF RowsCounted
  <2>3. CASE outcome = "updated"
    BY <1>3, <1>4, <2>1, <2>3 DEF RowsCounted
  <2>4. CASE outcome = "skipped"
    BY <1>3, <1>4, <2>1, <2>4 DEF RowsCounted
  <2>5. CASE outcome = "failed"
    BY <1>3, <1>4, <2>1, <2>5 DEF RowsCounted
  <2> QED
    BY <2>1, <2>2, <2>3, <2>4, <2>5
<1>6. PICK done \in Nat : done = row.processed + 1
  BY <1>0
<1>7. Counted(row, outcome) = [row EXCEPT !.processed = done, !.count = count]
  BY <1>2, <1>6
<1>8. [row EXCEPT !.processed = done, !.count = count] \in ImportRow
  BY DEF ImportRow
<1> QED
  BY <1>5, <1>6, <1>7, <1>8 DEF ImportRow

----------------------------------------------------------------------------
(* Locks.                                                                  *)

Actors == Workers \cup Admins
Lockable == Imports \cup Names

\* A step of t: nobody else moves, and t gives all its locks back, or goes on and
\* takes at most one that is free.
StepOf(t) ==
    /\ \A u \in Workers : u # t => work'[u] = work[u]
    /\ \A u \in Admins : u # t => call'[u] = call[u]
    /\ \/ owner' = Released(t)
       \/ /\ t \in Workers => work'[t].pc # "idle"
          /\ t \in Admins => call'[t].pc # "idle"
          /\ \/ owner' = owner
             \/ \E x \in Lockable : Free(t, x) /\ owner' = Locked(t, x)

LocksTyped ==
    /\ owner \in [Lockable -> Actors \cup {None}]
    /\ \A x \in Lockable :
          /\ owner[x] \in Workers => work[owner[x]].pc # "idle"
          /\ owner[x] \in Admins => call[owner[x]].pc # "idle"

\* Only those who are busy hold locks, and the others keep theirs.
LEMMA LockStep ==
    ASSUME LocksTyped, NEW t \in Actors, StepOf(t)
    PROVE  /\ LocksTyped'
           /\ \A u \in Actors \ {t}, x \in Lockable : owner'[x] = u <=> owner[x] = u
           /\ owner' # Released(t) => \A x \in Lockable : owner[x] = t => owner'[x] = t
<1> USE ImportsAssumption DEF Actors, LocksTyped
<1>1. CASE owner' = Released(t)
  <2>1. \A x \in Lockable : owner'[x] = IF owner[x] = t THEN None ELSE owner[x]
    BY <1>1 DEF Released
  <2>2. owner' \in [Lockable -> Actors \cup {None}]
    BY <1>1 DEF Released
  <2> QED
    BY <1>1, <2>1, <2>2 DEF StepOf
<1>2. CASE owner' = owner /\ (t \in Workers => work'[t].pc # "idle")
                          /\ (t \in Admins => call'[t].pc # "idle")
  BY <1>2 DEF StepOf
<1>3. ASSUME NEW y \in Lockable, Free(t, y), owner' = Locked(t, y),
             t \in Workers => work'[t].pc # "idle",
             t \in Admins => call'[t].pc # "idle"
      PROVE  /\ LocksTyped'
             /\ \A u \in Actors \ {t}, x \in Lockable : owner'[x] = u <=> owner[x] = u
             /\ \A x \in Lockable : owner[x] = t => owner'[x] = t
  <2>1. /\ owner'[y] = t /\ owner[y] \in {None, t}
        /\ \A x \in Lockable : x # y => owner'[x] = owner[x]
        /\ owner' \in [Lockable -> Actors \cup {None}]
    BY <1>3 DEF Free, Locked
  <2> QED
    BY <1>3, <2>1 DEF StepOf
<1> QED
  BY <1>1, <1>2, <1>3 DEF StepOf

RunAlone(w) ==
    /\ work[w].pc \notin {"idle", "claim"} => owner[work[w].import] = w
    /\ \A n \in DOMAIN work[w].writes : owner[n] = w

CallAlone(a) ==
    /\ call[a].pc = "restored" => owner[call[a].import] = a
    /\ call[a].pc \in {"restoring", "restored"} =>
          \A s \in DOMAIN call[a].prices :
              Lower[s] \in call[a].todo \/ owner[Lower[s]] = a

\* RunsAlone, split into what each worker and each request relies on.
LEMMA AloneParts ==
    RunsAlone <=> (\A w \in Workers : RunAlone(w)) /\ (\A a \in Admins : CallAlone(a))
BY DEF RunsAlone, RunAlone, CallAlone

\* The domains of what runs and requests keep.
LEMMA Domains ==
    ASSUME TypeOK
    PROVE  /\ \A w \in Workers : /\ work[w] \in WorkRow
                                 /\ DOMAIN work[w].writes \subseteq Names
                                 /\ DOMAIN work[w].found \subseteq Skus
           /\ \A a \in Admins : /\ call[a] \in CallRow
                                /\ DOMAIN call[a].prices \subseteq Skus
           /\ \A s \in Skus : Lower[s] \in Names
           /\ LocksTyped
BY ImportsAssumption DEF TypeOK, WorkRow, CallRow, Partial, LocksTyped, Lockable, Actors

\* The flag of an import that is being run stays as it is.
FlagsKept ==
    \A u \in Workers : work[u].pc \notin {"idle", "claim"} =>
        import'[work[u].import].cancel = import[work[u].import].cancel

\* What the others rely on outlives a step of t.
LEMMA OthersStep ==
    ASSUME TypeOK, RunsAlone, RunsFit, NEW t \in Actors, StepOf(t), FlagsKept
    PROVE  /\ \A u \in Workers : u # t =>
                 RunAlone(u)' /\ RunFits(work[u])' /\ Uncancelled(work[u])'
           /\ \A u \in Admins : u # t => CallAlone(u)'
<1>0. /\ \A u \in Actors \ {t}, x \in Lockable : owner'[x] = u <=> owner[x] = u
      /\ (\A w \in Workers : RunAlone(w)) /\ (\A a \in Admins : CallAlone(a))
  BY Domains, LockStep, AloneParts
<1>1. ASSUME NEW u \in Workers, u # t
      PROVE  RunAlone(u)' /\ RunFits(work[u])' /\ Uncancelled(work[u])'
  <2>1. work'[u] = work[u]
    BY <1>1 DEF StepOf
  <2>2. DOMAIN work[u].writes \subseteq Lockable
        /\ (work[u].pc # "idle" => work[u].import \in Lockable)
    BY Domains DEF TypeOK, Lockable
  <2>3. RunAlone(u)'
    BY <1>0, <1>1, <2>1, <2>2 DEF RunAlone, Actors
  <2>4. RunFits(work[u])'
    BY <2>1 DEF RunsFit, RunFits, KeepsLoaded, Rows
  <2>5. Uncancelled(work[u])'
    BY <2>1 DEF RunsFit, Uncancelled, FlagsKept
  <2> QED
    BY <2>3, <2>4, <2>5
<1>2. ASSUME NEW u \in Admins, u # t
      PROVE  CallAlone(u)'
  <2>1. call'[u] = call[u]
    BY <1>2 DEF StepOf
  <2>2. /\ \A s \in DOMAIN call[u].prices : Lower[s] \in Lockable
        /\ call[u].pc # "idle" => call[u].import \in Lockable
    BY Domains DEF TypeOK, Lockable
  <2> QED
    BY <1>0, <1>2, <2>1, <2>2 DEF CallAlone, Actors
<1> QED
  BY <1>1, <1>2

----------------------------------------------------------------------------
(* A step inside a run.                                                    *)

\* The run w goes on as q.
GoesOn(w, q) ==
    /\ work[w].pc # "idle" /\ q.pc # "idle"
    /\ q \in WorkRow /\ q.import = work[w].import /\ q.loaded = work[w].loaded
    /\ q.offset <= Len(Rows(q))
    /\ RunFits(q) /\ Uncancelled(q)
    /\ Works(w, q)
    /\ snapshot' \in [Imports -> Partial(Skus, Prices) \cup {None}]
    /\ owner' = owner \/ \E x \in Lockable : Free(w, x) /\ owner' = Locked(w, x)
    /\ q.pc # "claim" => owner'[q.import] = w
    /\ \A n \in DOMAIN q.writes : owner'[n] = w

LEMMA GoesOnStep ==
    ASSUME IInv, NEW w \in Workers, NEW q, GoesOn(w, q)
    PROVE  IInv'
<1> USE ImportsAssumption DEF IInv
<1>1. /\ work' = [work EXCEPT ![w] = q] /\ work'[w] = q
      /\ UNCHANGED <<product, import, jobs, call, lease, starts, edits>>
      /\ \A u \in Workers : u # w => work'[u] = work[u]
  BY DEF GoesOn, Works, db, bounds, TypeOK
<1>2. w \in Actors /\ w \notin Admins /\ StepOf(w)
  BY <1>1 DEF GoesOn, StepOf, Actors
<1>3. LocksTyped'
  BY <1>2, Domains, LockStep
<1>4. TypeOK'
  <2>1. work' \in [Workers -> WorkRow]
    BY <1>1 DEF GoesOn, TypeOK
  <2>2. \A u \in Workers : work'[u].pc # "idle" =>
          work'[u].import \in Imports /\ work'[u].offset <= Len(Rows(work'[u]))
    BY <1>1 DEF GoesOn, TypeOK
  <2> QED
    BY <1>1, <1>3, <2>1, <2>2 DEF GoesOn, TypeOK, LocksTyped, Lockable, Actors, Rows
<1>5. FlagsKept
  BY <1>1 DEF FlagsKept
<1>6. RunAlone(w)' /\ RunFits(work[w])' /\ Uncancelled(work[w])'
  BY <1>1 DEF GoesOn, RunAlone, RunFits, KeepsLoaded, Uncancelled, Rows
<1>7. RunsAlone' /\ RunsFit'
  <2>1. \A u \in Workers : RunAlone(u)' /\ RunFits(work[u])' /\ Uncancelled(work[u])'
    BY <1>2, <1>5, <1>6, OthersStep
  <2>2. \A a \in Admins : CallAlone(a)'
    BY <1>2, <1>5, OthersStep
  <2> QED
    BY <2>1, <2>2 DEF RunsAlone, RunAlone, CallAlone, RunsFit
<1>8. RunOnce'
  <2>1. \A u \in Workers, i \in Imports : Runs(u, i)' <=> Runs(u, i)
    BY <1>1 DEF GoesOn, Runs
  <2>2. \A u \in Workers : work'[u].loaded = work[u].loaded
    BY <1>1 DEF GoesOn
  <2> QED
    BY <1>1, <2>1, <2>2 DEF RunOnce, Fresh
<1>9. OutcomesAddUp'
  BY <1>1 DEF OutcomesAddUp
<1> QED
  BY <1>4, <1>7, <1>8, <1>9

\* What a run sees of a product is a product or none, spelled as its name is.
LEMMA SeenType ==
    ASSUME TypeOK, RunsFit, NEW w \in Workers, work[w].pc # "idle", NEW n \in Names
    PROVE  /\ Seen(w, n) \in ProductRow \cup {Absent}
           /\ Seen(w, n) # Absent => Lower[Seen(w, n).sku] = n
<1>1. CASE n \in DOMAIN work[w].writes
  <2>1. PICK U \in SUBSET Names : work[w].writes \in [U -> ProductRow]
    BY Domains DEF WorkRow, Partial
  <2> QED
    BY <1>1, <2>1 DEF Seen, RunsFit, RunFits
<1>2. CASE n \notin DOMAIN work[w].writes
  BY <1>2 DEF Seen, TypeOK
<1> QED
  BY <1>1, <1>2

\* The products a file names are kept with their prices.
LEMMA ExistingType ==
    ASSUME TypeOK, RunsFit, NEW w \in Workers, work[w].pc # "idle",
           NEW skus \in SUBSET Skus
    PROVE  Existing(w, skus) \in Partial(Skus, Prices)
<1>1. \A s \in Skus : Seen(w, Lower[s]) # Absent => Seen(w, Lower[s]).price \in Prices
  BY Domains, SeenType DEF ProductRow
<1>2. PICK U \in SUBSET Skus :
        U = {s \in skus : Seen(w, Lower[s]) # Absent /\ Seen(w, Lower[s]).sku = s}
  OBVIOUS
<1>3. Existing(w, skus) = [s \in U |-> Seen(w, Lower[s]).price]
  BY <1>2 DEF Existing
<1>4. [s \in U |-> Seen(w, Lower[s]).price] \in [U -> Prices]
  BY <1>1, <1>2
<1> QED
  BY <1>3, <1>4 DEF Partial

\* The rows of a file.
LEMMA FileRows ==
    ASSUME NEW i \in Imports
    PROVE  /\ Len(File[i]) \in Nat
           /\ \A k \in 1..Len(File[i]) :
                 File[i][k] \notin Bare => File[i][k] \in ProductRow
           /\ DOMAIN File[i] = 1..Len(File[i])
           /\ SkusOf(i) \subseteq Skus
<1>1. File[i] \in Seq(ProductRow \cup Bare)
  BY ImportsAssumption
<1>2. /\ Len(File[i]) \in Nat /\ DOMAIN File[i] = 1..Len(File[i])
      /\ \A k \in 1..Len(File[i]) : File[i][k] \in ProductRow \cup Bare
  BY <1>1
<1>3. \A row \in Range(File[i]) \ Bare : row \in ProductRow
  BY <1>2 DEF Range
<1> QED
  BY <1>2, <1>3 DEF SkusOf, ProductRow

\* A row that is done leaves the run where it fits.
LEMMA RowDoneFits ==
    ASSUME NEW q \in WorkRow, q.pc = "rows", q.import \in Imports, RunFits(q),
           NEW outcome \in Outcomes
    PROVE  LET d == RowDone(q, outcome) IN
           /\ d \in WorkRow /\ d.pc # "idle" /\ d.pc # "claim"
           /\ d.import = q.import /\ d.loaded = q.loaded /\ d.writes = q.writes
           /\ d.offset \in Nat /\ d.offset # 0 /\ d.offset <= Len(Rows(d))
           /\ RunFits(d)
<1>1. PICK pc \in {"chunk", "rows"} :
        /\ RowDone(q, outcome) =
              [q EXCEPT !.pc = pc, !.offset = q.offset + 1,
                        !.row = Counted(q.row, outcome)]
        /\ pc = "rows" => q.offset + 1 # Len(Rows(q))
  BY DEF RowDone
<1>2. /\ q.offset \in Nat /\ q.row \in ImportRow /\ q.loaded \in ImportRow
      /\ q.offset < Len(Rows(q)) /\ Len(Rows(q)) \in Nat
  BY FileRows DEF WorkRow, RunFits, Rows
<1>3. PICK row \in ImportRow : row = Counted(q.row, outcome)
  BY <1>2, CountsOne
<1>4. PICK offset \in Nat : offset = q.offset + 1
  BY <1>2
<1>5. PICK d : d = [q EXCEPT !.pc = pc, !.offset = offset, !.row = row]
  OBVIOUS
<1>6. RowDone(q, outcome) = d
  BY <1>1, <1>3, <1>4, <1>5
<1>7. /\ d \in WorkRow /\ d.pc = pc /\ d.import = q.import /\ d.loaded = q.loaded
      /\ d.writes = q.writes /\ d.offset = offset /\ d.row = row
  BY <1>5 DEF WorkRow
<1>8. Rows(d) = Rows(q) /\ offset <= Len(Rows(q)) /\ offset # 0
  BY <1>2, <1>4, <1>7 DEF Rows
<1>9. KeepsLoaded(d)
  BY <1>2, <1>3, <1>7, CountsOne DEF KeepsLoaded, RunFits
<1>10. /\ row.processed = q.loaded.processed + offset
       /\ RowsCounted(row) = RowsCounted(q.loaded) + offset
  <2>1. /\ row.processed = q.row.processed + 1
        /\ RowsCounted(row) = RowsCounted(q.row) + 1
    BY <1>2, <1>3, CountsOne
  <2>2. q.loaded.processed \in Nat /\ RowsCounted(q.loaded) \in Nat
    <3>1. \A o \in Outcomes : q.loaded.count[o] \in Nat
      BY <1>2 DEF ImportRow
    <3>2. {"created", "updated", "skipped", "failed"} = Outcomes
      BY DEF Outcomes
    <3>3. RowsCounted(q.loaded) \in Nat
      BY <3>1, <3>2 DEF RowsCounted
    <3> QED
      BY <1>2, <3>3 DEF ImportRow
  <2>3. /\ q.row.processed = q.loaded.processed + q.offset
        /\ RowsCounted(q.row) = RowsCounted(q.loaded) + q.offset
    BY DEF RunFits
  <2> QED
    BY <1>2, <1>4, <2>1, <2>2, <2>3
<1>11. RunFits(d)
  <2>1. pc = "rows" => offset < Len(Rows(q))
    BY <1>1, <1>2, <1>4, <1>8
  <2> QED
    BY <1>1, <1>7, <1>8, <1>9, <1>10, <2>1 DEF RunFits
<1> QED
  BY <1>6, <1>7, <1>8, <1>11

\* What a busy run relies on.
LEMMA BusyRun ==
    ASSUME IInv, NEW w \in Workers, work[w].pc # "idle"
    PROVE  /\ work[w] \in WorkRow /\ work[w].import \in Imports
           /\ work[w].offset \in Nat /\ work[w].offset <= Len(Rows(work[w]))
           /\ Len(Rows(work[w])) \in Nat
           /\ RunFits(work[w]) /\ Uncancelled(work[w]) /\ RunAlone(w)
           /\ work[w].import \in Lockable /\ DOMAIN work[w].writes \subseteq Lockable
           /\ snapshot \in [Imports -> Partial(Skus, Prices) \cup {None}]
<1>1. work[w] \in WorkRow /\ work[w].import \in Imports
  BY Domains DEF IInv, TypeOK
<1>2. work[w].offset \in Nat /\ work[w].offset <= Len(Rows(work[w]))
  BY <1>1 DEF WorkRow, IInv, TypeOK
<1> QED
  BY <1>1, <1>2, FileRows, Domains, AloneParts DEF IInv, TypeOK, RunsFit, Rows, Lockable

\* The first save of the row of the import.
LEMMA ClaimStep ==
    ASSUME IInv, NEW w \in Workers, Claim(w)
    PROVE  IInv'
<1>1. PICK q : q = [work[w] EXCEPT !.pc = "snapshot"]
  OBVIOUS
<1>2. /\ work[w].pc = "claim" /\ Free(w, work[w].import) /\ Works(w, q)
      /\ owner' = Locked(w, work[w].import) /\ snapshot' = snapshot
  BY <1>1 DEF Claim
<1>3. /\ q \in WorkRow /\ q.pc = "snapshot" /\ q.import = work[w].import
      /\ q.loaded = work[w].loaded /\ q.row = work[w].row /\ q.offset = work[w].offset
      /\ q.writes = work[w].writes
  BY <1>1, <1>2, BusyRun DEF WorkRow
<1>4. RunFits(q) /\ Uncancelled(q) /\ q.offset = 0 /\ DOMAIN q.writes = {}
  BY <1>2, <1>3, BusyRun DEF RunFits, KeepsLoaded, Uncancelled, Rows
<1>5. owner'[q.import] = w
  BY <1>2, <1>3, BusyRun, Domains DEF Locked, LocksTyped, IInv
<1>6. GoesOn(w, q)
  BY <1>2, <1>3, <1>4, <1>5, BusyRun DEF GoesOn, Rows
<1> QED
  BY <1>6, GoesOnStep

\* The snapshot of the products.
LEMMA SnapshotStep ==
    ASSUME IInv, NEW w \in Workers, TakeSnapshot(w)
    PROVE  IInv'
<1>1. PICK q : q = [work[w] EXCEPT !.pc = "chunk"]
  OBVIOUS
<1>2. /\ work[w].pc = "snapshot" /\ Works(w, q) /\ owner' = owner
      /\ snapshot' = [snapshot EXCEPT ![work[w].import] =
                         Existing(w, SkusOf(work[w].import))]
  BY <1>1 DEF TakeSnapshot
<1>3. /\ q \in WorkRow /\ q.pc = "chunk" /\ q.import = work[w].import
      /\ q.loaded = work[w].loaded /\ q.row = work[w].row /\ q.offset = work[w].offset
      /\ q.writes = work[w].writes
  BY <1>1, <1>2, BusyRun DEF WorkRow
<1>4. RunFits(q) /\ Uncancelled(q)
  BY <1>2, <1>3, BusyRun DEF RunFits, KeepsLoaded, Uncancelled, Rows
<1>5. snapshot' \in [Imports -> Partial(Skus, Prices) \cup {None}]
  <2>1. Existing(w, SkusOf(work[w].import)) \in Partial(Skus, Prices)
    BY <1>2, BusyRun, FileRows, ExistingType DEF IInv
  <2> QED
    BY <1>2, <2>1, BusyRun
<1>6. owner'[q.import] = w /\ \A n \in DOMAIN q.writes : owner'[n] = w
  BY <1>2, <1>3, BusyRun DEF RunAlone
<1>7. GoesOn(w, q)
  BY <1>2, <1>3, <1>4, <1>5, <1>6, BusyRun DEF GoesOn, Rows
<1> QED
  BY <1>7, GoesOnStep

\* A chunk is read, and the flag of the import is not set.
LEMMA ChunkStep ==
    ASSUME IInv, NEW w \in Workers, NextChunk(w)
    PROVE  IInv'
<1>1. PICK skus : /\ skus \subseteq Skus
                  /\ Works(w, [work[w] EXCEPT !.pc = "rows", !.found = Existing(w, skus)])
  <2> DEFINE q == work[w]
             last == IF q.offset + ChunkSize < Len(Rows(q)) THEN q.offset + ChunkSize
                     ELSE Len(Rows(q))
             chunk == {Rows(q)[k] : k \in (q.offset + 1)..last} \ Bare
  <2>1. Works(w, [q EXCEPT !.pc = "rows", !.found = Existing(w, {r.sku : r \in chunk})])
    BY DEF NextChunk
  <2>2. last \in Nat /\ last <= Len(Rows(q)) /\ q.offset \in Nat /\ Rows(q) = File[q.import]
        /\ q.import \in Imports
    BY BusyRun, ImportsAssumption DEF NextChunk, Rows
  <2>3. \A k \in (q.offset + 1)..last : k \in 1..Len(File[q.import])
    BY <2>2, FileRows
  <2>4. \A r \in chunk : r \in ProductRow
    BY <2>2, <2>3, FileRows
  <2>5. {r.sku : r \in chunk} \subseteq Skus
    BY <2>4 DEF ProductRow
  <2> QED
    BY <2>1, <2>5
<1>2. PICK q : q = [work[w] EXCEPT !.pc = "rows", !.found = Existing(w, skus)]
  OBVIOUS
<1>3. /\ work[w].pc = "chunk" /\ Works(w, q) /\ owner' = owner /\ snapshot' = snapshot
      /\ work[w].offset < Len(Rows(work[w])) /\ ~import[work[w].import].cancel
  BY <1>1, <1>2 DEF NextChunk
<1>4. Existing(w, skus) \in Partial(Skus, Prices)
  BY <1>1, <1>3, BusyRun, ExistingType DEF IInv
<1>5. /\ q \in WorkRow /\ q.pc = "rows" /\ q.import = work[w].import
      /\ q.loaded = work[w].loaded /\ q.row = work[w].row /\ q.offset = work[w].offset
      /\ q.writes = work[w].writes
  BY <1>2, <1>3, <1>4, BusyRun DEF WorkRow
<1>6. RunFits(q) /\ Uncancelled(q)
  BY <1>3, <1>5, BusyRun DEF RunFits, KeepsLoaded, Uncancelled, Rows
<1>7. owner'[q.import] = w /\ \A n \in DOMAIN q.writes : owner'[n] = w
  BY <1>3, <1>5, BusyRun DEF RunAlone
<1>8. GoesOn(w, q)
  BY <1>3, <1>5, <1>6, <1>7, BusyRun DEF GoesOn, Rows
<1> QED
  BY <1>8, GoesOnStep

\* A row is counted and nothing is written.
LEMMA PassStep ==
    ASSUME IInv, NEW w \in Workers, PassRow(w)
    PROVE  IInv'
<1>1. PICK outcome \in Outcomes : Works(w, RowDone(work[w], outcome))
  BY DEF PassRow, Written, Outcomes
<1>2. PICK d : d = RowDone(work[w], outcome)
  OBVIOUS
<1>3. work[w].pc = "rows" /\ owner' = owner /\ snapshot' = snapshot /\ Works(w, d)
  BY <1>1, <1>2 DEF PassRow, AtRow
<1>4. /\ d \in WorkRow /\ d.pc # "idle" /\ d.pc # "claim"
      /\ d.import = work[w].import /\ d.loaded = work[w].loaded
      /\ d.writes = work[w].writes
      /\ d.offset <= Len(Rows(d)) /\ RunFits(d)
  BY <1>2, <1>3, BusyRun, RowDoneFits
<1>5. Uncancelled(d)
  BY <1>3, <1>4, BusyRun DEF Uncancelled
<1>6. owner'[d.import] = w /\ \A n \in DOMAIN d.writes : owner'[n] = w
  BY <1>3, <1>4, BusyRun DEF RunAlone
<1>7. GoesOn(w, d)
  BY <1>3, <1>4, <1>5, <1>6, BusyRun DEF GoesOn
<1> QED
  BY <1>7, GoesOnStep

\* A row is written under the lock of its product.
LEMMA WriteStep ==
    ASSUME IInv, NEW w \in Workers, NEW outcome \in Outcomes,
           HasProduct(w), WriteRow(w, outcome)
    PROVE  IInv'
<1>1. PICK d : d = RowDone(work[w], outcome)
  OBVIOUS
<1>2. work[w].pc = "rows" /\ Row(w) \notin Bare
  BY DEF HasProduct, Applied, Projected, AtRow
<1>3. /\ d \in WorkRow /\ d.pc # "idle" /\ d.pc # "claim"
      /\ d.import = work[w].import /\ d.loaded = work[w].loaded
      /\ d.writes = work[w].writes
      /\ d.offset \in Nat /\ d.offset # 0 /\ d.offset <= Len(Rows(d)) /\ RunFits(d)
  BY <1>1, <1>2, BusyRun, RowDoneFits
<1>4. Row(w) \in ProductRow
  <2>1. work[w].offset + 1 \in 1..Len(File[work[w].import]) /\ work[w].import \in Imports
    BY <1>2, BusyRun DEF RunFits, Rows
  <2> QED
    BY <1>2, <2>1, FileRows DEF Row, Rows
<1>5. PICK n \in Names : n = Lower[Row(w).sku]
  BY <1>4, Domains DEF IInv, ProductRow
<1>6. PICK writes : writes = [m \in DOMAIN d.writes \cup {n} |->
                                 IF m = n THEN Row(w) ELSE work[w].writes[m]]
  OBVIOUS
<1>7. /\ DOMAIN writes = DOMAIN d.writes \cup {n} /\ writes[n] = Row(w)
      /\ \A m \in DOMAIN d.writes : m # n => writes[m] = d.writes[m]
  BY <1>3, <1>6
<1>8. writes \in Partial(Names, ProductRow)
  <2>1. PICK U \in SUBSET Names : d.writes \in [U -> ProductRow]
    BY <1>3 DEF WorkRow, Partial
  <2>2. writes \in [U \cup {n} -> ProductRow] /\ U \cup {n} \in SUBSET Names
    BY <1>3, <1>4, <1>6, <2>1
  <2> QED
    BY <2>2 DEF Partial
<1>9. PICK q : q = [d EXCEPT !.writes = writes]
  OBVIOUS
<1>10. Works(w, q) /\ Free(w, n) /\ owner' = Locked(w, n) /\ snapshot' = snapshot
  BY <1>1, <1>3, <1>5, <1>6, <1>9 DEF WriteRow
<1>11. /\ q \in WorkRow /\ q.pc = d.pc /\ q.import = d.import /\ q.loaded = d.loaded
       /\ q.row = d.row /\ q.offset = d.offset /\ q.writes = writes
  BY <1>3, <1>8, <1>9 DEF WorkRow
<1>12. RunFits(q)
  BY <1>3, <1>5, <1>7, <1>11 DEF RunFits, KeepsLoaded, Rows
<1>13. Uncancelled(q)
  BY <1>2, <1>3, <1>11, BusyRun DEF Uncancelled
<1>14. owner'[q.import] = w /\ \A m \in DOMAIN q.writes : owner'[m] = w
  BY <1>2, <1>3, <1>5, <1>7, <1>10, <1>11, BusyRun, Domains
     DEF RunAlone, Locked, LocksTyped, Lockable, IInv
<1>15. n \in Lockable
  BY DEF Lockable
<1>16. GoesOn(w, q)
  BY <1>2, <1>3, <1>10, <1>11, <1>12, <1>13, <1>14, <1>15, BusyRun DEF GoesOn, Rows
<1> QED
  BY <1>16, GoesOnStep

----------------------------------------------------------------------------
(* The end and the start of a run.                                         *)

\* A worker that rests relies on nothing.
LEMMA RestingType ==
    /\ Resting \in WorkRow /\ Resting.pc = "idle" /\ DOMAIN Resting.writes = {}
    /\ Uploaded \in ImportRow
<1>1. [o \in Outcomes |-> 0] \in [Outcomes -> Nat]
  OBVIOUS
<1>2. Uploaded \in ImportRow
  BY <1>1 DEF Uploaded, ImportRow
<1>3. Nothing \in [{} -> Prices] /\ Nothing \in [{} -> ProductRow] /\ DOMAIN Nothing = {}
  BY DEF Nothing
<1>4. Nothing \in Partial(Skus, Prices) /\ Nothing \in Partial(Names, ProductRow)
  BY <1>3 DEF Partial
<1> QED
  BY <1>2, <1>3, <1>4 DEF Resting, WorkRow

ProductsTyped ==
    /\ product \in [Names -> ProductRow \cup {Absent}]
    /\ \A n \in Names : product[n] # Absent => Lower[product[n].sku] = n

\* A run ends and changes the row of its own import at most.
LEMMA EndStep ==
    ASSUME IInv, NEW w \in Workers, WorkerEnds(w),
           ProductsTyped', import' \in [Imports -> ImportRow],
           \A i \in Imports : /\ import'[i].cancel = import[i].cancel
                              /\ ~Runs(w, i) => import'[i] = import[i],
           OutcomesAddUp'
    PROVE  IInv'
<1> USE ImportsAssumption DEF IInv
<1>1. /\ work' = [work EXCEPT ![w] = Resting] /\ work'[w] = Resting
      /\ UNCHANGED <<snapshot, jobs, call, lease, starts, edits>>
      /\ \A u \in Workers : u # w => work'[u] = work[u]
  BY DEF WorkerEnds, bounds, TypeOK
<1>2. w \in Actors /\ w \notin Admins /\ StepOf(w)
  BY <1>1 DEF WorkerEnds, StepOf, Actors
<1>3. LocksTyped'
  BY <1>2, Domains, LockStep
<1>4. TypeOK'
  <2>1. work' \in [Workers -> WorkRow]
    BY <1>1, RestingType DEF TypeOK
  <2>2. \A u \in Workers : work'[u].pc # "idle" =>
          work'[u].import \in Imports /\ work'[u].offset <= Len(Rows(work'[u]))
    BY <1>1, RestingType DEF TypeOK
  <2> QED
    BY <1>1, <1>3, <2>1, <2>2
       DEF TypeOK, LocksTyped, Lockable, Actors, Rows, ProductsTyped
<1>5. FlagsKept
  BY DEF FlagsKept, TypeOK
<1>6. RunAlone(w)' /\ RunFits(work[w])' /\ Uncancelled(work[w])'
  BY <1>1, RestingType DEF RunAlone, RunFits, Uncancelled
<1>7. RunsAlone' /\ RunsFit'
  <2>1. \A u \in Workers : RunAlone(u)' /\ RunFits(work[u])' /\ Uncancelled(work[u])'
    BY <1>2, <1>5, <1>6, OthersStep
  <2>2. \A a \in Admins : CallAlone(a)'
    BY <1>2, <1>5, OthersStep
  <2> QED
    BY <2>1, <2>2 DEF RunsAlone, RunAlone, CallAlone, RunsFit
<1>8. RunOnce'
  <2>1. \A u \in Workers, i \in Imports : Runs(u, i)' <=> Runs(u, i) /\ u # w
    BY <1>1, RestingType DEF Runs
  <2>2. \A u \in Workers : u # w => work'[u].loaded = work[u].loaded
    BY <1>1
  <2>3. ASSUME NEW i \in Imports, starts[i] = 0
        PROVE  jobs'[i] = 0 /\ Fresh(import[i])' /\ \A u \in Workers : ~Runs(u, i)'
    BY <1>1, <2>1, <2>3 DEF RunOnce, Fresh
  <2>4. ASSUME NEW i \in Imports, starts[i] = 1, jobs[i] = 1
        PROVE  Fresh(import[i])' /\ \A u \in Workers : ~Runs(u, i)'
    BY <1>1, <2>1, <2>4 DEF RunOnce, Fresh
  <2>5. ASSUME NEW i \in Imports, starts[i] = 1, NEW u \in Workers, Runs(u, i)'
        PROVE  /\ jobs'[i] = 0 /\ Fresh(import[i])' /\ Fresh(work[u].loaded)'
               /\ \A v \in Workers : Runs(v, i)' => v = u
    <3>1. u # w /\ Runs(u, i) /\ ~Runs(w, i)
      BY <2>1, <2>5 DEF RunOnce
    <3> QED
      BY <1>1, <2>1, <2>2, <2>5, <3>1 DEF RunOnce, Fresh
  <2> QED
    BY <1>1, <2>3, <2>4, <2>5 DEF RunOnce
<1> QED
  BY <1>4, <1>7, <1>8

\* A run that is lost changes nothing.
LEMMA AbortStep ==
    ASSUME IInv, NEW w \in Workers, Abort(w)
    PROVE  IInv'
<1>1. WorkerEnds(w) /\ UNCHANGED <<product, import, starts>>
  BY DEF Abort, db, WorkerEnds, bounds
<1>2. /\ ProductsTyped' /\ import' \in [Imports -> ImportRow]
      /\ \A i \in Imports : import'[i] = import[i]
      /\ OutcomesAddUp'
  BY <1>1 DEF IInv, TypeOK, ProductsTyped, OutcomesAddUp
<1> QED
  BY <1>1, <1>2, EndStep

\* What a run commits.
LEMMA ConcludeWrites ==
    ASSUME IInv, NEW w \in Workers, NEW status \in Final, Conclude(w, status),
           work[w].pc # "idle"
    PROVE  LET q == work[w]  s == import'[q.import] IN
           /\ ProductsTyped' /\ import' \in [Imports -> ImportRow]
           /\ \A n \in DOMAIN q.writes : product'[n] = q.writes[n]
           /\ DOMAIN q.writes = {} => product' = product
           /\ \A i \in Imports : i # q.import => import'[i] = import[i]
           /\ s.status = status /\ s.cancel = import[q.import].cancel
           /\ s.processed = IF q.row.processed = q.loaded.processed
                            THEN import[q.import].processed ELSE q.row.processed
           /\ s.count = IF q.row.count = q.loaded.count
                        THEN import[q.import].count ELSE q.row.count
<1> DEFINE q == work[w]
<1>1. /\ q \in WorkRow /\ q.import \in Imports /\ RunFits(q)
      /\ import[q.import] \in ImportRow
  BY BusyRun DEF IInv, TypeOK
<1>2. /\ import' = [import EXCEPT ![q.import] =
               [Saved(import[q.import], q.loaded, q.row)
                  EXCEPT !.status = status, !.finished = TRUE]]
      /\ product' = [n \in Names |->
               IF n \in DOMAIN q.writes THEN q.writes[n] ELSE product[n]]
  BY DEF Conclude
<1>3. PICK s : s = [Saved(import[q.import], q.loaded, q.row)
                      EXCEPT !.status = status, !.finished = TRUE]
  OBVIOUS
<1>4. /\ s \in ImportRow /\ s.status = status /\ s.cancel = import[q.import].cancel
      /\ s.processed = IF q.row.processed = q.loaded.processed
                       THEN import[q.import].processed ELSE q.row.processed
      /\ s.count = IF q.row.count = q.loaded.count
                   THEN import[q.import].count ELSE q.row.count
  <2>1. PICK c \in ImportRow : c = import[q.import]
    BY <1>1
  <2>2. PICK l \in ImportRow : l = q.loaded
    BY <1>1 DEF WorkRow
  <2>3. PICK row \in ImportRow : row = q.row
    BY <1>1 DEF WorkRow
  <2>4. s = Ended(c, l, row, status)
    BY <1>3, <2>1, <2>2, <2>3 DEF Ended
  <2>5. row.cancel = l.cancel
    BY <1>1, <2>2, <2>3 DEF RunFits, KeepsLoaded
  <2>6. /\ s \in ImportRow /\ s.status = status /\ s.cancel = c.cancel
        /\ s.processed = IF row.processed = l.processed THEN c.processed
                         ELSE row.processed
        /\ s.count = IF row.count = l.count THEN c.count ELSE row.count
    BY <2>4, <2>5 DEF Ended, Saved, ImportRow
  <2> QED
    BY <2>1, <2>2, <2>3, <2>6
<1>5. /\ import' \in [Imports -> ImportRow] /\ import'[q.import] = s
      /\ \A i \in Imports : i # q.import => import'[i] = import[i]
  BY <1>1, <1>2, <1>3, <1>4 DEF IInv, TypeOK
<1>6. PICK U \in SUBSET Names : q.writes \in [U -> ProductRow]
  BY <1>1 DEF WorkRow, Partial
<1>7. ProductsTyped'
  <2>1. product' \in [Names -> ProductRow \cup {Absent}]
    BY <1>2, <1>6 DEF IInv, TypeOK
  <2>2. \A n \in Names : product'[n] # Absent => Lower[product'[n].sku] = n
    BY <1>1, <1>2, <1>6 DEF IInv, TypeOK, RunFits
  <2> QED
    BY <2>1, <2>2 DEF ProductsTyped
<1>8. /\ \A n \in DOMAIN q.writes : product'[n] = q.writes[n]
      /\ DOMAIN q.writes = {} => product' = product
  BY <1>2, <1>6 DEF IInv, TypeOK
<1> QED
  BY <1>4, <1>5, <1>7, <1>8

\* A run ends with an outcome: completed only at the end of the file, and without
\* errors only when no row has failed.
LEMMA ConcludeStep ==
    ASSUME IInv, NEW w \in Workers, NEW status \in Final, Conclude(w, status),
           work[w].pc # "idle",
           status \in {"completed", "completed_with_errors"} =>
               /\ work[w].offset = Len(Rows(work[w]))
               /\ status = "completed" <=> work[w].row.count["failed"] = 0
    PROVE  IInv'
<1> DEFINE q == work[w]
<1>1. /\ q \in WorkRow /\ q.import \in Imports /\ RunFits(q) /\ Runs(w, q.import)
      /\ \A i \in Imports : import[i] \in ImportRow
      /\ q.offset \in Nat
  BY BusyRun DEF IInv, TypeOK, Runs
<1>2. WorkerEnds(w) /\ starts' = starts
  BY DEF Conclude, WorkerEnds, bounds
<1>3. PICK s : s = import'[q.import]
  OBVIOUS
<1>4. /\ ProductsTyped' /\ import' \in [Imports -> ImportRow]
      /\ \A i \in Imports : i # q.import => import'[i] = import[i]
      /\ s.status = status /\ s.cancel = import[q.import].cancel
      /\ s.processed = IF q.row.processed = q.loaded.processed
                       THEN import[q.import].processed ELSE q.row.processed
      /\ s.count = IF q.row.count = q.loaded.count
                   THEN import[q.import].count ELSE q.row.count
  BY <1>3, ConcludeWrites
<1>5. ASSUME starts[q.import] = 1
      PROVE  /\ s.processed = q.offset
             /\ RowsCounted(s) = q.offset
             /\ s.count["failed"] = q.row.count["failed"]
  <2>1. Fresh(import[q.import]) /\ Fresh(q.loaded)
    BY <1>1, <1>5 DEF IInv, RunOnce
  <2>2. "created" \in Outcomes /\ "updated" \in Outcomes /\ "skipped" \in Outcomes
        /\ "failed" \in Outcomes
    BY DEF Outcomes
  <2>3. RowsCounted(import[q.import]) = 0 /\ RowsCounted(q.loaded) = 0
    BY <2>1, <2>2 DEF Fresh, RowsCounted
  <2>4. q.row.processed = q.offset /\ RowsCounted(q.row) = q.offset
    BY <1>1, <2>1, <2>3 DEF RunFits, Fresh
  <2>5. s.processed = q.offset
    BY <1>4, <2>1, <2>4 DEF Fresh
  <2>6. CASE q.row.count = q.loaded.count
    BY <1>4, <2>1, <2>2, <2>3, <2>4, <2>5, <2>6 DEF Fresh, RowsCounted
  <2>7. CASE q.row.count # q.loaded.count
    BY <1>4, <2>4, <2>5, <2>7 DEF RowsCounted
  <2> QED
    BY <2>6, <2>7
<1>6. OutcomesAddUp'
  <2> SUFFICES ASSUME NEW i \in Imports,
                      import'[i].status \in {"completed", "completed_with_errors"},
                      starts[i] = 1
               PROVE  /\ import'[i].processed = Len(File[i])
                      /\ RowsCounted(import'[i]) = Len(File[i])
                      /\ import'[i].status = "completed"
                            <=> import'[i].count["failed"] = 0
    BY <1>2 DEF OutcomesAddUp, RowsCounted
  <2>1. CASE i = q.import
    BY <1>3, <1>4, <1>5, <2>1 DEF Rows
  <2>2. CASE i # q.import
    BY <1>4, <2>2 DEF IInv, OutcomesAddUp, RowsCounted
  <2> QED
    BY <2>1, <2>2
<1>7. \A i \in Imports : /\ import'[i].cancel = import[i].cancel
                         /\ ~Runs(w, i) => import'[i] = import[i]
  BY <1>1, <1>3, <1>4
<1> QED
  BY <1>2, <1>4, <1>6, <1>7, EndStep

\* A job is taken from the queue, with the row of the import as it is.
LEMMA PickUpStep ==
    ASSUME IInv, NEW w \in Workers, NEW i \in Imports, PickUp(w, i)
    PROVE  IInv'
<1> USE ImportsAssumption DEF IInv
<1>0. PICK skip \in Filters[i] :
        work' = [work EXCEPT ![w] =
            [Resting EXCEPT !.pc = "claim", !.import = i, !.skip = skip,
                            !.loaded = import[i], !.row = import[i]]]
  BY DEF PickUp
<1>1. PICK q : q = [Resting EXCEPT !.pc = "claim", !.import = i, !.skip = skip,
                                   !.loaded = import[i], !.row = import[i]]
  OBVIOUS
<1>2. /\ work[w].pc = "idle" /\ jobs[i] > 0
      /\ jobs' = [jobs EXCEPT ![i] = jobs[i] - 1]
      /\ work' = [work EXCEPT ![w] = q] /\ work'[w] = q
      /\ UNCHANGED <<product, import, snapshot, call, owner, lease, starts, edits>>
      /\ \A u \in Workers : u # w => work'[u] = work[u]
  BY <1>0, <1>1 DEF PickUp, db, bounds, TypeOK
<1>3. import[i] \in ImportRow /\ jobs[i] \in Nat /\ starts[i] \in Nat
      /\ jobs[i] <= starts[i]
  BY DEF TypeOK
<1>4. /\ q \in WorkRow /\ q.pc = "claim" /\ q.import = i /\ q.loaded = import[i]
      /\ q.row = import[i] /\ q.offset = 0 /\ DOMAIN q.writes = {}
  <2>1. skip \in SUBSET Skips
    OBVIOUS
  <2> QED
    BY <1>1, <1>3, <2>1, RestingType DEF WorkRow, Resting
<1>5. w \in Actors /\ w \notin Admins /\ StepOf(w)
  BY <1>2, <1>4 DEF StepOf, Actors
<1>6. LocksTyped'
  BY <1>5, Domains, LockStep
<1>7. jobs' \in [Imports -> Nat] /\ (\A j \in Imports : jobs'[j] <= starts[j])
  BY <1>2, <1>3 DEF TypeOK
<1>8. Len(Rows(q)) \in Nat /\ RowsCounted(import[i]) \in Int
  <2>1. \A o \in Outcomes : import[i].count[o] \in Nat
    BY <1>3 DEF ImportRow
  <2>2. {"created", "updated", "skipped", "failed"} = Outcomes
    BY DEF Outcomes
  <2> QED
    <3>1. RowsCounted(import[i]) \in Int
      BY <2>1, <2>2 DEF RowsCounted
    <3> QED
      BY <1>4, <3>1, FileRows DEF Rows
<1>9. TypeOK'
  <2>1. work' \in [Workers -> WorkRow]
    BY <1>2, <1>4 DEF TypeOK
  <2>2. \A u \in Workers : work'[u].pc # "idle" =>
          work'[u].import \in Imports /\ work'[u].offset <= Len(Rows(work'[u]))
    BY <1>2, <1>4, <1>8 DEF TypeOK
  <2> QED
    BY <1>2, <1>6, <1>7, <2>1, <2>2 DEF TypeOK, LocksTyped, Lockable, Actors, Rows
<1>10. FlagsKept
  BY <1>2 DEF FlagsKept
<1>11. RunFits(q)
  <2>1. import[i].processed \in Nat
    BY <1>3 DEF ImportRow
  <2> QED
    BY <1>4, <1>8, <2>1 DEF RunFits, KeepsLoaded
<1>12. RunAlone(w)' /\ RunFits(work[w])' /\ Uncancelled(work[w])'
  BY <1>2, <1>4, <1>11 DEF RunAlone, RunFits, KeepsLoaded, Uncancelled, Rows
<1>13. RunsAlone' /\ RunsFit'
  <2>1. \A u \in Workers : RunAlone(u)' /\ RunFits(work[u])' /\ Uncancelled(work[u])'
    BY <1>5, <1>10, <1>12, OthersStep
  <2>2. \A a \in Admins : CallAlone(a)'
    BY <1>5, <1>10, OthersStep
  <2> QED
    BY <2>1, <2>2 DEF RunsAlone, RunAlone, CallAlone, RunsFit
<1>14. RunOnce'
  <2>1. \A u \in Workers, j \in Imports :
          Runs(u, j)' <=> Runs(u, j) \/ (u = w /\ j = i)
    BY <1>2, <1>4 DEF Runs
  <2>2. \A u \in Workers : u # w => work'[u].loaded = work[u].loaded
    BY <1>2
  <2>3. \A j \in Imports : j # i => jobs'[j] = jobs[j]
    BY <1>2
  <2>4. jobs'[i] = jobs[i] - 1 /\ starts[i] # 0 /\ (starts[i] = 1 => jobs[i] = 1)
    BY <1>2, <1>3, <2>3 DEF RunOnce, TypeOK
  <2>5. starts[i] = 1 => /\ jobs'[i] = 0 /\ Fresh(import[i]) /\ Fresh(q.loaded)
                         /\ \A u \in Workers : ~Runs(u, i)
    BY <1>4, <2>4 DEF RunOnce
  <2>6. ASSUME NEW j \in Imports, j # i
        PROVE  /\ starts[j] = 0 => /\ jobs'[j] = 0 /\ Fresh(import[j])
                                   /\ \A u \in Workers : ~Runs(u, j)'
               /\ starts[j] = 1 =>
                    /\ jobs'[j] = 1 => Fresh(import[j]) /\ \A u \in Workers : ~Runs(u, j)'
                    /\ \A u \in Workers : Runs(u, j)' =>
                        /\ jobs'[j] = 0 /\ Fresh(import[j]) /\ Fresh(work'[u].loaded)
                        /\ \A v \in Workers : Runs(v, j)' => v = u
    BY <1>2, <2>1, <2>2, <2>3, <2>6 DEF RunOnce, Runs
  <2>7. /\ jobs'[i] # 1 \/ starts[i] # 1
        /\ starts[i] = 1 => \A u \in Workers : Runs(u, i)' =>
              /\ jobs'[i] = 0 /\ Fresh(import[i]) /\ Fresh(work'[u].loaded)
              /\ \A v \in Workers : Runs(v, i)' => v = u
    BY <1>2, <2>1, <2>5
  <2> QED
    BY <1>2, <2>4, <2>6, <2>7 DEF RunOnce, Fresh
<1>15. OutcomesAddUp'
  BY <1>2 DEF OutcomesAddUp
<1> QED
  BY <1>9, <1>13, <1>14, <1>15

----------------------------------------------------------------------------
(* Requests of the wizard.                                                 *)

NoCallType == NoCall \in CallRow /\ NoCall.pc = "idle"

\* A request that has ended is one of its type.
LEMMA NoCallTyped == NoCallType
<1>1. Nothing \in [{} -> Prices]
  BY DEF Nothing
<1>2. Nothing \in Partial(Skus, Prices)
  BY <1>1 DEF Partial
<1> QED
  BY <1>2 DEF NoCallType, NoCall, CallRow

\* A request that is not under way, or holds the products it has restored.
CallFits(c, held) ==
    /\ c \in CallRow /\ (c.pc # "idle" => c.import \in Imports)
    /\ c.pc = "restored" => c.import \in held
    /\ c.pc \in {"restoring", "restored"} =>
          \A s \in DOMAIN c.prices : Lower[s] \in c.todo \/ Lower[s] \in held

HeldBy(a) == {x \in Lockable : owner[x] = a}

\* The request a goes on as c, or ends; the counts of an import and the flags stay.
CallGoesOn(a, c) ==
    /\ call' = [call EXCEPT ![a] = c]
    /\ UNCHANGED <<snapshot, work>>
    /\ CallFits(c, HeldBy(a)')
    /\ \/ owner' = Released(a)
       \/ c.pc # "idle" /\ (owner' = owner \/
             \E x \in Lockable : Free(a, x) /\ owner' = Locked(a, x))
    /\ ProductsTyped' /\ import' \in [Imports -> ImportRow]
    /\ lease' \in [Imports -> Admins \cup {None}]
    /\ edits' \in Nat

\* A step of a request keeps the types, the locks and what the runs rely on.
LEMMA CallStep ==
    ASSUME IInv, NEW a \in Admins, NEW c, CallGoesOn(a, c), FlagsKept,
           jobs' \in [Imports -> Nat], starts' \in [Imports -> Nat],
           \A i \in Imports : jobs'[i] <= starts'[i]
    PROVE  TypeOK' /\ RunsAlone' /\ RunsFit'
<1> USE ImportsAssumption DEF IInv
<1>1. /\ call' = [call EXCEPT ![a] = c] /\ call'[a] = c
      /\ UNCHANGED <<snapshot, work>>
      /\ \A u \in Admins : u # a => call'[u] = call[u]
  BY DEF CallGoesOn, TypeOK
<1>2. a \in Actors /\ a \notin Workers /\ StepOf(a)
  BY <1>1 DEF CallGoesOn, StepOf, Actors
<1>3. LocksTyped'
  BY <1>2, Domains, LockStep
<1>4. TypeOK'
  <2>1. call' \in [Admins -> CallRow]
    BY <1>1 DEF CallGoesOn, CallFits, TypeOK
  <2>2. \A u \in Admins : call'[u].pc # "idle" => call'[u].import \in Imports
    BY <1>1 DEF CallGoesOn, CallFits, TypeOK
  <2> QED
    BY <1>1, <1>3, <2>1, <2>2
       DEF CallGoesOn, TypeOK, LocksTyped, Lockable, Actors, Rows, ProductsTyped
<1>5. CallAlone(a)'
  BY <1>1 DEF CallGoesOn, CallFits, CallAlone, HeldBy
<1>6. \A u \in Workers : RunAlone(u)' /\ RunFits(work[u])' /\ Uncancelled(work[u])'
  BY <1>2, OthersStep
<1>7. \A u \in Admins : CallAlone(u)'
  BY <1>2, <1>5, OthersStep
<1> QED
  BY <1>4, <1>6, <1>7 DEF RunsAlone, RunAlone, CallAlone, RunsFit

\* What a request leaves of the counts: at most a status that claims nothing.
CountsKept ==
    \A i \in Imports : /\ import'[i].processed = import[i].processed
                       /\ import'[i].count = import[i].count
                       /\ import'[i].status \in {import[i].status, "queued", "rolled_back"}

\* While the queue and the runs stay as they are, so does what they promise.
LEMMA CountsStay ==
    ASSUME IInv, UNCHANGED <<work, jobs, starts>>, CountsKept
    PROVE  RunOnce' /\ OutcomesAddUp'
<1>1. \A i \in Imports : Fresh(import[i]) => Fresh(import[i])'
  BY DEF Fresh, CountsKept
<1>2. \A u \in Workers, i \in Imports : Runs(u, i)' <=> Runs(u, i)
  BY DEF Runs
<1>3. RunOnce'
  BY <1>1, <1>2 DEF IInv, RunOnce
<1>4. OutcomesAddUp'
  BY DEF IInv, OutcomesAddUp, CountsKept
<1> QED
  BY <1>3, <1>4

\* A request that leaves the queue alone and the flags as they are.
LEMMA QuietCall ==
    ASSUME IInv, NEW a \in Admins, NEW c, CallGoesOn(a, c), CountsKept,
           \A i \in Imports : import'[i].cancel = import[i].cancel,
           UNCHANGED <<jobs, starts>>
    PROVE  IInv'
<1>1. FlagsKept
  BY DEF FlagsKept, IInv, TypeOK
<1>2. /\ jobs' \in [Imports -> Nat] /\ starts' \in [Imports -> Nat]
      /\ \A i \in Imports : jobs'[i] <= starts'[i]
  BY DEF IInv, TypeOK
<1>3. work' = work
  BY DEF CallGoesOn
<1> QED
  BY <1>1, <1>2, <1>3, CallStep, CountsStay DEF IInv

\* A start adds one job.
LEMMA StartStep ==
    ASSUME IInv, NEW a \in Admins, NEW i \in Imports, Start(a, i)
    PROVE  IInv'
<1> USE DEF IInv
<1>1. PICK update \in BOOLEAN :
        Calls(a, [NoCall EXCEPT !.pc = "started", !.import = i, !.update = update])
  BY DEF Start
<1>2. PICK c : c = [NoCall EXCEPT !.pc = "started", !.import = i, !.update = update]
  OBVIOUS
<1>3. c \in CallRow /\ c.pc = "started" /\ c.import = i
  BY <1>2, NoCallTyped DEF NoCallType, CallRow
<1>4. /\ call' = [call EXCEPT ![a] = c] /\ Free(a, i) /\ owner' = Locked(a, i)
      /\ UNCHANGED <<product, import, snapshot, work, lease, edits>>
      /\ jobs' = [jobs EXCEPT ![i] = jobs[i] + 1]
      /\ starts' = [starts EXCEPT ![i] = starts[i] + 1]
  BY <1>1, <1>2 DEF Start, Calls, db
<1>5. CallGoesOn(a, c)
  BY <1>3, <1>4 DEF CallGoesOn, CallFits, TypeOK, ProductsTyped, Lockable
<1>6. FlagsKept
  BY <1>4 DEF FlagsKept
<1>7. /\ jobs' \in [Imports -> Nat] /\ starts' \in [Imports -> Nat]
      /\ \A j \in Imports : jobs'[j] <= starts'[j]
      /\ starts'[i] = starts[i] + 1 /\ jobs'[i] = jobs[i] + 1
      /\ starts[i] \in Nat /\ jobs[i] \in Nat
      /\ \A j \in Imports : j # i => starts'[j] = starts[j] /\ jobs'[j] = jobs[j]
  BY <1>4 DEF TypeOK
<1>8. RunOnce'
  <2>1. \A u \in Workers, j \in Imports : Runs(u, j)' <=> Runs(u, j)
    BY <1>4 DEF Runs
  <2>2. \A j \in Imports : Fresh(import[j])' <=> Fresh(import[j])
    BY <1>4 DEF Fresh
  <2>3. /\ starts'[i] # 0
        /\ starts'[i] = 1 => jobs'[i] = 1 /\ Fresh(import[i]) /\ \A u \in Workers : ~Runs(u, i)
    BY <1>7 DEF RunOnce
  <2> QED
    BY <1>4, <1>7, <2>1, <2>2, <2>3 DEF RunOnce
<1>9. OutcomesAddUp'
  <2>1. starts'[i] = 1 => Fresh(import[i])
    BY <1>7 DEF RunOnce
  <2> QED
    BY <1>4, <1>7, <2>1 DEF OutcomesAddUp, Fresh
<1> QED
  BY <1>5, <1>6, <1>7, <1>8, <1>9, CallStep

\* The row of a start is committed, perhaps after its job was taken.
LEMMA StartCommitsStep ==
    ASSUME IInv, NEW a \in Admins, StartCommits(a)
    PROVE  IInv'
<1> USE DEF IInv
<1>1. PICK i \in Imports : i = call[a].import
  BY DEF StartCommits, TypeOK
<1>2. PICK update \in BOOLEAN : update = call[a].update
  BY DEF TypeOK, CallRow
<1>3. PICK row : row = [import[i] EXCEPT !.status = "queued", !.update = update]
  OBVIOUS
<1>4. /\ row \in ImportRow /\ row.status = "queued" /\ row.cancel = import[i].cancel
      /\ row.processed = import[i].processed /\ row.count = import[i].count
  <2>1. PICK old \in ImportRow : old = import[i]
    BY DEF TypeOK
  <2>2. row = [old EXCEPT !.status = "queued", !.update = update]
    BY <1>3, <2>1
  <2> QED
    BY <1>2, <2>1, <2>2 DEF ImportRow
<1>5. /\ import' = [import EXCEPT ![i] = row]
      /\ owner' = Released(a) /\ call' = [call EXCEPT ![a] = NoCall]
      /\ UNCHANGED <<product, snapshot, work, jobs, lease, starts, edits>>
  BY <1>1, <1>2, <1>3 DEF StartCommits, Calls, TypeOK
<1>6. CallGoesOn(a, NoCall)
  BY <1>4, <1>5, NoCallTyped DEF CallGoesOn, CallFits, TypeOK, ProductsTyped, NoCallType
<1>7. CountsKept /\ \A j \in Imports : import'[j].cancel = import[j].cancel
  BY <1>4, <1>5 DEF CountsKept, TypeOK
<1> QED
  BY <1>5, <1>6, <1>7, QuietCall

\* A rollback begins with every product still to be restored.
LEMMA RollbackStep ==
    ASSUME IInv, NEW a \in Admins, NEW i \in Imports, Rollback(a, i)
    PROVE  IInv'
<1> USE DEF IInv
<1>1. snapshot[i] \in Partial(Skus, Prices)
  BY DEF Rollback, TypeOK
<1>2. PICK todo \in SUBSET Names : todo = {Lower[s] : s \in DOMAIN snapshot[i]}
  <2>1. \A s \in DOMAIN snapshot[i] : Lower[s] \in Names
    BY <1>1, Domains DEF Partial
  <2> QED
    BY <2>1
<1>3. PICK c : c = [NoCall EXCEPT !.pc = "restoring", !.import = i,
                                  !.prices = snapshot[i], !.todo = todo]
  OBVIOUS
<1>4. /\ c \in CallRow /\ c.pc = "restoring" /\ c.import = i /\ c.prices = snapshot[i]
      /\ c.todo = todo
  BY <1>1, <1>3, NoCallTyped DEF NoCallType, CallRow
<1>5. /\ call' = [call EXCEPT ![a] = c] /\ lease' = [lease EXCEPT ![i] = a]
      /\ UNCHANGED <<product, import, snapshot, work, jobs, owner, starts, edits>>
  BY <1>2, <1>3 DEF Rollback, Calls, db
<1>6. CallGoesOn(a, c)
  BY <1>2, <1>4, <1>5 DEF CallGoesOn, CallFits, TypeOK, ProductsTyped
<1>7. CountsKept /\ \A j \in Imports : import'[j].cancel = import[j].cancel
  BY <1>5 DEF CountsKept
<1> QED
  BY <1>5, <1>6, <1>7, QuietCall

\* A product is restored under its lock.
LEMMA RestoreStep ==
    ASSUME IInv, NEW a \in Admins, NEW n \in Names, RestoreProduct(a, n)
    PROVE  IInv'
<1> USE DEF IInv
<1>1. PICK c : c = [call[a] EXCEPT !.todo = call[a].todo \ {n}]
  OBVIOUS
<1>2. /\ c \in CallRow /\ c.pc = call[a].pc /\ c.import = call[a].import
      /\ c.prices = call[a].prices /\ c.todo = call[a].todo \ {n}
  BY <1>1 DEF TypeOK, CallRow
<1>3. /\ call[a].pc = "restoring" /\ Free(a, n) /\ owner' = Locked(a, n)
      /\ call' = [call EXCEPT ![a] = c]
      /\ UNCHANGED <<product, import, snapshot, work, jobs, lease, starts, edits>>
  BY <1>1 DEF RestoreProduct, Calls, db
<1>4. /\ n \in HeldBy(a)'
      /\ \A x \in Lockable : owner[x] = a => x \in HeldBy(a)'
  BY <1>3, Domains DEF HeldBy, Locked, LocksTyped, Lockable
<1>5. \A s \in DOMAIN c.prices : Lower[s] \in c.todo \/ Lower[s] \in HeldBy(a)'
  <2>1. \A s \in DOMAIN c.prices : Lower[s] \in Lockable
    BY <1>2, Domains DEF Lockable
  <2>2. \A s \in DOMAIN c.prices : Lower[s] \in call[a].todo \/ owner[Lower[s]] = a
    BY <1>2, <1>3, AloneParts DEF CallAlone
  <2> QED
    BY <1>2, <1>4, <2>1, <2>2
<1>6. CallGoesOn(a, c)
  BY <1>2, <1>3, <1>5 DEF CallGoesOn, CallFits, TypeOK, ProductsTyped, Lockable
<1>7. CountsKept /\ \A j \in Imports : import'[j].cancel = import[j].cancel
  BY <1>3 DEF CountsKept
<1> QED
  BY <1>3, <1>6, <1>7, QuietCall

\* With every product restored, the row of the import is locked as well.
LEMMA SaveRollbackStep ==
    ASSUME IInv, NEW a \in Admins, SaveRollback(a)
    PROVE  IInv'
<1> USE DEF IInv
<1>1. PICK i \in Imports : i = call[a].import
  BY DEF SaveRollback, TypeOK
<1>2. PICK c : c = [call[a] EXCEPT !.pc = "restored"]
  OBVIOUS
<1>3. /\ c \in CallRow /\ c.pc = "restored" /\ c.import = i
      /\ c.prices = call[a].prices /\ c.todo = call[a].todo
  BY <1>1, <1>2 DEF TypeOK, CallRow
<1>4. /\ call[a].pc = "restoring" /\ Free(a, i) /\ owner' = Locked(a, i)
      /\ call' = [call EXCEPT ![a] = c] /\ lease' = [lease EXCEPT ![i] = None]
      /\ UNCHANGED <<product, import, snapshot, work, jobs, starts, edits>>
  BY <1>1, <1>2 DEF SaveRollback, Calls, db
<1>5. /\ i \in HeldBy(a)'
      /\ \A x \in Lockable : owner[x] = a => x \in HeldBy(a)'
  BY <1>4, Domains DEF HeldBy, Locked, LocksTyped, Lockable
<1>6. \A s \in DOMAIN c.prices : Lower[s] \in c.todo \/ Lower[s] \in HeldBy(a)'
  <2>1. \A s \in DOMAIN c.prices : Lower[s] \in Lockable
    BY <1>3, Domains DEF Lockable
  <2>2. \A s \in DOMAIN c.prices : Lower[s] \in call[a].todo \/ owner[Lower[s]] = a
    BY <1>3, <1>4, AloneParts DEF CallAlone
  <2> QED
    BY <1>3, <1>5, <2>1, <2>2
<1>7. CallGoesOn(a, c)
  BY <1>3, <1>4, <1>5, <1>6 DEF CallGoesOn, CallFits, TypeOK, ProductsTyped, Lockable
<1>8. CountsKept /\ \A j \in Imports : import'[j].cancel = import[j].cancel
  BY <1>4 DEF CountsKept
<1> QED
  BY <1>4, <1>7, <1>8, QuietCall

\* What a rollback commits.
LEMMA RollbackWrites ==
    ASSUME IInv, NEW a \in Admins, RollbackCommits(a)
    PROVE  /\ ProductsTyped' /\ import' \in [Imports -> ImportRow]
           /\ \A s \in DOMAIN call[a].prices : product'[Lower[s]] # Absent =>
                 \/ product'[Lower[s]].sku # s
                 \/ product'[Lower[s]].price = call[a].prices[s]
           /\ import'[call[a].import].rolledBack
           /\ CountsKept /\ \A j \in Imports : import'[j].cancel = import[j].cancel
<1> USE DEF IInv
<1>1. PICK i \in Imports : i = call[a].import
  BY DEF RollbackCommits, TypeOK
<1>2. PICK prices : prices = call[a].prices
  OBVIOUS
<1>3. PICK U \in SUBSET Skus : prices \in [U -> Prices]
  BY <1>2, Domains DEF CallRow, Partial
<1>4. product' = [n \in Names |->
           IF product[n] # Absent /\ product[n].sku \in U
           THEN [product[n] EXCEPT !.price = prices[product[n].sku]]
           ELSE product[n]]
  BY <1>2, <1>3 DEF RollbackCommits
<1>5. ASSUME NEW n \in Names, product[n] # Absent, product[n].sku \in U
      PROVE  /\ product'[n] \in ProductRow
             /\ product'[n].sku = product[n].sku
             /\ product'[n].price = prices[product[n].sku]
  <2>1. PICK p \in ProductRow : p = product[n]
    BY <1>5 DEF TypeOK
  <2>2. PICK x \in Prices : x = prices[p.sku]
    BY <1>3, <1>5, <2>1
  <2>3. product'[n] = [p EXCEPT !.price = x]
    BY <1>4, <1>5, <2>1, <2>2
  <2> QED
    BY <2>1, <2>2, <2>3 DEF ProductRow
<1>6. ASSUME NEW n \in Names, product[n] = Absent \/ product[n].sku \notin U
      PROVE  product'[n] = product[n]
  BY <1>4, <1>6
<1>7. ProductsTyped'
  <2>1. \A n \in Names : product'[n] \in ProductRow \cup {Absent}
    BY <1>5, <1>6 DEF TypeOK
  <2>2. product' \in [Names -> ProductRow \cup {Absent}]
    BY <1>4, <2>1
  <2> QED
    BY <1>5, <1>6, <2>2 DEF ProductsTyped, TypeOK
<1>8. \A s \in U : product'[Lower[s]] # Absent =>
          product'[Lower[s]].sku # s \/ product'[Lower[s]].price = prices[s]
  BY <1>3, <1>5, <1>6, Domains
<1>9. PICK row : row = [import[i] EXCEPT !.status = "rolled_back", !.rolledBack = TRUE]
  OBVIOUS
<1>10. /\ row \in ImportRow /\ row.status = "rolled_back" /\ row.rolledBack
       /\ row.cancel = import[i].cancel
       /\ row.processed = import[i].processed /\ row.count = import[i].count
  <2>1. PICK old \in ImportRow : old = import[i]
    BY DEF TypeOK
  <2>2. row = [old EXCEPT !.status = "rolled_back", !.rolledBack = TRUE]
    BY <1>9, <2>1
  <2> QED
    BY <2>1, <2>2 DEF ImportRow
<1>11. import' = [import EXCEPT ![i] = row]
  BY <1>1, <1>9 DEF RollbackCommits, TypeOK
<1>12. /\ import' \in [Imports -> ImportRow] /\ import'[i].rolledBack
       /\ CountsKept /\ \A j \in Imports : import'[j].cancel = import[j].cancel
  BY <1>10, <1>11 DEF CountsKept, TypeOK
<1> QED
  BY <1>1, <1>2, <1>3, <1>7, <1>8, <1>12

\* A rollback commits.
LEMMA RollbackCommitsStep ==
    ASSUME IInv, NEW a \in Admins, RollbackCommits(a)
    PROVE  IInv'
<1>1. /\ owner' = Released(a) /\ call' = [call EXCEPT ![a] = NoCall]
      /\ UNCHANGED <<snapshot, work, jobs, lease, starts, edits>>
  BY DEF RollbackCommits, Calls
<1>2. CallGoesOn(a, NoCall)
  BY <1>1, RollbackWrites, NoCallTyped
     DEF IInv, CallGoesOn, CallFits, TypeOK, NoCallType
<1> QED
  BY <1>1, <1>2, RollbackWrites, QuietCall

\* A request ends without a commit.
LEMMA CallFailsStep ==
    ASSUME IInv, NEW a \in Admins, CallFails(a)
    PROVE  IInv'
<1>1. /\ owner' = Released(a) /\ call' = [call EXCEPT ![a] = NoCall]
      /\ lease' = [i \in Imports |-> IF lease[i] = a THEN None ELSE lease[i]]
      /\ UNCHANGED <<product, import, snapshot, work, jobs, starts, edits>>
  BY DEF CallFails, Calls, db
<1>2. CallGoesOn(a, NoCall)
  BY <1>1, NoCallTyped
     DEF IInv, CallGoesOn, CallFits, TypeOK, NoCallType, ProductsTyped
<1>3. CountsKept /\ \A j \in Imports : import'[j].cancel = import[j].cancel
  BY <1>1 DEF CountsKept
<1> QED
  BY <1>1, <1>2, <1>3, QuietCall

----------------------------------------------------------------------------
(* Steps that hold no lock afterwards.                                     *)

\* A cancel waits for the run that holds the row of the import.
LEMMA CancelStep ==
    ASSUME IInv, NEW i \in Imports, Cancel(i)
    PROVE  IInv'
<1> USE DEF IInv
<1>1. PICK row : row = [import[i] EXCEPT !.cancel = TRUE]
  OBVIOUS
<1>2. /\ row \in ImportRow /\ row.status = import[i].status
      /\ row.processed = import[i].processed /\ row.count = import[i].count
  <2>1. PICK old \in ImportRow : old = import[i]
    BY DEF TypeOK
  <2>2. row = [old EXCEPT !.cancel = TRUE]
    BY <1>1, <2>1
  <2> QED
    BY <2>1, <2>2 DEF ImportRow
<1>3. /\ import' = [import EXCEPT ![i] = row] /\ owner[i] = None
      /\ UNCHANGED <<product, snapshot, jobs, work, call, owner, lease, starts, edits>>
  BY <1>1 DEF Cancel, bounds
<1>4. /\ import' \in [Imports -> ImportRow] /\ CountsKept
      /\ \A j \in Imports : j # i => import'[j] = import[j]
  BY <1>2, <1>3 DEF TypeOK, CountsKept
<1>5. TypeOK'
  BY <1>3, <1>4 DEF TypeOK, Rows
<1>6. RunsAlone'
  BY <1>3 DEF RunsAlone
<1>7. ASSUME NEW u \in Workers
      PROVE  RunFits(work[u])' /\ Uncancelled(work[u])'
  <2>1. RunFits(work[u])'
    BY <1>3 DEF RunsFit, RunFits, KeepsLoaded, Rows
  <2>2. work[u].pc \notin {"idle", "claim"} => work[u].import # i /\ work[u].import \in Imports
    BY <1>3, ImportsAssumption DEF RunsAlone, TypeOK
  <2>3. Uncancelled(work[u])'
    BY <1>3, <1>4, <2>2 DEF RunsFit, Uncancelled
  <2> QED
    BY <2>1, <2>3
<1> QED
  BY <1>3, <1>4, <1>5, <1>6, <1>7, CountsStay DEF RunsFit

\* An edit by hand keeps the name of its product.
LEMMA EditStep ==
    ASSUME IInv, NEW n \in Names, EditProduct(n)
    PROVE  IInv'
<1> USE DEF IInv
<1>1. PICK x \in Prices : product' = [product EXCEPT ![n].price = x]
  BY DEF EditProduct
<1>2. product[n] # Absent /\ edits' = edits + 1
      /\ UNCHANGED <<import, snapshot, jobs, work, call, owner, lease, starts>>
  BY DEF EditProduct
<1>3. PICK p \in ProductRow : p = product[n]
  BY <1>2 DEF TypeOK
<1>4. PICK new : new = [p EXCEPT !.price = x]
  OBVIOUS
<1>5. new \in ProductRow /\ new.sku = p.sku
  BY <1>3, <1>4 DEF ProductRow
<1>6. product' = [product EXCEPT ![n] = new]
  BY <1>1, <1>3, <1>4
<1>7. ProductsTyped' /\ edits' \in Nat
  BY <1>2, <1>3, <1>5, <1>6 DEF ProductsTyped, TypeOK
<1>8. TypeOK'
  BY <1>2, <1>7 DEF TypeOK, ProductsTyped, Rows
<1>9. RunsAlone' /\ RunsFit'
  BY <1>2 DEF RunsAlone, RunsFit, RunFits, KeepsLoaded, Uncancelled, Rows
<1>10. CountsKept
  BY <1>2 DEF CountsKept
<1> QED
  BY <1>2, <1>8, <1>9, <1>10, CountsStay

----------------------------------------------------------------------------
(* The invariant.                                                          *)

\* Nothing runs and nothing is counted at first.
LEMMA InitHolds == Init => IInv
<1> SUFFICES ASSUME Init PROVE IInv
  OBVIOUS
<1> USE ImportsAssumption DEF Init
<1>1. /\ \A w \in Workers : work[w] = Resting
      /\ \A a \in Admins : call[a] = NoCall
      /\ \A i \in Imports : import[i] = Uploaded
  OBVIOUS
<1>2. TypeOK
  <2>1. product \in [Names -> ProductRow \cup {Absent}]
        /\ \A n \in Names : product[n] # Absent => Lower[product[n].sku] = n
    OBVIOUS
  <2>2. work \in [Workers -> WorkRow] /\ call \in [Admins -> CallRow]
        /\ import \in [Imports -> ImportRow]
    BY RestingType, NoCallTyped DEF NoCallType
  <2> QED
    BY <1>1, <2>1, <2>2, RestingType, NoCallTyped DEF TypeOK, NoCallType
<1>3. RunsAlone
  BY <1>1, RestingType, NoCallTyped DEF RunsAlone, NoCallType
<1>4. RunsFit
  BY <1>1, RestingType DEF RunsFit, RunFits, Uncancelled
<1>5. RunOnce
  <2>1. \A i \in Imports, w \in Workers : ~Runs(w, i)
    BY <1>1, RestingType DEF Runs
  <2>2. \A i \in Imports : Fresh(import[i])
    BY <1>1 DEF Fresh, Uploaded, Outcomes
  <2> QED
    BY <2>1, <2>2 DEF RunOnce
<1>6. OutcomesAddUp
  BY DEF OutcomesAddUp
<1> QED
  BY <1>2, <1>3, <1>4, <1>5, <1>6 DEF IInv

\* The three ways in which a run commits.
LEMMA ConcludeSteps ==
    ASSUME IInv, NEW w \in Workers, StopsAtFlag(w) \/ Finish(w) \/ RunFails(w)
    PROVE  /\ IInv' /\ work[w].pc # "idle"
           /\ \E status \in Final :
                 /\ Conclude(w, status)
                 /\ status = "cancelled" => StopsAtFlag(w)
<1>1. CASE StopsAtFlag(w)
  <2>1. work[w].pc # "idle" /\ Conclude(w, "cancelled") /\ "cancelled" \in Final
    BY <1>1 DEF StopsAtFlag, Final
  <2>2. IInv'
    BY <2>1, ConcludeStep
  <2> QED
    BY <1>1, <2>1, <2>2
<1>2. CASE RunFails(w)
  <2>1. work[w].pc # "idle" /\ Conclude(w, "failed") /\ "failed" \in Final
    BY <1>2 DEF RunFails, Final
  <2>2. IInv'
    BY <2>1, ConcludeStep
  <2> QED
    BY <2>1, <2>2
<1>3. CASE Finish(w)
  <2>1. PICK status \in {"completed", "completed_with_errors"} :
          /\ Conclude(w, status)
          /\ status = "completed" <=> ~(work[w].row.count["failed"] > 0)
    BY <1>3 DEF Finish
  <2>2. /\ work[w].pc # "idle" /\ work[w].offset = Len(Rows(work[w]))
        /\ status \in Final
    BY <1>3 DEF Finish, Final
  <2>3. work[w].row.count["failed"] \in Nat
    BY <2>2, BusyRun DEF WorkRow, ImportRow, Outcomes
  <2>4. IInv'
    BY <2>1, <2>2, <2>3, ConcludeStep
  <2> QED
    BY <2>1, <2>2, <2>4
<1> QED
  BY <1>1, <1>2, <1>3

\* A victim of the deadlock detector changes nothing that is committed.
LEMMA VictimSteps ==
    ASSUME IInv, NEW t \in Workers \cup Admins, DeadlockVictim(t)
    PROVE  IInv' /\ UNCHANGED <<product, import>>
<1>1. CASE t \in Workers
  BY <1>1, AbortStep DEF DeadlockVictim, Abort, db
<1>2. CASE t \notin Workers
  BY <1>2, CallFailsStep DEF DeadlockVictim, CallFails, db
<1> QED
  BY <1>1, <1>2

\* Every step keeps the invariant.
LEMMA NextHolds == IInv /\ [Next]_vars => IInv'
<1> SUFFICES ASSUME IInv, [Next]_vars PROVE IInv'
  OBVIOUS
<1>1. ASSUME NEW w \in Workers, NEW i \in Imports, PickUp(w, i)
      PROVE  IInv'
  BY <1>1, PickUpStep
<1>2. ASSUME NEW w \in Workers, Run(w)
      PROVE  IInv'
  <2>1. CASE Claim(w)
    BY <2>1, ClaimStep
  <2>2. CASE TakeSnapshot(w)
    BY <2>2, SnapshotStep
  <2>3. CASE StopsAtFlag(w) \/ Finish(w)
    BY <2>3, ConcludeSteps
  <2>4. CASE NextChunk(w)
    BY <2>4, ChunkStep
  <2>5. CASE PassRow(w)
    BY <2>5, PassStep
  <2>6. CASE UpdateProduct(w)
    BY <2>6, WriteStep DEF UpdateProduct, Updates, Written, Outcomes
  <2>7. CASE CreateProduct(w)
    BY <2>7, WriteStep DEF CreateProduct, Creates, Written, Outcomes
  <2>8. CASE RowRefused(w)
    BY <2>8, AbortStep DEF RowRefused
  <2> QED
    BY <1>2, <2>1, <2>2, <2>3, <2>4, <2>5, <2>6, <2>7, <2>8 DEF Run
<1>3. ASSUME NEW w \in Workers, RunFails(w)
      PROVE  IInv'
  BY <1>3, ConcludeSteps
<1>4. ASSUME NEW w \in Workers, WorkerDies(w)
      PROVE  IInv'
  BY <1>4, AbortStep DEF WorkerDies
<1>5. ASSUME NEW a \in Admins, NEW i \in Imports, Start(a, i) \/ Rollback(a, i)
      PROVE  IInv'
  BY <1>5, StartStep, RollbackStep
<1>6. ASSUME NEW a \in Admins, Answer(a) \/ CallFails(a)
      PROVE  IInv'
  BY <1>6, StartCommitsStep, RestoreStep, SaveRollbackStep, RollbackCommitsStep,
     CallFailsStep DEF Answer
<1>7. ASSUME NEW t \in Workers \cup Admins, DeadlockVictim(t)
      PROVE  IInv'
  BY <1>7, VictimSteps
<1>8. ASSUME NEW i \in Imports, Cancel(i)
      PROVE  IInv'
  BY <1>8, CancelStep
<1>9. ASSUME NEW n \in Names, EditProduct(n)
      PROVE  IInv'
  BY <1>9, EditStep
<1>10. CASE UNCHANGED vars
  <2>1. UNCHANGED <<product, import, snapshot, jobs, work, call, owner, lease, starts,
                    edits>>
    BY <1>10 DEF vars
  <2>2. TypeOK' /\ RunsAlone'
    BY <2>1 DEF IInv, TypeOK, RunsAlone, Rows
  <2>3. RunsFit'
    BY <2>1 DEF IInv, RunsFit, RunFits, KeepsLoaded, Uncancelled, Rows
  <2>4. CountsKept
    BY <2>1 DEF CountsKept
  <2> QED
    BY <2>1, <2>2, <2>3, <2>4, CountsStay DEF IInv
<1> QED
  BY <1>1, <1>2, <1>3, <1>4, <1>5, <1>6, <1>7, <1>8, <1>9, <1>10 DEF Next

\* The inductive invariant holds, for any number of imports, workers and requests.
THEOREM Invariance == Spec => []IInv
BY InitHolds, NextHolds, PTL DEF Spec

\* Every variable keeps its type, a product stands under its own name, and nobody who
\* is idle holds a lock.
THEOREM TypeCorrect == Spec => []TypeOK
<1>1. IInv => TypeOK
  BY DEF IInv
<1> QED
  BY <1>1, Invariance, PTL

\* A run has its import and the products it has written to itself until it ends.
THEOREM RunsHeld == Spec => []RunsAlone
<1>1. IInv => RunsAlone
  BY DEF IInv
<1> QED
  BY <1>1, Invariance, PTL

\* An import that was started once has counted every row of its file once.
THEOREM OutcomesCounted == Spec => []OutcomesAddUp
<1>1. IInv => OutcomesAddUp
  BY DEF IInv
<1> QED
  BY <1>1, Invariance, PTL

----------------------------------------------------------------------------
(* What a step may change.                                                 *)

\* Only the end of a run, the end of a rollback and an edit change products.
LEMMA ProductSteps ==
    ASSUME IInv, [Next]_vars
    PROVE  \/ product' = product
           \/ \E w \in Workers : StopsAtFlag(w) \/ Finish(w) \/ RunFails(w)
           \/ \E a \in Admins : RollbackCommits(a)
           \/ \E n \in Names : EditProduct(n)
<1>1. ASSUME NEW w \in Workers, Run(w) \/ WorkerDies(w)
      PROVE  product' = product \/ StopsAtFlag(w) \/ Finish(w)
  BY <1>1 DEF Run, Claim, TakeSnapshot, NextChunk, PassRow, UpdateProduct,
     CreateProduct, RowRefused, WriteRow, WorkerDies, Works, Abort, db
<1>2. ASSUME NEW a \in Admins, Answer(a) \/ CallFails(a)
      PROVE  product' = product \/ RollbackCommits(a)
  BY <1>2 DEF Answer, StartCommits, RestoreProduct, SaveRollback, CallFails, db
<1>3. \A t \in Workers \cup Admins : DeadlockVictim(t) => product' = product
  BY VictimSteps
<1>4. \A w \in Workers, i \in Imports : PickUp(w, i) => product' = product
  BY DEF PickUp, db
<1>5. \A a \in Admins, i \in Imports :
          Start(a, i) \/ Rollback(a, i) \/ Cancel(i) => product' = product
  BY DEF Start, Rollback, Cancel, db
<1>6. \A i \in Imports : Cancel(i) => product' = product
  BY DEF Cancel
<1> QED
  BY <1>1, <1>2, <1>3, <1>4, <1>5, <1>6 DEF Next, vars

\* What an import or a rollback writes is seen all at once, with its outcome.
THEOREM VisibleTogether == Spec => VisibleWithOutcome
<1>1. ASSUME IInv, [Next]_vars, product' # product, edits' = edits
      PROVE  \/ \E w \in Workers : LET q == work[w] IN
                /\ q.pc # "idle" /\ work'[w].pc = "idle"
                /\ import'[q.import].status \in Final
                /\ \A n \in DOMAIN q.writes : product'[n] = q.writes[n]
             \/ \E a \in Admins : LET c == call[a] IN
                /\ c.pc = "restored" /\ import'[c.import].rolledBack
                /\ \A s \in DOMAIN c.prices : product'[Lower[s]] # Absent =>
                      \/ product'[Lower[s]].sku # s
                      \/ product'[Lower[s]].price = c.prices[s]
  <2>1. ASSUME NEW w \in Workers, StopsAtFlag(w) \/ Finish(w) \/ RunFails(w)
        PROVE  LET q == work[w] IN
               /\ q.pc # "idle" /\ work'[w].pc = "idle"
               /\ import'[q.import].status \in Final
               /\ \A n \in DOMAIN q.writes : product'[n] = q.writes[n]
    <3>1. work[w].pc # "idle"
      BY <1>1, <2>1, ConcludeSteps
    <3>2. PICK status \in Final : Conclude(w, status)
      BY <1>1, <2>1, ConcludeSteps
    <3>3. work'[w].pc = "idle"
      BY <1>1, <3>2, RestingType DEF Conclude, WorkerEnds, IInv, TypeOK
    <3> QED
      BY <1>1, <3>1, <3>2, <3>3, ConcludeWrites
  <2>2. ASSUME NEW a \in Admins, RollbackCommits(a)
        PROVE  LET c == call[a] IN
               /\ c.pc = "restored" /\ import'[c.import].rolledBack
               /\ \A s \in DOMAIN c.prices : product'[Lower[s]] # Absent =>
                     \/ product'[Lower[s]].sku # s
                     \/ product'[Lower[s]].price = c.prices[s]
    BY <1>1, <2>2, RollbackWrites DEF RollbackCommits
  <2>3. ASSUME NEW n \in Names, EditProduct(n)
        PROVE  FALSE
    <3>1. edits \in Nat /\ edits' = edits + 1
      BY <1>1, <2>3 DEF EditProduct, IInv, TypeOK
    <3> QED
      BY <1>1, <3>1
  <2> QED
    BY <1>1, <2>1, <2>2, <2>3, ProductSteps
<1> QED
  BY <1>1, Invariance, PTL DEF Spec, VisibleWithOutcome

\* An import is cancelled before it has written anything, although the runner asks for
\* the flag before each chunk (import_runner.ts:93-101, 475-480).
THEOREM CancelledFirst == Spec => CancelsBeforeWriting
<1>1. ASSUME IInv, [Next]_vars, NEW i \in Imports,
             import'[i].status = "cancelled", import[i].status # "cancelled"
      PROVE  product' = product
  <2>1. ASSUME NEW w \in Workers, StopsAtFlag(w)
        PROVE  product' = product
    <3>1. /\ work[w].pc = "chunk" /\ import[work[w].import].cancel
          /\ Conclude(w, "cancelled") /\ "cancelled" \in Final
      BY <2>1 DEF StopsAtFlag, Final
    <3>2. DOMAIN work[w].writes = {}
      BY <1>1, <3>1, BusyRun DEF Uncancelled, RunFits
    <3> QED
      BY <1>1, <3>1, <3>2, ConcludeWrites
  <2>2. ASSUME NEW w \in Workers, Finish(w) \/ RunFails(w), ~StopsAtFlag(w)
        PROVE  FALSE
    <3>1. work[w].pc # "idle"
      BY <1>1, <2>2, ConcludeSteps
    <3>2. PICK status \in Final : Conclude(w, status) /\ status # "cancelled"
      BY <1>1, <2>2, ConcludeSteps
    <3>3. /\ import'[work[w].import].status = status
          /\ \A j \in Imports : j # work[w].import => import'[j] = import[j]
      BY <1>1, <3>1, <3>2, ConcludeWrites
    <3> QED
      BY <1>1, <3>2, <3>3
  <2>3. ASSUME NEW a \in Admins, RollbackCommits(a)
        PROVE  FALSE
    BY <1>1, <2>3, RollbackWrites DEF CountsKept
  <2>4. ASSUME NEW n \in Names, EditProduct(n)
        PROVE  FALSE
    BY <1>1, <2>4 DEF EditProduct
  <2> QED
    BY <1>1, <2>1, <2>2, <2>3, <2>4, ProductSteps
<1>2. IInv /\ [Next]_vars =>
        \A i \in Imports :
            import'[i].status = "cancelled" /\ import[i].status # "cancelled" =>
                product' = product
  BY <1>1
<1> QED
  BY <1>2, Invariance, PTL DEF Spec, CancelsBeforeWriting

=============================================================================
