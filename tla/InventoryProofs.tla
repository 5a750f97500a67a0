-------------------------- MODULE InventoryProofs --------------------------
(***************************************************************************)
(* Proofs about Inventory, for any keys, requests, imports and records.    *)
(***************************************************************************)
EXTENDS Inventory, TLAPS

(* The tables, with what makes versions and writes right.                  *)
TableRight ==
    /\ DOMAIN table = Keys /\ \A k \in Keys : table[k] \in Rows(k) \union {Absent}
    /\ DOMAIN history = Keys /\ \A k \in Keys : history[k] \subseteq Rows(k)
    /\ DOMAIN last = Keys /\ \A k \in Keys : last[k] \subseteq Values(k)
    /\ stale \subseteq Keys
    /\ \A k \in Keys : Exists(table[k]) => table[k] \in history[k]
    /\ \A k \in Keys \ stale : \A row \in history[k] : row.version <= table[k].version
    /\ VersionsIdentify /\ WritesKept

(* Nothing deletes a row: what a request has read still exists.            *)
HandlerRight(h) ==
    handler[h].busy => \E k \in Keys :
        /\ handler[h] \in
              [busy : {TRUE}, key : {k}, read : Rows(k) \union {Absent}, values : Requests(k)]
        /\ Exists(handler[h].read) => Exists(table[k])

HandlersRight == DOMAIN handler = Handlers /\ \A h \in Handlers : HandlerRight(h)

Session ==
    [stage : {"idle", "next", "product", "position"}, todo : SUBSET Records,
     seen : SUBSET (References \X Skus \X Locations), record : SUBSET Records,
     product : RowsOf(ProductValues) \union {Absent},
     draft : SUBSET Snapshot, read : RowsOf(Amounts) \union {Absent},
     made : SUBSET Snapshot]

(* What an import has found and made was committed when it found it, and   *)
(* what it made it has written.  A position it has read is the one it      *)
(* holds, if it holds one.                                                 *)
WorkerRight(w) ==
    /\ worker[w].stage = "product" => \A r \in worker[w].record :
          worker[w].product \in history[r.sku] /\ Usable(worker[w].product)
    /\ \A s \in worker[w].draft :
          /\ Sourced(s)
          /\ Exists(worker[w].read) => Exists(Own(w, Position(s)))
          /\ Position(s) \in DOMAIN held[w] => worker[w].read = held[w][Position(s)].row
    /\ \A s \in worker[w].made : Sourced(s) /\ Position(s) \in DOMAIN held[w]

WorkersRight == worker \in [Workers -> Session] /\ \A w \in Workers : WorkerRight(w)

(* Held rows are newer than those in the table, unless they are stale, and  *)
(* each column is as it was asked for or as it is in the table.            *)
Good(writes) ==
    \A k \in DOMAIN writes :
        /\ k \in Keys
        /\ writes[k].row \in Rows(k) /\ writes[k].asked \in Values(k)
        /\ writes[k].stale \in BOOLEAN
        /\ ~writes[k].stale =>
              writes[k].row.version > table[k].version /\ writes[k].row.values = writes[k].asked
        /\ Between(writes[k].row, writes[k].asked, table[k])

HeldRight ==
    /\ DOMAIN held = Workers
    /\ \A w \in Workers :
          /\ DOMAIN held[w] \subseteq Positions /\ Good(held[w])
          /\ \A k \in DOMAIN held[w] : held[w][k] \in Held
    /\ \A w, v \in Workers : w # v => DOMAIN held[w] \intersect DOMAIN held[v] = {}

SnapshotsRight == snapshots \subseteq Snapshot /\ SnapshotProvenance

IInv == TableRight /\ HandlersRight /\ WorkersRight /\ HeldRight /\ SnapshotsRight

(* What every step does to the tables.                                     *)
Grows ==
    \A k \in Keys : history[k] \subseteq history'[k] /\ (Exists(table[k]) => Exists(table'[k]))

---------------------------------------------------------------------------
LEMMA RowTypes ==
    /\ \A k \in Skus : k \in Keys /\ Rows(k) = RowsOf(ProductValues)
    /\ \A k \in Locations : k \in Keys /\ Rows(k) = RowsOf(WarehouseValues)
    /\ \A k \in Positions : k \in Keys /\ Rows(k) = RowsOf(Amounts) /\ Values(k) = Amounts
    /\ \A k \in Keys : Requests(k) \subseteq Values(k)
  BY KeysAssumption, RequestsAssumption DEF Keys, Mappings, Rows, Values, Requests

LEMMA RowFacts ==
    /\ ~Exists(Absent) /\ Absent.version = 0
    /\ \A k : \A row \in Rows(k) :
          Exists(row) /\ row.version \in Nat \ {0} /\ row.values \in Values(k)
  BY DEF Exists, Absent, Rows, RowsOf

LEMMA UpdateTyped ==
    ASSUME NEW k, NEW current \in Values(k), NEW read \in Values(k), NEW values \in Values(k)
    PROVE  /\ Update(current, read, values) \in Values(k)
           /\ current = read => Update(current, read, values) = values
           /\ \A c \in DOMAIN values : Update(current, read, values)[c] \in {values[c], current[c]}
<1>1. CASE Values(k) = ProductValues
  BY <1>1 DEF Update, ProductValues
<1>2. CASE Values(k) = WarehouseValues
  BY <1>2 DEF Update, WarehouseValues
<1>3. CASE Values(k) = Amounts
  BY <1>3 DEF Update, Amounts
<1>4. \A c \in DOMAIN values : Update(current, read, values)[c] \in {values[c], current[c]}
  BY DEF Update
<1> QED
  BY <1>1, <1>2, <1>3, <1>4 DEF Values

(* What a write puts into a row.                                           *)
LEMMA WriteGood ==
    ASSUME NEW k, NEW read \in Rows(k) \union {Absent}, NEW current \in Rows(k) \union {Absent},
           NEW values \in Values(k), MayWrite(read, current), Exists(read) => Exists(current)
    PROVE  /\ Write(read, current, values) \in Rows(k)
           /\ read = current => Write(read, current, values) =
                 [values |-> values, version |-> current.version + 1]
           /\ Between(Write(read, current, values), values, current)
<1>1. CASE Exists(read)
  <2>1. /\ read \in Rows(k) /\ current \in Rows(k)
        /\ read.version \in Nat /\ read.values \in Values(k) /\ current.values \in Values(k)
    BY <1>1, RowFacts
  <2>2. PICK u : u = Update(current.values, read.values, values)
    OBVIOUS
  <2>3. /\ u \in Values(k) /\ (current.values = read.values => u = values)
        /\ \A c \in DOMAIN values : u[c] \in {values[c], current.values[c]}
    BY <2>1, <2>2, UpdateTyped
  <2>4. Write(read, current, values) = [values |-> u, version |-> read.version + 1]
    BY <1>1, <2>2 DEF Write
  <2>5. Between(Write(read, current, values), values, current)
    BY <2>3, <2>4 DEF Between
  <2> QED
    BY <2>1, <2>3, <2>4, <2>5 DEF Rows, RowsOf
<1>2. CASE ~Exists(read)
  <2>1. Write(read, current, values) = [values |-> values, version |-> 1]
    BY <1>2 DEF Write
  <2>2. read = current => current.version = 0
    BY <1>2, RowFacts
  <2>3. Between(Write(read, current, values), values, current)
    BY <2>1 DEF Between
  <2> QED
    BY <2>1, <2>2, <2>3 DEF Rows, RowsOf
<1> QED
  BY <1>1, <1>2

(* A commit of good writes keeps the tables right.                         *)
LEMMA StoreKeeps ==
    ASSUME TableRight, NEW writes, Good(writes), Store(writes)
    PROVE  TableRight' /\ Grows
<1>1. /\ DOMAIN table' = Keys /\ DOMAIN history' = Keys /\ DOMAIN last' = Keys
      /\ DOMAIN writes \subseteq Keys
  BY DEF Store, Good
<1>2. ASSUME NEW k \in Keys, k \notin DOMAIN writes
      PROVE  /\ table'[k] = table[k] /\ history'[k] = history[k] /\ last'[k] = last[k]
             /\ k \in stale' => k \in stale
  BY <1>2 DEF Store
<1>3. ASSUME NEW k \in DOMAIN writes
      PROVE  /\ table'[k] = writes[k].row /\ history'[k] = history[k] \union {writes[k].row}
             /\ last'[k] = {writes[k].asked}
             /\ k \notin stale' => k \notin stale /\ ~writes[k].stale
  BY <1>1 DEF Store
<1>4. stale \subseteq stale' /\ stale' \subseteq Keys
  BY <1>1 DEF Store, TableRight
<1>5. ASSUME NEW k \in Keys
      PROVE  /\ table'[k] \in Rows(k) \union {Absent} /\ history'[k] \subseteq Rows(k)
             /\ last'[k] \subseteq Values(k)
             /\ Exists(table'[k]) => table'[k] \in history'[k]
             /\ history[k] \subseteq history'[k] /\ (Exists(table[k]) => Exists(table'[k]))
  <2>1. CASE k \notin DOMAIN writes
    BY <1>2, <2>1 DEF TableRight
  <2>2. CASE k \in DOMAIN writes
    BY <1>3, <2>2, RowFacts DEF TableRight, Good
  <2> QED
    BY <2>1, <2>2
<1>6. ASSUME NEW k \in Keys \ stale'
      PROVE  /\ \A row \in history'[k] : row.version <= table'[k].version
             /\ \A row, other \in history'[k] : row.version = other.version => row = other
             /\ Exists(table'[k]) => table'[k].values \in last'[k]
  <2>1. CASE k \notin DOMAIN writes
    BY <1>2, <1>4, <2>1 DEF TableRight, VersionsIdentify, WritesKept
  <2>2. CASE k \in DOMAIN writes
    <3>1. k \in Keys \ stale /\ ~writes[k].stale
      BY <1>3, <1>6, <2>2
    <3>2. /\ writes[k].row.version > table[k].version
          /\ writes[k].row.values = writes[k].asked
          /\ writes[k].row.version \in Nat
      BY <2>2, <3>1, RowFacts DEF Good
    <3>3. /\ table[k].version \in Nat
          /\ \A row \in history[k] : row.version \in Nat /\ row.version <= table[k].version
      BY <3>1, RowFacts DEF TableRight
    <3>4. \A row, other \in history[k] : row.version = other.version => row = other
      BY <3>1 DEF TableRight, VersionsIdentify
    <3>5. \A row \in history[k] : row.version < writes[k].row.version
      BY <3>2, <3>3
    <3> QED
      BY <1>3, <2>2, <3>2, <3>3, <3>4, <3>5
  <2> QED
    BY <2>1, <2>2
<1> QED
  BY <1>1, <1>4, <1>5, <1>6 DEF TableRight, Grows, VersionsIdentify, WritesKept

---------------------------------------------------------------------------
(* What a step keeps of the parts whose state it leaves alone.             *)
LEMMA Quiet ==
    ASSUME TableRight, UNCHANGED <<table, history, last, stale>>
    PROVE  TableRight' /\ Grows
<1>1. TableRight'
  BY DEF TableRight, VersionsIdentify, WritesKept, Exists
<1>2. Grows
  BY DEF Grows, Exists
<1> QED
  BY <1>1, <1>2

LEMMA SnapshotFacts ==
    ASSUME NEW s \in Snapshot
    PROVE  /\ s.record.sku \in Keys /\ s.record.location \in Keys
           /\ Position(s) \in Positions /\ Position(s) \in Keys
<1>1. s.record \in Record /\ s.warehouse \in Warehouses /\ s.product \in Products
  BY RecordsAssumption DEF Snapshot
<1>2. s.record.sku \in Skus /\ s.record.location \in Locations
  BY <1>1 DEF Record
<1> QED
  BY <1>1, <1>2 DEF Keys, Mappings, Positions, Position

LEMMA SourcedKeeps ==
    ASSUME Grows, NEW s \in Snapshot, Sourced(s)
    PROVE  Sourced(s)'
<1>1. /\ history[s.record.sku] \subseteq history'[s.record.sku]
      /\ history[s.record.location] \subseteq history'[s.record.location]
  BY SnapshotFacts DEF Grows
<1> QED
  BY <1>1 DEF Sourced

LEMMA HandlersKeep ==
    ASSUME HandlersRight, Grows, DOMAIN handler' = Handlers,
           \A h \in Handlers : handler'[h] = handler[h] \/ ~handler'[h].busy
    PROVE  HandlersRight'
<1>1. ASSUME NEW h \in Handlers, handler'[h].busy
      PROVE  HandlerRight(h)'
  <2>1. handler'[h] = handler[h] /\ HandlerRight(h) /\ handler[h].busy
    BY <1>1 DEF HandlersRight
  <2>2. PICK k \in Keys :
          /\ handler[h] \in
                [busy : {TRUE}, key : {k}, read : Rows(k) \union {Absent}, values : Requests(k)]
          /\ Exists(handler[h].read) => Exists(table[k])
    BY <2>1 DEF HandlerRight
  <2>3. Exists(table[k]) => Exists(table'[k])
    BY DEF Grows
  <2>4. Exists(handler'[h].read) => Exists(table'[k])
    BY <2>1, <2>2, <2>3
  <2> QED
    BY <2>1, <2>2, <2>4 DEF HandlerRight, Exists
<1>2. \A h \in Handlers : HandlerRight(h)'
  BY <1>1 DEF HandlerRight
<1> QED
  BY <1>2 DEF HandlersRight

LEMMA WorkerKeeps ==
    ASSUME Grows, NEW w \in Workers, worker[w] \in Session, WorkerRight(w),
           worker'[w] = worker[w], held'[w] = held[w]
    PROVE  WorkerRight(w)'
<1>1. /\ \A s \in worker[w].draft : s \in Snapshot
      /\ \A s \in worker[w].made : s \in Snapshot
      /\ worker[w].record \subseteq Records
  BY DEF Session
<1>2. worker'[w].stage = "product" => \A r \in worker'[w].record :
          worker'[w].product \in history'[r.sku] /\ Usable(worker'[w].product)
  <2>1. \A r \in Records : history[r.sku] \subseteq history'[r.sku]
    BY RecordsAssumption, RowTypes DEF Grows, Record
  <2> QED
    BY <1>1, <2>1 DEF WorkerRight
<1>3. ASSUME NEW s \in worker[w].draft
      PROVE  /\ Sourced(s)'
             /\ Exists(worker'[w].read) => Exists(Own(w, Position(s))')
             /\ Position(s) \in DOMAIN held'[w] => worker'[w].read = held'[w][Position(s)].row
  <2>1. Sourced(s)'
    BY <1>1, <1>3, SourcedKeeps DEF WorkerRight
  <2>2. Position(s) \in Keys
    BY <1>1, <1>3, SnapshotFacts
  <2>3. Exists(Own(w, Position(s))) => Exists(Own(w, Position(s))')
    BY <2>2 DEF Own, Grows, Exists
  <2> QED
    BY <1>3, <2>1, <2>3 DEF WorkerRight
<1>4. ASSUME NEW s \in worker[w].made
      PROVE  Sourced(s)' /\ Position(s) \in DOMAIN held'[w]
  BY <1>1, <1>4, SourcedKeeps DEF WorkerRight
<1> QED
  BY <1>2, <1>3, <1>4 DEF WorkerRight, Usable, Exists, Position

LEMMA WorkersKeep ==
    ASSUME WorkersRight, Grows, UNCHANGED <<worker, held>>
    PROVE  WorkersRight'
BY WorkerKeeps DEF WorkersRight

LEMMA HeldKeeps ==
    ASSUME HeldRight, held' = held,
           \A w \in Workers : \A k \in DOMAIN held[w] : table'[k] = table[k]
    PROVE  HeldRight'
<1>1. \A w \in Workers : Good(held[w])'
  BY DEF HeldRight, Good, Between
<1> QED
  BY <1>1 DEF HeldRight

LEMMA SnapshotsKeep ==
    ASSUME SnapshotsRight, Grows, snapshots' = snapshots
    PROVE  SnapshotsRight'
<1>1. ASSUME NEW s \in snapshots
      PROVE  Sourced(s)' /\ Exists(table'[Position(s)])
  <2>1. s \in Snapshot /\ Sourced(s) /\ Exists(table[Position(s)])
    BY <1>1 DEF SnapshotsRight, SnapshotProvenance
  <2>2. Position(s) \in Keys
    BY <2>1, SnapshotFacts
  <2> QED
    BY <2>1, <2>2, SourcedKeeps DEF Grows
<1> QED
  BY <1>1 DEF SnapshotsRight, SnapshotProvenance, Position

---------------------------------------------------------------------------
LEMMA IdleFacts ==
    /\ IdleWorker \in Session /\ IdleWorker.stage = "idle" /\ IdleWorker.made = {}
    /\ IdleWorker.draft = {} /\ DOMAIN NothingHeld = {} /\ ~IdleHandler.busy
  BY DEF IdleWorker, Session, NothingHeld, IdleHandler

LEMMA InitHolds == Init => IInv
<1> SUFFICES ASSUME Init PROVE IInv
  OBVIOUS
<1>1. TableRight
  BY RowFacts DEF Init, TableRight, VersionsIdentify, WritesKept
<1>2. HandlersRight
  BY IdleFacts DEF Init, HandlersRight, HandlerRight
<1>3. WorkersRight
  BY IdleFacts DEF Init, WorkersRight, WorkerRight
<1>4. HeldRight
  BY IdleFacts DEF Init, HeldRight, Good
<1>5. SnapshotsRight
  BY DEF Init, SnapshotsRight, SnapshotProvenance
<1> QED
  BY <1>1, <1>2, <1>3, <1>4, <1>5 DEF IInv

(* A step that changes neither the tables nor the imports.                 *)
LEMMA HandlerOnly ==
    ASSUME IInv, UNCHANGED <<table, snapshots, worker, held, history, last, stale>>,
           HandlersRight'
    PROVE  IInv'
<1>1. TableRight' /\ Grows
  BY Quiet DEF IInv
<1>2. WorkersRight' /\ HeldRight' /\ SnapshotsRight'
  BY <1>1, WorkersKeep, HeldKeeps, SnapshotsKeep DEF IInv
<1> QED
  BY <1>1, <1>2 DEF IInv

LEMMA ReadKeeps ==
    ASSUME IInv, NEW h \in Handlers, NEW k \in Keys, NEW values \in Requests(k),
           Read(h, k, values)
    PROVE  IInv'
<1>1. HandlersRight /\ table[k] \in Rows(k) \union {Absent} /\ DOMAIN handler = Handlers
  BY DEF IInv, TableRight, HandlersRight
<1>2. UNCHANGED <<table, snapshots, worker, held, history, last, stale>>
  BY DEF Read
<1>3. HandlerRight(h)'
  BY <1>1, <1>2 DEF Read, HandlerRight, Exists
<1>4. ASSUME NEW i \in Handlers, i # h
      PROVE  HandlerRight(i)'
  BY <1>1, <1>2, <1>4 DEF Read, HandlersRight, HandlerRight, Exists
<1>5. HandlersRight'
  BY <1>1, <1>3, <1>4 DEF Read, HandlersRight
<1> QED
  BY <1>2, <1>5, HandlerOnly

LEMMA HandlerFacts ==
    ASSUME HandlersRight, NEW h \in Handlers, handler[h].busy,
           NEW k \in {handler[h].key}, NEW read \in {handler[h].read},
           NEW values \in {handler[h].values}
    PROVE  /\ k \in Keys /\ read \in Rows(k) \union {Absent} /\ values \in Values(k)
           /\ Exists(read) => Exists(table[k])
<1>1. PICK i \in Keys :
        /\ handler[h] \in
              [busy : {TRUE}, key : {i}, read : Rows(i) \union {Absent}, values : Requests(i)]
        /\ Exists(handler[h].read) => Exists(table[i])
  BY DEF HandlersRight, HandlerRight
<1>2. k = i /\ read \in Rows(i) \union {Absent} /\ values \in Requests(i)
  BY <1>1
<1> QED
  BY <1>1, <1>2, RowTypes

(* A request that ends.                                                    *)
LEMMA HandlerEnds ==
    ASSUME HandlersRight, Grows, NEW h \in Handlers,
           handler' = [handler EXCEPT ![h] = IdleHandler]
    PROVE  HandlersRight'
<1>1. DOMAIN handler' = Handlers
  BY DEF HandlersRight
<1>2. \A i \in Handlers : handler'[i] = handler[i] \/ ~handler'[i].busy
  BY IdleFacts DEF HandlersRight
<1> QED
  BY <1>1, <1>2, HandlersKeep

(* An upsert that repeats what it read writes nothing.                     *)
LEMMA UnchangedFacts ==
    ASSUME IInv, NEW h \in Handlers, CommitUnchanged(h)
    PROVE  \E k \in Keys : \E read, values :
              /\ Unchanged(k, read, values) /\ values \in Values(k)
              /\ Exists(table[k])
              /\ last' = [last EXCEPT ![k] = {values}]
              /\ stale' = stale \union {i \in {k} : read # table[k]}
<1>1. PICK k \in {handler[h].key} : \E read \in {handler[h].read} :
        \E values \in {handler[h].values} :
          /\ Unchanged(k, read, values)
          /\ last' = [last EXCEPT ![k] = {values}]
          /\ stale' = stale \union {i \in {k} : read # table[k]}
  BY DEF CommitUnchanged
<1>2. PICK read \in {handler[h].read} : \E values \in {handler[h].values} :
          /\ Unchanged(k, read, values)
          /\ last' = [last EXCEPT ![k] = {values}]
          /\ stale' = stale \union {i \in {k} : read # table[k]}
  BY <1>1
<1>3. PICK values \in {handler[h].values} :
          /\ Unchanged(k, read, values)
          /\ last' = [last EXCEPT ![k] = {values}]
          /\ stale' = stale \union {i \in {k} : read # table[k]}
  BY <1>2
<1>4. /\ k \in Keys /\ values \in Values(k)
      /\ Exists(read) => Exists(table[k])
  BY HandlerFacts DEF CommitUnchanged, IInv
<1> QED
  BY <1>3, <1>4 DEF Unchanged

LEMMA CommitUnchangedKeeps ==
    ASSUME IInv, NEW h \in Handlers, CommitUnchanged(h)
    PROVE  IInv'
<1>1. PICK k \in Keys : \E read, values :
          /\ Unchanged(k, read, values) /\ values \in Values(k)
          /\ Exists(table[k])
          /\ last' = [last EXCEPT ![k] = {values}]
          /\ stale' = stale \union {i \in {k} : read # table[k]}
  BY UnchangedFacts
<1>2. PICK read, values :
          /\ Unchanged(k, read, values) /\ values \in Values(k)
          /\ Exists(table[k])
          /\ last' = [last EXCEPT ![k] = {values}]
          /\ stale' = stale \union {i \in {k} : read # table[k]}
  BY <1>1
<1>3. UNCHANGED <<table, snapshots, worker, held, history>>
  BY DEF CommitUnchanged
<1>4. Grows
  BY <1>3 DEF Grows, Exists
<1>5. TableRight'
  <2>1. TableRight
    BY DEF IInv
  <2>2. DOMAIN last' = Keys /\ \A i \in Keys : last'[i] \subseteq Values(i)
    BY <1>2, <1>3, <2>1 DEF TableRight
  <2>3. stale' \subseteq Keys /\ stale \subseteq stale'
    BY <1>2, <1>3, <2>1 DEF TableRight
  <2>4. ASSUME NEW i \in Keys \ stale', Exists(table[i])
        PROVE  table[i].values \in last'[i]
    <3>1. CASE i = k
      BY <1>2, <1>3, <2>1, <2>4, <3>1 DEF Unchanged, TableRight
    <3>2. CASE i # k
      BY <1>2, <2>1, <2>3, <2>4, <3>2 DEF TableRight, WritesKept
    <3> QED
      BY <3>1, <3>2
  <2>5. VersionsIdentify' /\ WritesKept'
    BY <1>3, <2>1, <2>3, <2>4 DEF TableRight, VersionsIdentify, WritesKept, Exists
  <2> QED
    BY <1>3, <2>1, <2>2, <2>3, <2>5 DEF TableRight, Exists
<1>6. HandlersRight'
  BY <1>4, HandlerEnds DEF CommitUnchanged, IInv
<1>7. WorkersRight' /\ HeldRight' /\ SnapshotsRight'
  BY <1>3, <1>4, WorkersKeep, HeldKeeps, SnapshotsKeep DEF IInv
<1> QED
  BY <1>5, <1>6, <1>7 DEF IInv

(* A request commits one row, which no import holds: a newer one with what *)
(* it was asked for, unless it is stale.                                   *)
LEMMA CommitGood ==
    ASSUME IInv, NEW h \in Handlers, Commit(h)
    PROVE  \E k \in Keys : \E writes :
              /\ Good(writes) /\ DOMAIN writes = {k} /\ Store(writes)
              /\ \A w \in Workers : k \notin DOMAIN held[w]
              /\ k = handler[h].key /\ (writes[k].stale => handler[h].read # table[k])
<1>1. PICK k \in {handler[h].key} : \E read \in {handler[h].read} :
        \E values \in {handler[h].values} :
          /\ \A w \in Workers : k \notin DOMAIN held[w]
          /\ MayWrite(read, table[k])
          /\ Store([i \in {k} |-> [row |-> Write(read, table[k], values),
                                   asked |-> values, stale |-> read # table[k]]])
  BY DEF Commit
<1>2. PICK read \in {handler[h].read} : \E values \in {handler[h].values} :
          /\ MayWrite(read, table[k])
          /\ Store([i \in {k} |-> [row |-> Write(read, table[k], values),
                                   asked |-> values, stale |-> read # table[k]]])
  BY <1>1
<1>3. PICK values \in {handler[h].values} :
          /\ MayWrite(read, table[k])
          /\ Store([i \in {k} |-> [row |-> Write(read, table[k], values),
                                   asked |-> values, stale |-> read # table[k]]])
  BY <1>2
<1>4. /\ k \in Keys /\ read \in Rows(k) \union {Absent} /\ values \in Values(k)
      /\ Exists(read) => Exists(table[k])
  BY HandlerFacts DEF Commit, IInv
<1>5. table[k] \in Rows(k) \union {Absent}
  BY <1>4 DEF IInv, TableRight
<1>6. PICK row : row = Write(read, table[k], values)
  OBVIOUS
<1>7. /\ row \in Rows(k)
      /\ read = table[k] => row.version > table[k].version /\ row.values = values
      /\ Between(row, values, table[k])
  <2>1. PICK current : current = table[k]
    OBVIOUS
  <2>2. /\ MayWrite(read, current) /\ (Exists(read) => Exists(current))
        /\ current \in Rows(k) \union {Absent} /\ row = Write(read, current, values)
    BY <1>3, <1>4, <1>5, <1>6, <2>1
  <2>3. read \in Rows(k) \union {Absent} /\ values \in Values(k)
    BY <1>4
  <2>4. /\ Write(read, current, values) \in Rows(k)
        /\ read = current => Write(read, current, values) =
              [values |-> values, version |-> current.version + 1]
        /\ Between(Write(read, current, values), values, current)
    BY <2>2, <2>3, WriteGood
  <2>5. current.version \in Nat
    BY <2>2, RowFacts
  <2> QED
    BY <2>1, <2>2, <2>4, <2>5
<1>8. PICK writes : writes = [i \in {k} |-> [row |-> row, asked |-> values,
                                             stale |-> read # table[k]]]
  OBVIOUS
<1>9. Good(writes) /\ DOMAIN writes = {k}
  BY <1>4, <1>7, <1>8 DEF Good
<1>10. Store(writes)
  BY <1>3, <1>6, <1>8
<1>11. k = handler[h].key /\ (writes[k].stale => handler[h].read # table[k])
  BY <1>8
<1> QED
  BY <1>1, <1>4, <1>9, <1>10, <1>11

LEMMA CommitKeeps ==
    ASSUME IInv, NEW h \in Handlers, Commit(h)
    PROVE  IInv'
<1>1. PICK k \in Keys : \E writes :
        /\ Good(writes) /\ DOMAIN writes = {k} /\ Store(writes)
        /\ \A w \in Workers : k \notin DOMAIN held[w]
  BY CommitGood
<1>2. PICK writes :
        /\ Good(writes) /\ DOMAIN writes = {k} /\ Store(writes)
        /\ \A w \in Workers : k \notin DOMAIN held[w]
  BY <1>1
<1>3. TableRight' /\ Grows
  BY <1>2, StoreKeeps DEF IInv
<1>4. UNCHANGED <<snapshots, worker, held>>
  BY DEF Commit
<1>5. \A w \in Workers : \A i \in DOMAIN held[w] : table'[i] = table[i]
  BY <1>2 DEF Store, IInv, HeldRight, Good
<1>6. HandlersRight'
  BY <1>3, HandlerEnds DEF Commit, IInv
<1>7. WorkersRight' /\ HeldRight' /\ SnapshotsRight'
  BY <1>3, <1>4, <1>5, WorkersKeep, HeldKeeps, SnapshotsKeep DEF IInv
<1> QED
  BY <1>3, <1>6, <1>7 DEF IInv

LEMMA RollbackKeeps ==
    ASSUME IInv, NEW h \in Handlers, Rollback(h)
    PROVE  IInv'
<1>1. TableRight' /\ Grows
  BY Quiet DEF IInv, Rollback
<1>2. HandlersRight'
  BY <1>1, HandlerEnds DEF Rollback, IInv
<1> QED
  BY <1>2, HandlerOnly DEF Rollback

---------------------------------------------------------------------------
(* A step of an import that changes only what its session has read.        *)
LEMMA SessionOnly ==
    ASSUME IInv, NEW w \in Workers, NEW session \in Session,
           worker' = [worker EXCEPT ![w] = session],
           UNCHANGED <<table, snapshots, handler, held, history, last, stale>>,
           WorkerRight(w)'
    PROVE  IInv'
<1>1. TableRight' /\ Grows
  BY Quiet DEF IInv
<1>2. HandlersRight' /\ HeldRight' /\ SnapshotsRight'
  BY <1>1, HandlersKeep, HeldKeeps, SnapshotsKeep DEF IInv, HandlersRight
<1>3. worker' \in [Workers -> Session]
  BY DEF IInv, WorkersRight
<1>4. ASSUME NEW v \in Workers, v # w
      PROVE  WorkerRight(v)'
  <2>1. worker[v] \in Session /\ WorkerRight(v) /\ worker'[v] = worker[v] /\ held'[v] = held[v]
    BY <1>4 DEF IInv, WorkersRight
  <2> QED
    BY <1>1, <2>1, WorkerKeeps
<1>5. WorkersRight'
  BY <1>3, <1>4 DEF WorkersRight
<1> QED
  BY <1>1, <1>2, <1>5 DEF IInv

(* What a session has made stays right while it reads.                     *)
LEMMA MadeKeeps ==
    ASSUME IInv, NEW w \in Workers, UNCHANGED <<table, held, history>>
    PROVE  \A s \in worker[w].made : Sourced(s)' /\ Position(s) \in DOMAIN held'[w]
BY DEF IInv, WorkersRight, WorkerRight, Sourced

LEMMA SessionFacts ==
    ASSUME IInv, NEW w \in Workers
    PROVE  /\ worker[w] \in Session /\ worker \in [Workers -> Session] /\ WorkerRight(w)
           /\ \A r \in worker[w].record : r \in Records
           /\ \A s \in worker[w].draft : s \in Snapshot
BY DEF IInv, WorkersRight, Session

LEMMA RecordFacts ==
    ASSUME NEW r \in Records
    PROVE  /\ r \in Record /\ SourceKey(r) \in References \X Skus \X Locations
           /\ r.sku \in Keys /\ r.location \in Keys
           /\ Rows(r.sku) = RowsOf(ProductValues) /\ Rows(r.location) = RowsOf(WarehouseValues)
<1>1. r \in Record
  BY RecordsAssumption
<1>2. r.reference \in References /\ r.sku \in Skus /\ r.location \in Locations
  BY <1>1 DEF Record
<1> QED
  BY <1>1, <1>2, RowTypes DEF SourceKey

LEMMA BeginKeeps ==
    ASSUME IInv, NEW w \in Workers, NEW S \in SUBSET Records, Begin(w, S)
    PROVE  IInv'
<1>1. PICK session : session = [worker[w] EXCEPT !.stage = "next", !.todo = S]
  OBVIOUS
<1>2. worker' = [worker EXCEPT ![w] = session]
  BY <1>1, SessionFacts DEF Begin
<1>3. session \in Session /\ session.stage = "next"
  BY <1>1, SessionFacts DEF Session
<1>4. session.made = worker[w].made /\ session.draft = worker[w].draft
      /\ session.read = worker[w].read /\ worker'[w] = session
  BY <1>1, <1>2, SessionFacts DEF Session
<1>5. UNCHANGED <<table, snapshots, handler, held, history, last, stale>>
  BY DEF Begin
<1>6. WorkerRight(w)'
  BY <1>3, <1>4, <1>5, MadeKeeps, SessionFacts DEF WorkerRight, Sourced, Exists, Own, Position
<1> QED
  BY <1>2, <1>3, <1>5, <1>6, SessionOnly

(* The set of records that are left, and of names that were seen.          *)
LEMMA NextRecord ==
    ASSUME IInv, NEW w \in Workers, NEW r \in Records
    PROVE  \E todo \in SUBSET Records, seen \in SUBSET (References \X Skus \X Locations) :
               todo = worker[w].todo \ {r} /\ seen = worker[w].seen \union {SourceKey(r)}
<1>1. /\ worker[w].todo \ {r} \in SUBSET Records
      /\ worker[w].seen \union {SourceKey(r)} \in SUBSET (References \X Skus \X Locations)
  BY RecordFacts, SessionFacts DEF Session
<1> QED
  BY <1>1

LEMMA FindProductKeeps ==
    ASSUME IInv, NEW w \in Workers, NEW r \in Records, FindProduct(w, r)
    PROVE  IInv'
<1>1. PICK todo \in SUBSET Records, seen \in SUBSET (References \X Skus \X Locations) :
        todo = worker[w].todo \ {r} /\ seen = worker[w].seen \union {SourceKey(r)}
  BY NextRecord
<1>2. PICK product : product = table[r.sku]
  OBVIOUS
<1>3. PICK session : session = [worker[w] EXCEPT
          !.stage = "product", !.todo = todo, !.seen = seen,
          !.record = {r}, !.product = product]
  OBVIOUS
<1>4. worker' = [worker EXCEPT ![w] = session]
  BY <1>1, <1>2, <1>3, SessionFacts DEF FindProduct, Session
<1>5. product \in RowsOf(ProductValues) \union {Absent}
  BY <1>2, RecordFacts DEF IInv, TableRight
<1>6. session \in Session
  BY <1>3, <1>5, SessionFacts DEF Session
<1>7. /\ session.made = worker[w].made /\ session.draft = worker[w].draft
      /\ session.read = worker[w].read /\ session.stage = "product"
      /\ session.record = {r} /\ session.product = table[r.sku] /\ worker'[w] = session
  BY <1>2, <1>3, <1>4, SessionFacts DEF Session
<1>8. UNCHANGED <<table, snapshots, handler, held, history, last, stale>>
  BY DEF FindProduct
<1>9. table[r.sku] \in history[r.sku] /\ Usable(table[r.sku])
  BY RecordFacts DEF FindProduct, Usable, IInv, TableRight
<1>10. WorkerRight(w)'
  BY <1>7, <1>8, <1>9, MadeKeeps, SessionFacts
     DEF WorkerRight, Sourced, Exists, Own, Position, Usable
<1> QED
  BY <1>4, <1>6, <1>8, <1>10, SessionOnly

LEMMA RejectProductKeeps ==
    ASSUME IInv, NEW w \in Workers, NEW r \in Records, RejectProduct(w, r)
    PROVE  IInv'
<1>1. PICK todo \in SUBSET Records, seen \in SUBSET (References \X Skus \X Locations) :
        todo = worker[w].todo \ {r} /\ seen = worker[w].seen \union {SourceKey(r)}
  BY NextRecord
<1>2. PICK session : session = [worker[w] EXCEPT !.todo = todo, !.seen = seen]
  OBVIOUS
<1>3. worker' = [worker EXCEPT ![w] = session]
  BY <1>1, <1>2, SessionFacts DEF RejectProduct, Session
<1>4. session \in Session
  BY <1>2, SessionFacts DEF Session
<1>5. /\ session.made = worker[w].made /\ session.draft = worker[w].draft
      /\ session.read = worker[w].read /\ session.stage = "next" /\ worker'[w] = session
  BY <1>2, <1>3, SessionFacts DEF Session, RejectProduct
<1>6. UNCHANGED <<table, snapshots, handler, held, history, last, stale>>
  BY DEF RejectProduct
<1>7. WorkerRight(w)'
  BY <1>5, <1>6, MadeKeeps, SessionFacts DEF WorkerRight, Sourced, Exists, Own, Position
<1> QED
  BY <1>3, <1>4, <1>6, <1>7, SessionOnly

LEMMA RejectPositionKeeps ==
    ASSUME IInv, NEW w \in Workers, RejectPosition(w)
    PROVE  IInv'
<1>1. PICK session : session = [worker[w] EXCEPT
          !.stage = "next", !.record = {}, !.product = Absent]
  OBVIOUS
<1>2. worker' = [worker EXCEPT ![w] = session]
  BY <1>1, SessionFacts DEF RejectPosition
<1>3. session \in Session
  BY <1>1, SessionFacts DEF Session
<1>4. /\ session.made = worker[w].made /\ session.draft = worker[w].draft
      /\ session.read = worker[w].read /\ session.stage = "next" /\ worker'[w] = session
  BY <1>1, <1>2, SessionFacts DEF Session
<1>5. UNCHANGED <<table, snapshots, handler, held, history, last, stale>>
  BY DEF RejectPosition
<1>6. WorkerRight(w)'
  BY <1>4, <1>5, MadeKeeps, SessionFacts DEF WorkerRight, Sourced, Exists, Own, Position
<1> QED
  BY <1>2, <1>3, <1>5, <1>6, SessionOnly

(* A draft names the mappings that it was made with.                       *)
LEMMA DraftSourced ==
    ASSUME NEW r \in Records, NEW product \in RowsOf(ProductValues),
           NEW location \in RowsOf(WarehouseValues),
           product \in history[r.sku], location \in history[r.location],
           product.values.active, location.values.active
    PROVE  Draft(r, product, location) \in Snapshot /\ Sourced(Draft(r, product, location))
<1>1. PICK unit : unit = product.values.unit
  OBVIOUS
<1>2. PICK on_hand : on_hand = r.amounts.on_hand * unit
  OBVIOUS
<1>3. PICK reserved : reserved = r.amounts.reserved * unit
  OBVIOUS
<1>4. unit \in Units /\ unit \in Nat /\ r.amounts.on_hand \in Nat /\ r.amounts.reserved \in Nat
  BY <1>1, RecordFacts, UnitsAssumption DEF RowsOf, ProductValues, Record, Amounts
<1>5. on_hand \in Nat /\ reserved \in Nat
  BY <1>2, <1>3, <1>4
<1>6. PICK s : s = Draft(r, product, location)
  OBVIOUS
<1>7. s = [record |-> r, product |-> product.values.target,
           warehouse |-> location.values.target, unit |-> unit,
           product_version |-> product.version, warehouse_version |-> location.version,
           amounts |-> [on_hand |-> on_hand, reserved |-> reserved]]
  BY <1>1, <1>2, <1>3, <1>6 DEF Draft
<1>8. /\ product.values.target \in Products /\ product.version \in Nat
      /\ location.values.target \in Warehouses /\ location.version \in Nat
  BY DEF RowsOf, ProductValues, WarehouseValues
<1>9. s \in Snapshot
  BY <1>4, <1>5, <1>7, <1>8 DEF Snapshot, Amounts
<1>10. Sourced(s)
  BY <1>1, <1>7 DEF Sourced
<1> QED
  BY <1>6, <1>9, <1>10

LEMMA OwnTyped ==
    ASSUME IInv, NEW w \in Workers, NEW k \in Positions
    PROVE  Own(w, k) \in RowsOf(Amounts) \union {Absent}
BY RowTypes DEF Own, IInv, HeldRight, Held, TableRight

LEMMA FindPositionKeeps ==
    ASSUME IInv, NEW w \in Workers, FindPosition(w)
    PROVE  IInv'
<1>1. PICK r \in worker[w].record :
        /\ Matches(r, worker[w].product, table[r.location])
        /\ worker' = [worker EXCEPT
              ![w].stage = "position", ![w].record = {}, ![w].product = Absent,
              ![w].draft = {Draft(r, worker[w].product, table[r.location])},
              ![w].read = Own(w, Position(Draft(r, worker[w].product, table[r.location])))]
  BY DEF FindPosition
<1>2. PICK product : product = worker[w].product
  OBVIOUS
<1>3. PICK location : location = table[r.location]
  OBVIOUS
<1>4. PICK s : s = Draft(r, product, location)
  OBVIOUS
<1>5. PICK read : read = Own(w, Position(s))
  OBVIOUS
<1>6. PICK session : session = [worker[w] EXCEPT
        !.stage = "position", !.record = {}, !.product = Absent, !.draft = {s}, !.read = read]
  OBVIOUS
<1>7. worker' = [worker EXCEPT ![w] = session]
  BY <1>1, <1>2, <1>3, <1>4, <1>5, <1>6, SessionFacts DEF Session
<1>8. r \in Records /\ worker[w].stage = "product"
  BY SessionFacts DEF FindPosition
<1>9. /\ product \in RowsOf(ProductValues) /\ product \in history[r.sku]
      /\ product.values.active
  <2>1. product \in RowsOf(ProductValues) \union {Absent}
    BY <1>2, SessionFacts DEF Session
  <2>2. product \in history[r.sku] /\ Usable(product)
    BY <1>2, <1>8, SessionFacts DEF WorkerRight
  <2> QED
    BY <2>1, <2>2, RowFacts DEF Usable
<1>10. /\ location \in RowsOf(WarehouseValues) /\ location \in history[r.location]
       /\ location.values.active
  <2>1. location \in RowsOf(WarehouseValues) \union {Absent} /\ Usable(location)
    BY <1>1, <1>3, <1>8, RecordFacts DEF IInv, TableRight, Matches
  <2>2. Exists(location) => location \in history[r.location]
    BY <1>3, <1>8, RecordFacts DEF IInv, TableRight
  <2> QED
    BY <2>1, <2>2, RowFacts DEF Usable
<1>11. s \in Snapshot /\ Sourced(s)
  BY <1>4, <1>8, <1>9, <1>10, DraftSourced
<1>12. read \in RowsOf(Amounts) \union {Absent}
  BY <1>5, <1>11, SnapshotFacts, OwnTyped
<1>13. session \in Session
  BY <1>6, <1>11, <1>12, SessionFacts DEF Session
<1>14. /\ session.made = worker[w].made /\ session.draft = {s} /\ session.read = read
       /\ session.stage = "position" /\ worker'[w] = session
  BY <1>6, <1>7, SessionFacts DEF Session
<1>15. UNCHANGED <<table, snapshots, handler, held, history, last, stale>>
  BY DEF FindPosition
<1>16. /\ Sourced(s)'
       /\ Exists(read) => Exists(Own(w, Position(s))')
       /\ Position(s) \in DOMAIN held'[w] => read = held'[w][Position(s)].row
  BY <1>5, <1>11, <1>15 DEF Sourced, Own, Exists
<1>17. WorkerRight(w)'
  BY <1>14, <1>15, <1>16, MadeKeeps DEF WorkerRight, Exists, Position
<1> QED
  BY <1>7, <1>13, <1>15, <1>17, SessionOnly

(* What a flush adds to the rows that an import holds.                     *)
LEMMA FlushGood ==
    ASSUME IInv, NEW w \in Workers, NEW s \in worker[w].draft,
           NEW k, k = Position(s), NEW read, read = worker[w].read,
           MayWrite(read, Own(w, k)),
           NEW row, row = Write(read, Own(w, k), s.amounts),
           NEW flag, flag = (IF k \in DOMAIN held[w] THEN held[w][k].stale ELSE read # table[k])
    PROVE  /\ row \in RowsOf(Amounts) /\ flag \in BOOLEAN
           /\ ~flag => row.version > table[k].version /\ row.values = s.amounts
           /\ Between(row, s.amounts, table[k])
<1>1. /\ k \in Positions /\ k \in Keys /\ s.amounts \in Amounts
      /\ Rows(k) = RowsOf(Amounts) /\ Values(k) = Amounts
  BY SessionFacts, SnapshotFacts, RowTypes DEF Snapshot
<1>2. PICK current : current = Own(w, k)
  OBVIOUS
<1>3. /\ read \in Rows(k) \union {Absent} /\ current \in Rows(k) \union {Absent}
      /\ table[k] \in Rows(k) \union {Absent}
  BY <1>1, <1>2, OwnTyped, SessionFacts DEF Session, IInv, TableRight
<1>4. /\ Exists(read) => Exists(current)
      /\ k \in DOMAIN held[w] => read = current
  BY <1>2, SessionFacts DEF WorkerRight, Own
<1>5. /\ row \in Rows(k)
      /\ read = current => row = [values |-> s.amounts, version |-> current.version + 1]
      /\ Between(row, s.amounts, current)
  <2>1. MayWrite(read, current) /\ s.amounts \in Values(k) /\ row = Write(read, current, s.amounts)
    BY <1>1, <1>2
  <2>2. PICK amounts : amounts = s.amounts
    OBVIOUS
  <2>3. amounts \in Values(k) /\ (Exists(read) => Exists(current))
    BY <1>4, <2>1, <2>2
  <2>4. /\ Write(read, current, amounts) \in Rows(k)
        /\ read = current => Write(read, current, amounts) =
              [values |-> amounts, version |-> current.version + 1]
        /\ Between(Write(read, current, amounts), amounts, current)
    BY ONLY <1>3, <2>1, <2>3, WriteGood
  <2> QED
    BY <2>1, <2>2, <2>4
<1>6. CASE k \in DOMAIN held[w]
  <2>1. held[w][k].stale \in BOOLEAN /\ flag = held[w][k].stale /\ current = held[w][k].row
    BY <1>2, <1>6 DEF IInv, HeldRight, Good, Own
  <2>2. ~flag => current.version > table[k].version
    BY <1>6, <2>1 DEF IInv, HeldRight, Good
  <2>3. current.version \in Nat /\ table[k].version \in Nat
    BY <1>3, RowFacts
  <2>4. Between(row, s.amounts, table[k])
    BY <1>4, <1>5, <1>6 DEF Between
  <2> QED
    BY <1>1, <1>4, <1>5, <1>6, <2>1, <2>2, <2>3, <2>4
<1>7. CASE k \notin DOMAIN held[w]
  <2>1. current = table[k] /\ flag = (read # table[k])
    BY <1>2, <1>7 DEF Own
  <2>2. table[k].version \in Nat
    BY <1>3, RowFacts
  <2>3. ASSUME ~flag
        PROVE  row.version > table[k].version /\ row.values = s.amounts
    <3>1. read = current
      BY <2>1, <2>3
    <3> QED
      BY <1>5, <2>1, <2>2, <3>1
  <2>4. flag \in BOOLEAN
    BY ONLY <2>1
  <2>5. Between(row, s.amounts, table[k])
    BY <1>5, <2>1
  <2> QED
    BY <1>1, <1>5, <2>3, <2>4, <2>5
<1> QED
  BY <1>6, <1>7

LEMMA FlushKeeps ==
    ASSUME IInv, NEW w \in Workers, Flush(w)
    PROVE  IInv'
<1>1. PICK s \in worker[w].draft :
        /\ ~Locked(Position(s), w)
        /\ MayWrite(worker[w].read, Own(w, Position(s)))
        /\ worker' = [worker EXCEPT
              ![w].stage = "next", ![w].draft = {}, ![w].read = Absent,
              ![w].made = @ \union {s}]
        /\ held' = [held EXCEPT ![w] = [i \in DOMAIN held[w] \union {Position(s)} |->
              IF i # Position(s) THEN held[w][i]
              ELSE [row |-> Write(worker[w].read, Own(w, Position(s)), s.amounts),
                    asked |-> s.amounts,
                    stale |-> IF Position(s) \in DOMAIN held[w] THEN held[w][Position(s)].stale
                              ELSE worker[w].read # table[Position(s)]]]]
  BY DEF Flush
<1>2. PICK k : k = Position(s)
  OBVIOUS
<1>3. PICK read : read = worker[w].read
  OBVIOUS
<1>4. PICK row : row = Write(read, Own(w, k), s.amounts)
  OBVIOUS
<1>5. PICK flag : flag = (IF k \in DOMAIN held[w] THEN held[w][k].stale ELSE read # table[k])
  OBVIOUS
<1>6. PICK writes : writes = [i \in DOMAIN held[w] \union {k} |->
        IF i # k THEN held[w][i] ELSE [row |-> row, asked |-> s.amounts, stale |-> flag]]
  OBVIOUS
<1>7. s \in Snapshot /\ k \in Positions /\ k \in Keys /\ s.amounts \in Amounts
  BY <1>2, SessionFacts, SnapshotFacts DEF Snapshot
<1>8. /\ row \in RowsOf(Amounts) /\ flag \in BOOLEAN
      /\ ~flag => row.version > table[k].version /\ row.values = s.amounts
      /\ Between(row, s.amounts, table[k])
  <2>1. MayWrite(read, Own(w, k))
    BY <1>1, <1>2, <1>3
  <2> QED
    BY <1>2, <1>3, <1>4, <1>5, <2>1, FlushGood
<1>9. held' = [held EXCEPT ![w] = writes]
  BY <1>1, <1>2, <1>3, <1>4, <1>5, <1>6
<1>10. UNCHANGED <<table, snapshots, handler, history, last, stale>>
  BY DEF Flush
<1>11. DOMAIN held = Workers /\ DOMAIN held[w] \subseteq Positions /\ Good(held[w])
       /\ \A i \in DOMAIN held[w] : held[w][i] \in Held
  BY DEF IInv, HeldRight
<1>12. /\ DOMAIN writes = DOMAIN held[w] \union {k}
       /\ \A i \in DOMAIN held[w] : i # k => writes[i] = held[w][i]
       /\ writes[k] = [row |-> row, asked |-> s.amounts, stale |-> flag]
  BY <1>6
<1>13. writes[k] \in Held
  BY <1>7, <1>8, <1>12 DEF Held
<1>14. Good(writes)
  <2>1. ASSUME NEW i \in DOMAIN held[w], i # k
        PROVE  /\ i \in Keys
               /\ writes[i].row \in Rows(i) /\ writes[i].asked \in Values(i)
               /\ writes[i].stale \in BOOLEAN
               /\ ~writes[i].stale => writes[i].row.version > table[i].version
                                      /\ writes[i].row.values = writes[i].asked
               /\ Between(writes[i].row, writes[i].asked, table[i])
    BY <1>11, <1>12, <2>1 DEF Good
  <2>2. /\ writes[k].row \in Rows(k) /\ writes[k].asked \in Values(k)
        /\ writes[k].stale \in BOOLEAN
    BY <1>7, <1>8, <1>12, RowTypes
  <2>3. /\ ~writes[k].stale => writes[k].row.version > table[k].version
                               /\ writes[k].row.values = writes[k].asked
        /\ Between(writes[k].row, writes[k].asked, table[k])
    BY <1>8, <1>12
  <2> QED
    BY <1>7, <1>12, <2>1, <2>2, <2>3 DEF Good
<1>15. TableRight' /\ Grows
  BY <1>10, Quiet DEF IInv
<1>16. held'[w] = writes /\ \A v \in Workers : v # w => held'[v] = held[v]
  BY <1>9, <1>11
<1>17. HeldRight'
  <2>1. DOMAIN held' = Workers
    BY <1>9, <1>11
  <2>2. ASSUME NEW v \in Workers
        PROVE  /\ DOMAIN held'[v] \subseteq Positions /\ Good(held[v])'
               /\ \A i \in DOMAIN held'[v] : held'[v][i] \in Held
    <3>1. CASE v = w
      <4>1. Good(writes)'
        BY <1>10, <1>14 DEF Good, Between
      <4>2. Good(held[v])'
        BY <1>16, <3>1, <4>1 DEF Good, Between
      <4> QED
        BY <1>7, <1>11, <1>12, <1>13, <1>16, <3>1, <4>2
    <3>2. CASE v # w
      <4>1. /\ DOMAIN held[v] \subseteq Positions /\ Good(held[v])
            /\ \A i \in DOMAIN held[v] : held[v][i] \in Held
        BY DEF IInv, HeldRight
      <4>2. Good(held[v])'
        BY <1>10, <1>16, <3>2, <4>1 DEF Good, Between
      <4> QED
        BY <1>16, <3>2, <4>1, <4>2
    <3> QED
      BY <3>1, <3>2
  <2>3. \A v \in Workers : v # w => k \notin DOMAIN held[v]
    BY <1>1, <1>2 DEF Locked
  <2>4. \A u, v \in Workers : u # v => DOMAIN held'[u] \intersect DOMAIN held'[v] = {}
    BY <1>12, <1>16, <2>3 DEF IInv, HeldRight
  <2> QED
    BY <2>1, <2>2, <2>4 DEF HeldRight
<1>18. PICK made : made = worker[w].made \union {s}
  OBVIOUS
<1>19. PICK session : session = [worker[w] EXCEPT
        !.stage = "next", !.draft = {}, !.read = Absent, !.made = made]
  OBVIOUS
<1>20. worker' = [worker EXCEPT ![w] = session]
  BY <1>1, <1>18, <1>19, SessionFacts DEF Session
<1>21. session \in Session
  <2>1. made \in SUBSET Snapshot
    BY <1>7, <1>18, SessionFacts DEF Session
  <2> QED
    BY <1>19, <2>1, SessionFacts DEF Session
<1>22. /\ worker'[w] = session /\ session.stage = "next" /\ session.draft = {}
       /\ session.made = made
  BY <1>19, <1>20, SessionFacts DEF Session
<1>23. ASSUME NEW t \in made
       PROVE  Sourced(t)' /\ Position(t) \in DOMAIN held'[w]
  <2>1. Sourced(t) /\ Position(t) \in DOMAIN writes
    BY <1>2, <1>12, <1>18, <1>23, SessionFacts DEF WorkerRight
  <2> QED
    BY <1>10, <1>16, <2>1 DEF Sourced
<1>24. WorkerRight(w)'
  BY <1>22, <1>23 DEF WorkerRight, Position
<1>25. ASSUME NEW v \in Workers, v # w
       PROVE  WorkerRight(v)'
  <2>1. worker[v] \in Session /\ WorkerRight(v) /\ worker'[v] = worker[v] /\ held'[v] = held[v]
    BY <1>16, <1>20, <1>25, SessionFacts
  <2> QED
    BY <1>15, <2>1, WorkerKeeps
<1>26. WorkersRight'
  BY <1>20, <1>21, <1>24, <1>25, SessionFacts DEF WorkersRight
<1>27. HandlersRight' /\ SnapshotsRight'
  BY <1>10, <1>15, HandlersKeep, SnapshotsKeep DEF IInv, HandlersRight
<1> QED
  BY <1>15, <1>17, <1>26, <1>27 DEF IInv

(* What the other imports keep when one of them ends.                      *)
LEMMA ImportEnds ==
    ASSUME IInv, Grows, NEW w \in Workers,
           worker' = [worker EXCEPT ![w] = IdleWorker],
           held' = [held EXCEPT ![w] = NothingHeld],
           \A v \in Workers \ {w} : \A k \in DOMAIN held[v] : table'[k] = table[k]
    PROVE  WorkersRight' /\ HeldRight'
<1>1. held'[w] = NothingHeld /\ \A v \in Workers \ {w} : held'[v] = held[v]
  BY DEF IInv, HeldRight
<1>2. WorkersRight'
  <2>1. worker' \in [Workers -> Session]
    BY IdleFacts, SessionFacts
  <2>2. WorkerRight(w)'
    BY IdleFacts, SessionFacts DEF WorkerRight
  <2>3. ASSUME NEW v \in Workers, v # w
        PROVE  WorkerRight(v)'
    <3>1. worker[v] \in Session /\ WorkerRight(v) /\ worker'[v] = worker[v]
          /\ held'[v] = held[v]
      BY <1>1, <2>3, SessionFacts
    <3> QED
      BY <3>1, WorkerKeeps
  <2> QED
    BY <2>1, <2>2, <2>3 DEF WorkersRight
<1>3. HeldRight'
  <2>1. DOMAIN held' = Workers
    BY DEF IInv, HeldRight
  <2>2. ASSUME NEW v \in Workers
        PROVE  /\ DOMAIN held'[v] \subseteq Positions /\ Good(held[v])'
               /\ \A i \in DOMAIN held'[v] : held'[v][i] \in Held
    <3>1. CASE v = w
      BY <1>1, <3>1, IdleFacts DEF Good
    <3>2. CASE v # w
      <4>1. /\ DOMAIN held[v] \subseteq Positions /\ Good(held[v])
            /\ \A i \in DOMAIN held[v] : held[v][i] \in Held
        BY DEF IInv, HeldRight
      <4>2. Good(held[v])'
        BY <1>1, <3>2, <4>1 DEF Good
      <4> QED
        BY <1>1, <3>2, <4>1, <4>2
    <3> QED
      BY <3>1, <3>2
  <2>3. \A u, v \in Workers : u # v => DOMAIN held'[u] \intersect DOMAIN held'[v] = {}
    BY <1>1, IdleFacts DEF IInv, HeldRight
  <2> QED
    BY <2>1, <2>2, <2>3 DEF HeldRight
<1> QED
  BY <1>2, <1>3

LEMMA CommitImportKeeps ==
    ASSUME IInv, NEW w \in Workers, CommitImport(w)
    PROVE  IInv'
<1>1. PICK writes : writes = held[w]
  OBVIOUS
<1>2. /\ Store(writes) /\ snapshots' = snapshots \union worker[w].made
      /\ worker' = [worker EXCEPT ![w] = IdleWorker]
      /\ held' = [held EXCEPT ![w] = NothingHeld] /\ UNCHANGED handler
  BY <1>1 DEF CommitImport
<1>3. Good(writes) /\ DOMAIN writes \subseteq Positions
  BY <1>1 DEF IInv, HeldRight
<1>4. TableRight' /\ Grows
  BY <1>2, <1>3, StoreKeeps DEF IInv
<1>5. \A v \in Workers \ {w} : \A k \in DOMAIN held[v] : table'[k] = table[k]
  BY <1>1, <1>2, RowTypes DEF Store, IInv, HeldRight
<1>6. WorkersRight' /\ HeldRight'
  BY <1>2, <1>4, <1>5, ImportEnds
<1>7. HandlersRight'
  BY <1>2, <1>4, HandlersKeep DEF IInv, HandlersRight
<1>8. ASSUME NEW s \in snapshots'
      PROVE  s \in Snapshot /\ Sourced(s)' /\ Exists(table'[Position(s)])
  <2>1. CASE s \in snapshots
    <3>1. s \in Snapshot /\ Sourced(s) /\ Exists(table[Position(s)])
      BY <2>1 DEF IInv, SnapshotsRight, SnapshotProvenance
    <3>2. Position(s) \in Keys
      BY <3>1, SnapshotFacts
    <3> QED
      BY <1>4, <3>1, <3>2, SourcedKeeps DEF Grows
  <2>2. CASE s \in worker[w].made
    <3>1. s \in Snapshot /\ Sourced(s) /\ Position(s) \in DOMAIN writes
      BY <1>1, <2>2, SessionFacts DEF WorkerRight, Session
    <3>2. PICK k : k = Position(s)
      OBVIOUS
    <3>3. k \in Keys /\ k \in DOMAIN writes /\ writes[k].row \in Rows(k)
      BY <1>3, <3>1, <3>2 DEF Good
    <3>4. Exists(table'[k])
      BY <1>2, <3>3, RowFacts DEF Store
    <3> QED
      BY <1>4, <3>1, <3>2, <3>4, SourcedKeeps
  <2> QED
    BY <1>2, <1>8, <2>1, <2>2
<1>9. SnapshotsRight'
  BY <1>8 DEF SnapshotsRight, SnapshotProvenance, Position
<1> QED
  BY <1>4, <1>6, <1>7, <1>9 DEF IInv

LEMMA RollbackImportKeeps ==
    ASSUME IInv, NEW w \in Workers, RollbackImport(w)
    PROVE  IInv'
<1>1. UNCHANGED <<table, snapshots, handler, history, last, stale>>
  BY DEF RollbackImport
<1>2. TableRight' /\ Grows
  BY <1>1, Quiet DEF IInv
<1>3. WorkersRight' /\ HeldRight'
  BY <1>1, <1>2, ImportEnds DEF RollbackImport
<1>4. HandlersRight' /\ SnapshotsRight'
  BY <1>1, <1>2, HandlersKeep, SnapshotsKeep DEF IInv, HandlersRight
<1> QED
  BY <1>2, <1>3, <1>4 DEF IInv

---------------------------------------------------------------------------
LEMMA StepKeeps ==
    ASSUME IInv, [Next]_vars
    PROVE  IInv'
<1>1. ASSUME NEW h \in Handlers, NEW k \in Keys, NEW values \in Requests(k),
             Read(h, k, values)
      PROVE  IInv'
  BY <1>1, ReadKeeps
<1>2. ASSUME NEW h \in Handlers, CommitUnchanged(h) \/ Commit(h) \/ Rollback(h)
      PROVE  IInv'
  BY <1>2, CommitUnchangedKeeps, CommitKeeps, RollbackKeeps
<1>3. ASSUME NEW w \in Workers, NEW S \in (SUBSET Records) \ {{}}, Begin(w, S)
      PROVE  IInv'
  <2>1. S \in SUBSET Records
    OBVIOUS
  <2> QED
    BY <1>3, <2>1, BeginKeeps
<1>4. ASSUME NEW w \in Workers, NEW r \in Records, FindProduct(w, r) \/ RejectProduct(w, r)
      PROVE  IInv'
  BY <1>4, FindProductKeeps, RejectProductKeeps
<1>5. ASSUME NEW w \in Workers,
             \/ FindPosition(w) \/ RejectPosition(w) \/ Flush(w)
             \/ CommitImport(w) \/ RollbackImport(w)
      PROVE  IInv'
  BY <1>5, FindPositionKeeps, RejectPositionKeeps, FlushKeeps, CommitImportKeeps,
     RollbackImportKeeps
<1>6. ASSUME UNCHANGED vars
      PROVE  IInv'
  <2>1. UNCHANGED <<table, snapshots, handler, worker, held, history, last, stale>>
    BY <1>6 DEF vars
  <2>2. TableRight' /\ Grows
    BY <2>1, Quiet DEF IInv
  <2>3. HandlersRight'
    BY <2>1, <2>2, HandlersKeep DEF IInv, HandlersRight
  <2> QED
    BY <2>1, <2>3, HandlerOnly
<1> QED
  BY <1>1, <1>2, <1>3, <1>4, <1>5, <1>6 DEF Next

(* Every state of every execution satisfies the inductive invariant: the   *)
(* rows of mappings and positions, what requests and imports have read of  *)
(* them, and what imports hold uncommitted, agree with the rows that were  *)
(* ever committed.                                                         *)
THEOREM Invariance == Spec => []IInv
<1>1. Init => IInv
  BY InitHolds
<1>2. IInv /\ [Next]_vars => IInv'
  BY StepKeeps
<1> QED
  BY <1>1, <1>2, PTL DEF Spec

(* Rows, requests, imports and snapshots keep their types, however many    *)
(* requests and imports run.                                               *)
THEOREM TypeCorrect == Spec => []TypeOK
<1>1. IInv => TypeOK
  BY DEF IInv, TypeOK, TableRight, HandlersRight, HandlerRight, WorkersRight, Session,
         HeldRight, SnapshotsRight
<1> QED
  BY <1>1, Invariance, PTL

(* Every snapshot of an import names versions of its two mappings that     *)
(* were committed with the product, the warehouse and the unit that it     *)
(* records, whatever upserts ran while the import did.                     *)
THEOREM Provenance == Spec => []SnapshotProvenance
<1>1. IInv => SnapshotProvenance
  BY DEF IInv, SnapshotsRight
<1> QED
  BY <1>1, Invariance, PTL

(* The version that set_inventory and the upserts put into a row names one *)
(* content of it, until a writer commits over a row that has changed since *)
(* it read it.                                                             *)
THEOREM VersionsName == Spec => []VersionsIdentify
<1>1. IInv => VersionsIdentify
  BY DEF IInv, TableRight
<1> QED
  BY <1>1, Invariance, PTL

(* Until then a row holds what its last writer was asked for.              *)
THEOREM NothingLost == Spec => []WritesKept
<1>1. IInv => WritesKept
  BY DEF IInv, TableRight
<1> QED
  BY <1>1, Invariance, PTL

---------------------------------------------------------------------------
(* What one commit leaves, whatever went before.                           *)

Whole(k) ==
    \/ UNCHANGED <<table[k], last[k]>>
    \/ /\ last'[k] = {table'[k].values}
       /\ table'[k] # table[k] => table'[k].version > table[k].version
    \/ /\ EndsOutdated(k)
       /\ \A asked \in last'[k] : Between(table'[k], asked, table[k])

LEMMA StoreWhole ==
    ASSUME TableRight, NEW writes, Good(writes), Store(writes), NEW k \in Keys,
           k \in DOMAIN writes /\ writes[k].stale => EndsOutdated(k)
    PROVE  Whole(k)
<1>1. CASE k \notin DOMAIN writes
  BY <1>1 DEF Store, Whole
<1>2. CASE k \in DOMAIN writes
  <2>1. table'[k] = writes[k].row /\ last'[k] = {writes[k].asked}
    BY <1>2 DEF Store
  <2>2. CASE writes[k].stale
    <3>1. \A asked \in last'[k] : Between(table'[k], asked, table[k])
      BY <1>2, <2>1 DEF Good
    <3> QED
      BY <1>2, <2>2, <3>1 DEF Whole
  <2>3. CASE ~writes[k].stale
    BY <1>2, <2>1, <2>3 DEF Good, Whole
  <2> QED
    BY <2>2, <2>3
<1> QED
  BY <1>1, <1>2

LEMMA CommitWhole ==
    ASSUME IInv, NEW h \in Handlers, Commit(h), NEW i \in Keys
    PROVE  Whole(i)
<1>1. PICK k \in Keys : \E writes :
        /\ Good(writes) /\ DOMAIN writes = {k} /\ Store(writes)
        /\ k = handler[h].key /\ (writes[k].stale => handler[h].read # table[k])
  BY CommitGood
<1>2. PICK writes :
        /\ Good(writes) /\ DOMAIN writes = {k} /\ Store(writes)
        /\ k = handler[h].key /\ (writes[k].stale => handler[h].read # table[k])
  BY <1>1
<1>3. i \in DOMAIN writes /\ writes[i].stale => EndsOutdated(i)
  <2> SUFFICES ASSUME i \in DOMAIN writes, writes[i].stale PROVE EndsOutdated(i)
    OBVIOUS
  <2>1. /\ i = handler[h].key /\ handler[h].read # table[i]
        /\ handler[h].busy
    BY <1>2 DEF Commit
  <2> QED
    BY <2>1 DEF EndsOutdated
<1> QED
  BY <1>2, <1>3, StoreWhole DEF IInv

(* A repeated upsert leaves the row; if that is current, it is as asked.   *)
LEMMA UnchangedWhole ==
    ASSUME IInv, NEW h \in Handlers, CommitUnchanged(h), NEW i \in Keys
    PROVE  Whole(i)
<1>1. PICK k \in {handler[h].key} : \E read \in {handler[h].read} :
        \E values \in {handler[h].values} :
          /\ Unchanged(k, read, values)
          /\ last' = [last EXCEPT ![k] = {values}]
  BY DEF CommitUnchanged
<1>2. PICK read \in {handler[h].read} : \E values \in {handler[h].values} :
          /\ Unchanged(k, read, values)
          /\ last' = [last EXCEPT ![k] = {values}]
  BY <1>1
<1>3. PICK values \in {handler[h].values} :
          /\ Unchanged(k, read, values)
          /\ last' = [last EXCEPT ![k] = {values}]
  BY <1>2
<1>4. table' = table /\ handler[h].busy /\ DOMAIN last = Keys
  BY DEF CommitUnchanged, IInv, TableRight
<1>5. CASE i # k
  BY <1>3, <1>4, <1>5 DEF Whole
<1>6. CASE i = k /\ read = table[k]
  <2>1. last'[i] = {values} /\ table[i].values = values
    BY <1>3, <1>4, <1>6 DEF Unchanged
  <2> QED
    BY <1>4, <2>1 DEF Whole
<1>7. CASE i = k /\ read # table[k]
  <2>1. EndsOutdated(i)
    BY <1>4, <1>7 DEF EndsOutdated
  <2>2. \A asked \in last'[i] : Between(table'[i], asked, table[i])
    BY <1>4 DEF Between
  <2> QED
    BY <2>1, <2>2 DEF Whole
<1> QED
  BY <1>5, <1>6, <1>7

LEMMA ImportWhole ==
    ASSUME IInv, NEW w \in Workers, CommitImport(w), NEW k \in Keys
    PROVE  Whole(k)
<1>1. Good(held[w]) /\ Store(held[w])
  BY DEF IInv, HeldRight, CommitImport
<1>2. k \in DOMAIN held[w] /\ held[w][k].stale => EndsOutdated(k)
  BY DEF EndsOutdated
<1>3. PICK writes : writes = held[w]
  OBVIOUS
<1> QED
  BY <1>1, <1>2, <1>3, StoreWhole DEF IInv

(* However many requests and imports race, only the end of one that was     *)
(* overtaken mixes what two of them wrote, drops what it was asked for or  *)
(* sets a version back, and each column is then of one of the two.         *)
THEOREM OvertakenOnly == Spec => OnlyOvertakenWritesMix
<1>1. IInv /\ [Next]_vars => WritesWhole
  <2> SUFFICES ASSUME IInv, [Next]_vars, NEW k \in Keys PROVE Whole(k)
    BY DEF WritesWhole, Whole
  <2>1. ASSUME NEW h \in Handlers, CommitUnchanged(h) \/ Commit(h)
        PROVE  Whole(k)
    BY <2>1, CommitWhole, UnchangedWhole
  <2>2. ASSUME NEW w \in Workers, CommitImport(w)
        PROVE  Whole(k)
    BY <2>2, ImportWhole
  <2>3. ASSUME NEW h \in Handlers,
               \/ \E i \in Keys : \E values \in Requests(i) : Read(h, i, values)
               \/ Rollback(h)
        PROVE  Whole(k)
    BY <2>3 DEF Read, Rollback, Whole
  <2>4. ASSUME NEW w \in Workers,
               \/ \E S \in (SUBSET Records) \ {{}} : Begin(w, S)
               \/ \E r \in Records : FindProduct(w, r) \/ RejectProduct(w, r)
               \/ FindPosition(w) \/ RejectPosition(w) \/ Flush(w) \/ RollbackImport(w)
        PROVE  Whole(k)
    BY <2>4 DEF Begin, FindProduct, RejectProduct, FindPosition, RejectPosition, Flush,
                RollbackImport, Whole
  <2>5. CASE UNCHANGED vars
    BY <2>5 DEF vars, Whole
  <2> QED
    BY <2>1, <2>2, <2>3, <2>4, <2>5 DEF Next
<1> QED
  BY <1>1, Invariance, PTL DEF Spec, OnlyOvertakenWritesMix

---------------------------------------------------------------------------
(* What StockBook promises of snapshots needs more of the imports: what    *)
(* they hold of a position is one of the snapshots they made of it.        *)
HeldMade ==
    \A w \in Workers : \A k \in DOMAIN held[w] :
        \E s \in worker[w].made : Position(s) = k /\ held[w][k].asked = s.amounts

(* Source records that are recorded, or made by some import, are different *)
(* ones, since a flush waits for the unique key of any other.              *)
SourcesApart ==
    /\ \A s, t \in snapshots : SourceKey(s.record) = SourceKey(t.record) => s = t
    /\ \A w \in Workers : \A s \in worker[w].made :
          /\ \A t \in snapshots : SourceKey(t.record) # SourceKey(s.record)
          /\ \A v \in Workers : \A t \in worker[v].made :
                SourceKey(t.record) = SourceKey(s.record) => v = w /\ t = s

BookInv == HeldMade /\ SourcesApart

(* A step that leaves alone what imports hold and made.                    *)
LEMMA BookQuiet ==
    ASSUME BookInv, UNCHANGED <<snapshots, held>>,
           \A w \in Workers : worker'[w].made = worker[w].made
    PROVE  BookInv'
<1>1. HeldMade'
  BY DEF BookInv, HeldMade, Position
<1>2. SourcesApart'
  BY DEF BookInv, SourcesApart, SourceKey
<1> QED
  BY <1>1, <1>2 DEF BookInv

LEMMA FlushBook ==
    ASSUME IInv, BookInv, NEW w \in Workers, Flush(w)
    PROVE  BookInv'
<1>1. PICK s \in worker[w].draft :
        /\ \A v \in Workers : \A t \in worker[v].made \union snapshots :
              SourceKey(t.record) # SourceKey(s.record)
        /\ worker' = [worker EXCEPT
              ![w].stage = "next", ![w].draft = {}, ![w].read = Absent,
              ![w].made = @ \union {s}]
        /\ held' = [held EXCEPT ![w] = [i \in DOMAIN held[w] \union {Position(s)} |->
              IF i # Position(s) THEN held[w][i]
              ELSE [row |-> Write(worker[w].read, Own(w, Position(s)), s.amounts),
                    asked |-> s.amounts,
                    stale |-> IF Position(s) \in DOMAIN held[w] THEN held[w][Position(s)].stale
                              ELSE worker[w].read # table[Position(s)]]]]
        /\ snapshots' = snapshots
  BY DEF Flush
<1>2. /\ worker'[w].made = worker[w].made \union {s}
      /\ \A v \in Workers \ {w} : worker'[v] = worker[v]
  BY <1>1, SessionFacts DEF Session
<1>3. /\ DOMAIN held'[w] = DOMAIN held[w] \union {Position(s)}
      /\ held'[w][Position(s)].asked = s.amounts
      /\ \A k \in DOMAIN held[w] : k # Position(s) => held'[w][k] = held[w][k]
      /\ \A v \in Workers \ {w} : held'[v] = held[v]
  BY <1>1 DEF IInv, HeldRight
<1>4. HeldMade'
  <2>1. ASSUME NEW v \in Workers, NEW k \in DOMAIN held'[v]
        PROVE  \E t \in worker'[v].made : Position(t) = k /\ held'[v][k].asked = t.amounts
    <3>1. CASE v = w /\ k = Position(s)
      BY <1>2, <1>3, <3>1
    <3>2. CASE v = w /\ k # Position(s)
      BY <1>2, <1>3, <2>1, <3>2 DEF BookInv, HeldMade
    <3>3. CASE v # w
      BY <1>2, <1>3, <2>1, <3>3 DEF BookInv, HeldMade
    <3> QED
      BY <3>1, <3>2, <3>3
  <2> QED
    BY <2>1 DEF HeldMade, Position
<1>5. SourcesApart'
  <2>1. \A x, y \in snapshots' : SourceKey(x.record) = SourceKey(y.record) => x = y
    BY <1>1 DEF BookInv, SourcesApart
  <2>2. ASSUME NEW v \in Workers, NEW x \in worker'[v].made, NEW y \in snapshots'
        PROVE  SourceKey(y.record) # SourceKey(x.record)
    BY <1>1, <1>2, <2>2 DEF BookInv, SourcesApart
  <2>3. ASSUME NEW u \in Workers, NEW x \in worker'[u].made,
               NEW v \in Workers, NEW y \in worker'[v].made,
               SourceKey(y.record) = SourceKey(x.record)
        PROVE  v = u /\ y = x
    <3>1. CASE x \in worker[u].made /\ y \in worker[v].made
      BY <2>3, <3>1 DEF BookInv, SourcesApart
    <3>2. CASE u = w /\ x = s /\ v = w /\ y = s
      BY <3>2
    <3> QED
      BY <1>1, <1>2, <2>3, <3>1, <3>2
  <2> QED
    BY <2>1, <2>2, <2>3 DEF SourcesApart
<1> QED
  BY <1>4, <1>5 DEF BookInv

(* The end of an import, whose snapshots are recorded or are lost.         *)
LEMMA EndBook ==
    ASSUME IInv, BookInv, NEW w \in Workers,
           worker' = [worker EXCEPT ![w] = IdleWorker],
           held' = [held EXCEPT ![w] = NothingHeld],
           snapshots' = snapshots \/ snapshots' = snapshots \union worker[w].made
    PROVE  BookInv'
<1>1. /\ worker'[w].made = {} /\ DOMAIN held'[w] = {}
      /\ \A v \in Workers \ {w} : worker'[v] = worker[v] /\ held'[v] = held[v]
  BY IdleFacts, SessionFacts DEF IInv, HeldRight
<1>2. HeldMade'
  BY <1>1 DEF BookInv, HeldMade, Position
<1>3. SourcesApart'
  BY <1>1 DEF BookInv, SourcesApart, SourceKey
<1> QED
  BY <1>2, <1>3 DEF BookInv

LEMMA BookStep ==
    ASSUME IInv, BookInv, [Next]_vars
    PROVE  BookInv'
<1>1. ASSUME NEW h \in Handlers,
             \/ \E k \in Keys : \E values \in Requests(k) : Read(h, k, values)
             \/ CommitUnchanged(h) \/ Commit(h) \/ Rollback(h)
      PROVE  UNCHANGED <<snapshots, worker, held>>
  BY <1>1 DEF Read, CommitUnchanged, Commit, Rollback
<1>2. ASSUME NEW w \in Workers,
             \/ \E S \in (SUBSET Records) \ {{}} : Begin(w, S)
             \/ \E r \in Records : FindProduct(w, r) \/ RejectProduct(w, r)
             \/ FindPosition(w) \/ RejectPosition(w)
      PROVE  /\ UNCHANGED <<snapshots, held>>
             /\ \A v \in Workers : worker'[v].made = worker[v].made
  <2>1. worker \in [Workers -> Session] /\ \A v \in Workers : worker[v] \in Session
    BY <1>2, SessionFacts
  <2>2. UNCHANGED <<snapshots, held>>
    BY <1>2 DEF Begin, FindProduct, RejectProduct, FindPosition, RejectPosition
  <2>3. \A v \in Workers \ {w} : worker'[v] = worker[v]
    BY <1>2, <2>1 DEF Begin, FindProduct, RejectProduct, FindPosition, RejectPosition
  <2>4. worker'[w].made = worker[w].made
    <3>1. CASE \E S \in (SUBSET Records) \ {{}} : Begin(w, S)
      BY <2>1, <3>1 DEF Begin, Session
    <3>2. CASE \E r \in Records : FindProduct(w, r)
      BY <2>1, <3>2 DEF FindProduct, Session
    <3>3. CASE \E r \in Records : RejectProduct(w, r)
      BY <2>1, <3>3 DEF RejectProduct, Session
    <3>4. CASE FindPosition(w)
      BY <2>1, <3>4 DEF FindPosition, Session
    <3>5. CASE RejectPosition(w)
      BY <2>1, <3>5 DEF RejectPosition, Session
    <3> QED
      BY <1>2, <3>1, <3>2, <3>3, <3>4, <3>5
  <2> QED
    BY <2>2, <2>3, <2>4
<1>3. ASSUME NEW w \in Workers, Flush(w)
      PROVE  BookInv'
  BY <1>3, FlushBook
<1>4. ASSUME NEW w \in Workers, CommitImport(w) \/ RollbackImport(w)
      PROVE  BookInv'
  BY <1>4, EndBook DEF CommitImport, RollbackImport
<1>5. CASE UNCHANGED vars
  BY <1>5, BookQuiet DEF vars
<1> QED
  BY <1>1, <1>2, <1>3, <1>4, <1>5, BookQuiet DEF Next

LEMMA BookInit == Init => BookInv
  BY IdleFacts DEF Init, BookInv, HeldMade, SourcesApart

LEMMA BookInvariance == Spec => []BookInv
<1>1. Init => BookInv
  BY BookInit
<1>2. IInv /\ BookInv /\ [Next]_vars => BookInv'
  BY BookStep
<1> QED
  BY <1>1, <1>2, Invariance, PTL DEF Spec

(* A source record is recorded by one snapshot, however many imports carry *)
(* it at once: the second waits for the first or finds its key.            *)
THEOREM RecordedOnce ==
  Spec => [](\A s, t \in snapshots : SourceKey(s.record) = SourceKey(t.record) => s = t)
<1>1. BookInv =>
         \A s, t \in snapshots : SourceKey(s.record) = SourceKey(t.record) => s = t
  BY DEF BookInv, SourcesApart
<1> QED
  BY <1>1, BookInvariance, PTL

---------------------------------------------------------------------------
(* What each step is for the readers of the book.                          *)
LEMMA StoreChanges ==
    ASSUME TableRight, NEW writes, Good(writes), Store(writes)
    PROVE  Book!Change(DOMAIN writes)
<1>1. PICK W : W = DOMAIN writes
  OBVIOUS
<1>2. /\ DOMAIN table' = Keys /\ DOMAIN history' = Keys /\ DOMAIN last' = Keys
      /\ W \subseteq Keys
  BY <1>1 DEF Store, Good
<1>3. stale \subseteq stale' /\ stale' \subseteq stale \union W
  BY <1>1 DEF Store
<1>4. \A k \in Keys \ W :
         table'[k] = table[k] /\ history'[k] = history[k] /\ last'[k] = last[k]
  BY <1>1 DEF Store
<1>5. \A k \in W : /\ table'[k] = writes[k].row
                   /\ history'[k] = history[k] \union {writes[k].row}
                   /\ last'[k] = {writes[k].asked}
                   /\ writes[k].stale => k \in stale'
  BY <1>1, <1>2 DEF Store
<1>6. \A k \in W : table'[k].version > 0 /\ history'[k] = history[k] \union {table'[k]}
  BY <1>1, <1>2, <1>5, RowFacts DEF Good, Exists
<1>7. ASSUME NEW k \in W \ stale'
      PROVE  table'[k].version > table[k].version /\ last'[k] = {table'[k].values}
  <2>1. ~writes[k].stale
    BY <1>5, <1>7
  <2> QED
    BY <1>1, <1>5, <1>7, <2>1 DEF Good
<1>8. Book!Change(W)
  BY <1>2, <1>3, <1>4, <1>6, <1>7 DEF Book!Change, Book!Fulfilled
<1> QED
  BY <1>1, <1>8

LEMMA CommitRequests ==
    ASSUME IInv, NEW h \in Handlers, Commit(h)
    PROVE  \E k \in Keys : Book!Request(k)
<1>1. PICK k \in Keys : \E writes :
        Good(writes) /\ DOMAIN writes = {k} /\ Store(writes)
  BY CommitGood
<1>2. PICK writes : Good(writes) /\ DOMAIN writes = {k} /\ Store(writes)
  BY <1>1
<1>3. Book!Change({k})
  BY <1>2, StoreChanges DEF IInv
<1> QED
  BY <1>3 DEF Book!Request, Commit

(* A repeated upsert asks for what the row is, unless it read an old one.  *)
LEMMA UnchangedRequests ==
    ASSUME IInv, NEW h \in Handlers, CommitUnchanged(h)
    PROVE  \E k \in Keys : Book!Request(k)
<1>1. PICK k \in Keys : \E read, values :
          /\ Unchanged(k, read, values) /\ values \in Values(k)
          /\ Exists(table[k])
          /\ last' = [last EXCEPT ![k] = {values}]
          /\ stale' = stale \union {i \in {k} : read # table[k]}
  BY UnchangedFacts
<1>2. PICK read, values :
          /\ Unchanged(k, read, values) /\ values \in Values(k)
          /\ Exists(table[k])
          /\ last' = [last EXCEPT ![k] = {values}]
          /\ stale' = stale \union {i \in {k} : read # table[k]}
  BY <1>1
<1>3. UNCHANGED <<table, snapshots, history>>
  BY DEF CommitUnchanged
<1>4. DOMAIN table = Keys /\ DOMAIN history = Keys /\ DOMAIN last = Keys
  BY DEF IInv, TableRight
<1>5. DOMAIN last' = Keys /\ last'[k] = {values} /\ \A i \in Keys \ {k} : last'[i] = last[i]
  BY <1>2, <1>4
<1>6. stale \subseteq stale' /\ stale' \subseteq stale \union {k}
  BY <1>2
<1>7. table[k].version > 0 /\ history[k] = history[k] \union {table[k]}
  BY <1>2 DEF Exists, IInv, TableRight
<1>8. k \notin stale' => last'[k] = {table[k].values}
  BY <1>2, <1>5 DEF Unchanged
<1>9. Book!Change({k})
  BY <1>3, <1>4, <1>5, <1>6, <1>7, <1>8 DEF Book!Change, Book!Fulfilled
<1> QED
  BY <1>3, <1>9 DEF Book!Request

(* An import records what it made together with what it holds.             *)
LEMMA CommitImports ==
    ASSUME IInv, BookInv, NEW w \in Workers, CommitImport(w)
    PROVE  Book!Import(snapshots' \ snapshots)
<1>1. PICK made : made = worker[w].made
  OBVIOUS
<1>2. PICK writes : writes = held[w]
  OBVIOUS
<1>3. Store(writes) /\ snapshots' = snapshots \union made
  BY <1>1, <1>2 DEF CommitImport
<1>4. Good(writes)
  BY <1>2 DEF IInv, HeldRight
<1>5. snapshots' \ snapshots = made
  BY <1>1, <1>3 DEF BookInv, SourcesApart
<1>6. /\ \A s \in made : Sourced(s) /\ Position(s) \in DOMAIN writes
      /\ \A k \in DOMAIN writes :
            \E s \in made : Position(s) = k /\ writes[k].asked = s.amounts
  BY <1>1, <1>2, SessionFacts DEF WorkerRight, BookInv, HeldMade
<1>7. {Position(s) : s \in made} = DOMAIN writes
  BY <1>6
<1>8. Book!Change({Book!Position(s) : s \in made})
  <2>1. Book!Change(DOMAIN writes)
    BY <1>3, <1>4, StoreChanges DEF IInv
  <2>2. {Book!Position(s) : s \in made} = DOMAIN writes
    BY <1>7 DEF Book!Position, Position
  <2> QED
    BY <2>1, <2>2
<1>9. ASSUME NEW s \in made
      PROVE  /\ Book!Named(s)
             /\ \A t \in snapshots' : Book!Source(t) = Book!Source(s) => t = s
             /\ \E t \in made : /\ Book!Position(t) = Book!Position(s)
                               /\ last'[Book!Position(s)] = {t.amounts}
  <2>1. Book!Named(s)
    BY <1>6, <1>9 DEF Book!Named, Sourced
  <2>2. \A t \in snapshots' : SourceKey(t.record) = SourceKey(s.record) => t = s
    BY <1>1, <1>3, <1>9 DEF BookInv, SourcesApart
  <2>3. PICK k : k = Position(s)
    OBVIOUS
  <2>4. k \in DOMAIN writes
    BY <1>6, <1>9, <2>3
  <2>5. PICK t \in made : Position(t) = k /\ writes[k].asked = t.amounts
    BY <1>6, <2>4
  <2>6. last'[k] = {t.amounts}
    BY <1>3, <1>4, <2>4, <2>5 DEF Store, Good
  <2> QED
    BY <2>1, <2>2, <2>3, <2>5, <2>6 DEF Book!Source, SourceKey, Book!Position, Position
<1>10. Book!Import(made)
  BY <1>3, <1>8, <1>9 DEF Book!Import
<1> QED
  BY <1>5, <1>10

LEMMA BookSteps ==
    ASSUME IInv, BookInv, [Next]_vars
    PROVE  Book!Next \/ UNCHANGED Book!vars
<1>1. ASSUME NEW h \in Handlers, CommitUnchanged(h) \/ Commit(h)
      PROVE  Book!Next
  BY <1>1, CommitRequests, UnchangedRequests DEF Book!Next
<1>2. ASSUME NEW w \in Workers, CommitImport(w)
      PROVE  Book!Next
  BY <1>2, CommitImports DEF Book!Next
<1>3. ASSUME NEW h \in Handlers,
             \/ \E k \in Keys : \E values \in Requests(k) : Read(h, k, values)
             \/ Rollback(h)
      PROVE  UNCHANGED Book!vars
  BY <1>3 DEF Read, Rollback, Book!vars
<1>4. ASSUME NEW w \in Workers,
             \/ \E S \in (SUBSET Records) \ {{}} : Begin(w, S)
             \/ \E r \in Records : FindProduct(w, r) \/ RejectProduct(w, r)
             \/ FindPosition(w) \/ RejectPosition(w) \/ Flush(w) \/ RollbackImport(w)
      PROVE  UNCHANGED Book!vars
  BY <1>4 DEF Begin, FindProduct, RejectProduct, FindPosition, RejectPosition, Flush,
              RollbackImport, Book!vars
<1>5. CASE UNCHANGED vars
  BY <1>5 DEF vars, Book!vars
<1> QED
  BY <1>1, <1>2, <1>3, <1>4, <1>5 DEF Next

(* For the readers of positions, mappings and snapshots the requests and   *)
(* the imports implement StockBook, with any number of them at once.       *)
THEOREM BookRefinement == Spec => ImplementsBook
<1>1. Init => Book!Init
  BY DEF Init, Book!Init, Absent
<1>2. IInv /\ BookInv /\ [Next]_vars => [Book!Next]_(Book!vars)
  BY BookSteps
<1> QED
  BY <1>1, <1>2, Invariance, BookInvariance, PTL DEF Spec, ImplementsBook, Book!Spec

---------------------------------------------------------------------------
(* Imports write no mapping, so with one request at a time no mapping is   *)
(* ever stale, whatever imports run: what an upsert read is current.       *)
UpsertsCurrent ==
    /\ Mappings \intersect stale = {}
    /\ \A h \in Handlers : handler[h].busy /\ handler[h].key \in Mappings =>
          handler[h].read = table[handler[h].key]

(* Every version of a mapping names one content, and the mapping is what   *)
(* its last upsert asked for.                                              *)
MappingsExact ==
    \A k \in Mappings :
        /\ \A row, other \in history[k] : row.version = other.version => row = other
        /\ Exists(table[k]) => table[k].values \in last[k]

LEMMA ImportsWritePositions ==
    ASSUME IInv, NEW w \in Workers, CommitImport(w)
    PROVE  /\ \A k \in Mappings : table'[k] = table[k]
           /\ stale' \intersect Mappings = stale \intersect Mappings
<1>1. Store(held[w]) /\ DOMAIN held[w] \subseteq Positions
  BY DEF CommitImport, IInv, HeldRight
<1>2. DOMAIN held[w] \intersect Mappings = {} /\ Mappings \subseteq Keys
  BY <1>1, KeysAssumption DEF Keys
<1> QED
  BY <1>1, <1>2 DEF Store

LEMMA UpsertsStep ==
    ASSUME \A g, h \in Handlers : g = h, IInv, UpsertsCurrent, [Next]_vars
    PROVE  UpsertsCurrent'
<1>1. DOMAIN handler = Handlers
  BY DEF IInv, HandlersRight
<1>2. ASSUME NEW h \in Handlers, NEW k \in Keys, NEW values \in Requests(k),
             Read(h, k, values)
      PROVE  UpsertsCurrent'
  BY <1>1, <1>2 DEF Read, UpsertsCurrent
<1>3. ASSUME NEW h \in Handlers, CommitUnchanged(h) \/ Commit(h) \/ Rollback(h)
      PROVE  UpsertsCurrent'
  <2>1. \A g \in Handlers : ~handler'[g].busy
    BY <1>1, <1>3, IdleFacts DEF CommitUnchanged, Commit, Rollback
  <2>2. handler[h].busy /\ (handler[h].key \in Mappings => handler[h].read = table[handler[h].key])
    BY <1>3 DEF CommitUnchanged, Commit, Rollback, UpsertsCurrent
  <2>3. stale' \subseteq stale \union {k \in {handler[h].key} : handler[h].read # table[k]}
    <3>1. CASE CommitUnchanged(h)
      BY <3>1 DEF CommitUnchanged
    <3>2. CASE Commit(h)
      <4>1. PICK k \in {handler[h].key}, read \in {handler[h].read},
                 values \in {handler[h].values} :
              Store([i \in {k} |-> [row |-> Write(read, table[k], values),
                                    asked |-> values, stale |-> read # table[k]]])
        BY <3>2 DEF Commit
      <4>2. PICK row : row = Write(read, table[k], values)
        OBVIOUS
      <4>3. PICK writes : writes = [i \in {k} |-> [row |-> row, asked |-> values,
                                                   stale |-> read # table[k]]]
        OBVIOUS
      <4>4. Store(writes)
        BY <4>1, <4>2, <4>3
      <4>5. stale' = stale \union {i \in DOMAIN writes : writes[i].stale}
        BY <4>4 DEF Store
      <4>6. DOMAIN writes = {k} /\ writes[k].stale = (read # table[k])
        BY <4>3
      <4> QED
        BY <4>5, <4>6
    <3>3. CASE Rollback(h)
      BY <3>3 DEF Rollback
    <3> QED
      BY <1>3, <3>1, <3>2, <3>3
  <2> QED
    BY <2>1, <2>2, <2>3 DEF UpsertsCurrent
<1>4. ASSUME NEW w \in Workers, CommitImport(w)
      PROVE  UpsertsCurrent'
  BY <1>4, ImportsWritePositions DEF CommitImport, UpsertsCurrent
<1>5. CASE UNCHANGED <<table, handler, stale>>
  BY <1>5 DEF UpsertsCurrent
<1>6. ASSUME NEW w \in Workers,
             \/ \E S \in (SUBSET Records) \ {{}} : Begin(w, S)
             \/ \E r \in Records : FindProduct(w, r) \/ RejectProduct(w, r)
             \/ FindPosition(w) \/ RejectPosition(w) \/ Flush(w) \/ RollbackImport(w)
      PROVE  UNCHANGED <<table, handler, stale>>
  BY <1>6 DEF Begin, FindProduct, RejectProduct, FindPosition, RejectPosition, Flush,
              RollbackImport
<1>7. UNCHANGED vars => UNCHANGED <<table, handler, stale>>
  BY DEF vars
<1> QED
  BY <1>2, <1>3, <1>4, <1>5, <1>6, <1>7 DEF Next

(* With one request at a time, the version a snapshot names is that of     *)
(* one content of its mapping for good, whatever imports run beside it.    *)
THEOREM SerialUpserts ==
  ASSUME \A g, h \in Handlers : g = h
  PROVE  Spec => []MappingsExact
<1>1. Init => UpsertsCurrent
  BY IdleFacts DEF Init, UpsertsCurrent
<1>2. IInv /\ UpsertsCurrent /\ [Next]_vars => UpsertsCurrent'
  BY UpsertsStep
<1>3. IInv /\ UpsertsCurrent => MappingsExact
  BY DEF IInv, TableRight, UpsertsCurrent, MappingsExact, VersionsIdentify, WritesKept, Keys
<1> QED
  BY <1>1, <1>2, <1>3, Invariance, PTL DEF Spec
=============================================================================
