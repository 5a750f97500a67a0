------------------------------ MODULE Inventory ------------------------------
(***************************************************************************)
(* Inventory positions, the mappings of partner names to products and      *)
(* warehouses, and the snapshots imports record: set_inventory             *)
(* (application/services.py), the two upserts and                          *)
(* _validate_and_apply_record (application/integration_services.py).       *)
(*                                                                         *)
(* Every handler reads a row without a lock and writes it later.  The      *)
(* UPDATE names the columns that differ from the row that was read, and    *)
(* sets version to the version that was read plus one.  An import writes   *)
(* its positions in one transaction, which locks them until it ends.       *)
(*                                                                         *)
(* History, last and stale are auxiliary: nothing depends on them.         *)
(***************************************************************************)
EXTENDS Naturals

CONSTANTS
    Skus,          \* partner names of products
    Locations,     \* partner names of warehouses
    Products,
    Warehouses,
    Units,         \* base units in a partner's unit
    References,    \* names of partner snapshots
    Records,       \* records that imports may contain
    ProductSettings, WarehouseSettings, Quantities,    \* what requests may ask for
    Handlers,      \* requests in progress
    Workers,       \* imports in progress
    LastVersion    \* highest version (bound for model checking)

Positions == Warehouses \X Products
Mappings  == Skus \union Locations
Keys      == Mappings \union Positions

Amounts == [on_hand : Nat, reserved : Nat]
Record  == [reference : References, sku : Skus, location : Locations,
            amounts : Amounts, units : SUBSET Units]

ASSUME UnitsAssumption == Units \subseteq Nat
ASSUME RecordsAssumption == Records \subseteq Record
ASSUME KeysAssumption == Skus \intersect Locations = {} /\ Mappings \intersect Positions = {}

VARIABLES
    table,       \* the row of each key
    snapshots,   \* rows of inventory_snapshots
    handler,     \* what a request has read and is to write
    worker,      \* what the session of an import has read
    held,        \* positions that an import has written and not committed
    history,     \* rows that were ever committed
    last,        \* what the last writer of each row asked for
    stale        \* keys whose writer ever started from a row that had changed

vars == <<table, snapshots, handler, worker, held, history, last, stale>>

ProductValues   == [target : Products, unit : Units, active : BOOLEAN]
WarehouseValues == [target : Warehouses, active : BOOLEAN]

ASSUME RequestsAssumption ==
    /\ ProductSettings \subseteq ProductValues
    /\ WarehouseSettings \subseteq WarehouseValues
    /\ Quantities \subseteq Amounts

(* The columns of a row, but for its version.                              *)
Values(k) ==
    IF k \in Skus THEN ProductValues
    ELSE IF k \in Locations THEN WarehouseValues ELSE Amounts

Requests(k) ==
    IF k \in Skus THEN ProductSettings
    ELSE IF k \in Locations THEN WarehouseSettings ELSE Quantities

RowsOf(values) == [values : values, version : Nat \ {0}]
Rows(k)        == RowsOf(Values(k))

Absent      == [version |-> 0]
Exists(row) == row.version > 0

Snapshot == [record : Records, product : Products, warehouse : Warehouses,
             unit : Units, product_version : Nat, warehouse_version : Nat, amounts : Amounts]

IdleHandler == [busy |-> FALSE]
IdleWorker  == [stage |-> "idle", todo |-> {}, seen |-> {}, record |-> {}, product |-> Absent,
                draft |-> {}, read |-> Absent, made |-> {}]
NothingHeld == [k \in {} |-> Absent]

Init ==
    /\ table = [k \in Keys |-> Absent]
    /\ snapshots = {}
    /\ handler = [h \in Handlers |-> IdleHandler]
    /\ worker = [w \in Workers |-> IdleWorker]
    /\ held = [w \in Workers |-> NothingHeld]
    /\ history = [k \in Keys |-> {}]
    /\ last = [k \in Keys |-> {}]
    /\ stale = {}

---------------------------------------------------------------------------
(* The columns that differ from those read, and the others as they are.    *)
Update(current, read, values) ==
    [c \in DOMAIN values |-> IF values[c] # read[c] THEN values[c] ELSE current[c]]

(* An INSERT that meets a row fails.                                       *)
MayWrite(read, current) ==
    /\ Exists(read) \/ ~Exists(current)
    /\ read.version < LastVersion

BugWriteUnversioned(read, current, values) ==
    IF Exists(read)
    THEN [values |-> Update(current.values, read.values, values), version |-> read.version]
    ELSE [values |-> values, version |-> 1]

BugWriteUnnumbered(read, current, values) ==
    IF Exists(read)
    THEN [values |-> Update(current.values, read.values, values), version |-> read.version + 1]
    ELSE [values |-> values, version |-> 0]

Write(read, current, values) ==
    IF Exists(read)
    THEN [values |-> Update(current.values, read.values, values), version |-> read.version + 1]
    ELSE [values |-> values, version |-> 1]

(* Commits writes, a function from keys to new rows.                       *)
Store(writes) ==
    /\ table' = [k \in Keys |-> IF k \in DOMAIN writes THEN writes[k].row ELSE table[k]]
    /\ history' = [k \in Keys |->
          history[k] \union (IF k \in DOMAIN writes THEN {writes[k].row} ELSE {})]
    /\ last' = [k \in Keys |-> IF k \in DOMAIN writes THEN {writes[k].asked} ELSE last[k]]
    /\ stale' = stale \union {k \in DOMAIN writes : writes[k].stale}

Locked(k, w) == \E v \in Workers \ {w} : k \in DOMAIN held[v]

---------------------------------------------------------------------------
(* Requests: upsert_product_mapping, upsert_warehouse_mapping and          *)
(* set_inventory.                                                          *)
Read(h, k, values) ==
    /\ ~handler[h].busy
    /\ handler' = [handler EXCEPT ![h] =
          [busy |-> TRUE, key |-> k, read |-> table[k], values |-> values]]
    /\ UNCHANGED <<table, snapshots, worker, held, history, last, stale>>

(* An upsert of what the mapping already says writes nothing.              *)
BugUnchanged(k, read, values) ==
    k \in Mappings /\ Exists(read) /\ read.values.target = values.target

Unchanged(k, read, values) == k \in Mappings /\ Exists(read) /\ read.values = values

CommitUnchanged(h) ==
    /\ handler[h].busy
    /\ \E k \in {handler[h].key}, read \in {handler[h].read}, values \in {handler[h].values} :
          /\ Unchanged(k, read, values)
          /\ last' = [last EXCEPT ![k] = {values}]
          /\ stale' = stale \union {i \in {k} : read # table[k]}
    /\ handler' = [handler EXCEPT ![h] = IdleHandler]
    /\ UNCHANGED <<table, snapshots, worker, held, history>>

Commit(h) ==
    /\ handler[h].busy
    /\ \E k \in {handler[h].key}, read \in {handler[h].read}, values \in {handler[h].values} :
          /\ ~Unchanged(k, read, values)
          /\ \A w \in Workers : k \notin DOMAIN held[w]
          /\ MayWrite(read, table[k])
          /\ Store([i \in {k} |-> [row |-> Write(read, table[k], values),
                                   asked |-> values, stale |-> read # table[k]]])
    /\ handler' = [handler EXCEPT ![h] = IdleHandler]
    /\ UNCHANGED <<snapshots, worker, held>>

(* The unique key refuses an INSERT, or the request fails or dies.         *)
Rollback(h) ==
    /\ handler[h].busy
    /\ handler' = [handler EXCEPT ![h] = IdleHandler]
    /\ UNCHANGED <<table, snapshots, worker, held, history, last, stale>>

---------------------------------------------------------------------------
(* Imports.                                                                *)
SourceKey(r) == <<r.reference, r.sku, r.location>>

Usable(row) == Exists(row) /\ row.values.active

Duplicate(w, r) ==
    \/ SourceKey(r) \in worker[w].seen
    \/ \E s \in snapshots : SourceKey(s.record) = SourceKey(r)

(* The session reads its own writes.                                       *)
Own(w, k) == IF k \in DOMAIN held[w] THEN held[w][k].row ELSE table[k]

Begin(w, S) ==
    /\ worker[w].stage = "idle"
    /\ worker' = [worker EXCEPT ![w].stage = "next", ![w].todo = S]
    /\ UNCHANGED <<table, snapshots, handler, held, history, last, stale>>

(* The next record is not a duplicate, and its product mapping is active.  *)
FindProduct(w, r) ==
    /\ worker[w].stage = "next" /\ r \in worker[w].todo
    /\ ~Duplicate(w, r) /\ Usable(table[r.sku])
    /\ worker' = [worker EXCEPT
          ![w].stage = "product", ![w].todo = @ \ {r}, ![w].seen = @ \union {SourceKey(r)},
          ![w].record = {r}, ![w].product = table[r.sku]]
    /\ UNCHANGED <<table, snapshots, handler, held, history, last, stale>>

RejectProduct(w, r) ==
    /\ worker[w].stage = "next" /\ r \in worker[w].todo
    /\ Duplicate(w, r) \/ ~Usable(table[r.sku])
    /\ worker' = [worker EXCEPT
          ![w].todo = @ \ {r}, ![w].seen = @ \union {SourceKey(r)}]
    /\ UNCHANGED <<table, snapshots, handler, held, history, last, stale>>

Matches(r, product, location) == Usable(location) /\ product.values.unit \in r.units

BugDraft(r, product, location) ==
    LET unit == product.values.unit
    IN  [record |-> r, product |-> product.values.target,
         warehouse |-> location.values.target, unit |-> unit,
         product_version |-> table[r.sku].version, warehouse_version |-> location.version,
         amounts |-> [on_hand |-> r.amounts.on_hand * unit,
                      reserved |-> r.amounts.reserved * unit]]

Draft(r, product, location) ==
    LET unit == product.values.unit
    IN  [record |-> r, product |-> product.values.target,
         warehouse |-> location.values.target, unit |-> unit,
         product_version |-> product.version, warehouse_version |-> location.version,
         amounts |-> [on_hand |-> r.amounts.on_hand * unit,
                      reserved |-> r.amounts.reserved * unit]]

Position(s) == <<s.warehouse, s.product>>

FindPosition(w) ==
    /\ worker[w].stage = "product"
    /\ \E r \in worker[w].record :
          LET location == table[r.location]
              s == Draft(r, worker[w].product, location)
          IN  /\ Matches(r, worker[w].product, location)
              /\ worker' = [worker EXCEPT
                    ![w].stage = "position", ![w].record = {}, ![w].product = Absent,
                    ![w].draft = {s}, ![w].read = Own(w, Position(s))]
    /\ UNCHANGED <<table, snapshots, handler, held, history, last, stale>>

RejectPosition(w) ==
    /\ worker[w].stage = "product"
    /\ \E r \in worker[w].record : ~Matches(r, worker[w].product, table[r.location])
    /\ worker' = [worker EXCEPT
          ![w].stage = "next", ![w].record = {}, ![w].product = Absent]
    /\ UNCHANGED <<table, snapshots, handler, held, history, last, stale>>

(* The flush waits for a lock or an uncommitted key, and fails on a        *)
(* committed one.                                                          *)
Flush(w) ==
    /\ worker[w].stage = "position"
    /\ \E s \in worker[w].draft :
          LET k == Position(s)
              read == worker[w].read
          IN  /\ ~Locked(k, w)
              /\ \A v \in Workers : \A t \in worker[v].made \union snapshots :
                    SourceKey(t.record) # SourceKey(s.record)
              /\ MayWrite(read, Own(w, k))
              /\ worker' = [worker EXCEPT
                    ![w].stage = "next", ![w].draft = {}, ![w].read = Absent,
                    ![w].made = @ \union {s}]
              /\ held' = [held EXCEPT ![w] = [i \in DOMAIN held[w] \union {k} |->
                    IF i # k THEN held[w][i]
                    ELSE [row |-> Write(read, Own(w, k), s.amounts), asked |-> s.amounts,
                          stale |-> IF k \in DOMAIN held[w] THEN held[w][k].stale
                                    ELSE read # table[k]]]]
    /\ UNCHANGED <<table, snapshots, handler, history, last, stale>>

CommitImport(w) ==
    /\ worker[w].stage = "next" /\ worker[w].todo = {}
    /\ Store(held[w])
    /\ snapshots' = snapshots \union worker[w].made
    /\ worker' = [worker EXCEPT ![w] = IdleWorker]
    /\ held' = [held EXCEPT ![w] = NothingHeld]
    /\ UNCHANGED handler

(* A conflict, a database deadlock, a lost connection, the death of the    *)
(* worker.                                                                 *)
RollbackImport(w) ==
    /\ worker[w].stage # "idle"
    /\ worker' = [worker EXCEPT ![w] = IdleWorker]
    /\ held' = [held EXCEPT ![w] = NothingHeld]
    /\ UNCHANGED <<table, snapshots, handler, history, last, stale>>

Next ==
    \/ \E h \in Handlers :
          \/ \E k \in Keys : \E values \in Requests(k) : Read(h, k, values)
          \/ CommitUnchanged(h) \/ Commit(h) \/ Rollback(h)
    \/ \E w \in Workers :
          \/ \E S \in (SUBSET Records) \ {{}} : Begin(w, S)
          \/ \E r \in Records : FindProduct(w, r) \/ RejectProduct(w, r)
          \/ FindPosition(w) \/ RejectPosition(w) \/ Flush(w)
          \/ CommitImport(w) \/ RollbackImport(w)

Spec == Init /\ [][Next]_vars

---------------------------------------------------------------------------
Held == [row : RowsOf(Amounts), asked : Amounts, stale : BOOLEAN]

(* Rows, requests, imports and snapshots keep their types.                 *)
TypeOK ==
    /\ DOMAIN table = Keys /\ \A k \in Keys : table[k] \in Rows(k) \union {Absent}
    /\ snapshots \subseteq Snapshot
    /\ DOMAIN handler = Handlers
    /\ \A h \in Handlers : handler[h].busy =>
          \E k \in Keys : handler[h] \in
              [busy : {TRUE}, key : {k}, read : Rows(k) \union {Absent}, values : Requests(k)]
    /\ worker \in [Workers ->
          [stage : {"idle", "next", "product", "position"}, todo : SUBSET Records,
           seen : SUBSET (References \X Skus \X Locations), record : SUBSET Records,
           product : RowsOf(ProductValues) \union {Absent},
           draft : SUBSET Snapshot, read : RowsOf(Amounts) \union {Absent},
           made : SUBSET Snapshot]]
    /\ DOMAIN held = Workers
    /\ \A w \in Workers :
          DOMAIN held[w] \subseteq Positions /\ \A k \in DOMAIN held[w] : held[w][k] \in Held
    /\ DOMAIN history = Keys /\ \A k \in Keys : history[k] \subseteq Rows(k)
    /\ DOMAIN last = Keys /\ \A k \in Keys : last[k] \subseteq Values(k)
    /\ stale \subseteq Keys

(* The mappings a snapshot names were committed as it names them.          *)
Sourced(s) ==
    /\ \E row \in history[s.record.sku] :
          /\ row.version = s.product_version /\ row.values.active
          /\ row.values.target = s.product /\ row.values.unit = s.unit
    /\ \E row \in history[s.record.location] :
          /\ row.version = s.warehouse_version /\ row.values.active
          /\ row.values.target = s.warehouse

(* Every snapshot was made with mappings that were active and committed     *)
(* with the versions and targets it names, whoever changed them meanwhile,  *)
(* and the position it was written to exists.                               *)
SnapshotProvenance ==
    \A s \in snapshots : Sourced(s) /\ Exists(table[Position(s)])

(* A version names one content of a row, as long as no writer of the row   *)
(* started from one that was no longer current.                            *)
VersionsIdentify ==
    \A k \in Keys \ stale : \A row, other \in history[k] :
        row.version = other.version => row = other

(* Under the same condition a row holds all of what the last request or    *)
(* import that succeeded asked for: nothing is lost or mixed with another. *)
WritesKept ==
    \A k \in Keys \ stale : Exists(table[k]) => table[k].values \in last[k]

(* A request or an import ends that started from a row which had changed    *)
(* since it was read.                                                      *)
EndsOutdated(k) ==
    \/ \E h \in Handlers :
          /\ handler[h].busy /\ handler[h].key = k /\ handler[h].read # table[k]
          /\ Commit(h) \/ CommitUnchanged(h)
    \/ \E w \in Workers : k \in DOMAIN held[w] /\ held[w][k].stale /\ CommitImport(w)

Between(row, asked, old) == \A c \in DOMAIN asked : row.values[c] \in {asked[c], old.values[c]}

(* A row changes to a newer version that is what was asked for; or the      *)
(* writer is outdated, and leaves each column as it asked or as it was.    *)
WritesWhole ==
    \A k \in Keys :
        \/ UNCHANGED <<table[k], last[k]>>
        \/ /\ last'[k] = {table'[k].values}
           /\ table'[k] # table[k] => table'[k].version > table[k].version
        \/ /\ EndsOutdated(k)
           /\ \A asked \in last'[k] : Between(table'[k], asked, table[k])

(* Whatever races there were before, every request and import that was not  *)
(* itself overtaken leaves exactly what it was asked for, under a higher    *)
(* version.  Only one that was overtaken between its read and its commit   *)
(* mixes its columns with another's, drops them as already there, or sets  *)
(* the version back; and not even that one leaves a value nobody gave.     *)
OnlyOvertakenWritesMix == [][WritesWhole]_vars

(* What readers of the tables see of them.                                 *)
Book == INSTANCE StockBook WITH row <- table, past <- history, asked <- last, mixed <- stale

(* Every commit of a request or an import changes rows and snapshots as    *)
(* StockBook says: versions rise and writes are whole but for writers that *)
(* overwrite what they never read, snapshots come with their positions and *)
(* only once, and they name mapping versions of the past.                  *)
ImplementsBook == Book!Spec
=============================================================================
