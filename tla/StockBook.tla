------------------------------ MODULE StockBook ------------------------------
(***************************************************************************)
(* What readers of positions, mappings and snapshots may rely on, however   *)
(* many requests and imports write them: a change of a row raises its       *)
(* version and leaves exactly what was asked for; an import records its     *)
(* snapshots in the same step as the positions they were written to, each   *)
(* source record once, and from mapping versions that are part of the past; *)
(* and nothing is deleted.  A writer that overwrites a change it never read *)
(* leaves a mixed row, of which only the last promises hold.  No lookup,    *)
(* flush, lock, rejected record or rollback is visible here.                *)
(***************************************************************************)
EXTENDS Naturals

CONSTANTS Keys

VARIABLES
    row,        \* the current row of each key, of version 0 if there is none
    past,       \* the rows each key ever had
    asked,      \* what the last writer of each key asked for
    snapshots,  \* what imports recorded
    mixed       \* keys with a writer that overwrote a change it never read

vars == <<row, past, asked, snapshots, mixed>>

Init ==
    /\ row = [k \in Keys |-> [version |-> 0]]
    /\ past = [k \in Keys |-> {}]
    /\ asked = [k \in Keys |-> {}]
    /\ snapshots = {}
    /\ mixed = {}

Position(s) == <<s.warehouse, s.product>>
Source(s)   == <<s.record.reference, s.record.sku, s.record.location>>

(* The row is what was asked for: a new version, unless it already was.     *)
Fulfilled(k) ==
    /\ row'[k] = row[k] \/ row'[k].version > row[k].version
    /\ asked'[k] = {row'[k].values}

(* One transaction writes the rows of the keys W.                           *)
Change(W) ==
    /\ DOMAIN row' = Keys /\ DOMAIN past' = Keys /\ DOMAIN asked' = Keys
    /\ mixed \subseteq mixed' /\ mixed' \subseteq mixed \union W
    /\ \A k \in Keys \ W : row'[k] = row[k] /\ past'[k] = past[k] /\ asked'[k] = asked[k]
    /\ \A k \in W : row'[k].version > 0 /\ past'[k] = past[k] \union {row'[k]}
    /\ \A k \in W \ mixed' : Fulfilled(k)

Request(k) == Change({k}) /\ UNCHANGED snapshots

Named(s) ==
    /\ \E p \in past[s.record.sku] :
          /\ p.version = s.product_version /\ p.values.active
          /\ p.values.target = s.product /\ p.values.unit = s.unit
    /\ \E p \in past[s.record.location] :
          /\ p.version = s.warehouse_version /\ p.values.active
          /\ p.values.target = s.warehouse

(* Each position gets the quantities of one of the snapshots written to it. *)
Import(made) ==
    /\ Change({Position(s) : s \in made})
    /\ snapshots' = snapshots \union made
    /\ \A s \in made :
          /\ Named(s)
          /\ \A t \in snapshots' : Source(t) = Source(s) => t = s
          /\ \E t \in made :
                Position(t) = Position(s) /\ asked'[Position(s)] = {t.amounts}

Next == (\E k \in Keys : Request(k)) \/ Import(snapshots' \ snapshots)

Spec == Init /\ [][Next]_vars
=============================================================================
