----------------------------- MODULE MCInventory -----------------------------
(* Small instances of Inventory.                                           *)
EXTENDS Inventory, TLC

CONSTANTS s1, l1, n1, n2, p1, w1

(* Two snapshots of one partner name; the second fits one unit only.       *)
SomeRecords ==
    {[reference |-> n1, sku |-> s1, location |-> l1,
      amounts |-> [on_hand |-> 1, reserved |-> 0], units |-> Units],
     [reference |-> n2, sku |-> s1, location |-> l1,
      amounts |-> [on_hand |-> 1, reserved |-> 1], units |-> {1}]}

(* The mapping may change its unit, and be switched off.                   *)
SomeProductSettings ==
    {[target |-> p1, unit |-> 1, active |-> TRUE],
     [target |-> p1, unit |-> 2, active |-> TRUE],
     [target |-> p1, unit |-> 2, active |-> FALSE]}

SomeWarehouseSettings == {[target |-> w1, active |-> TRUE]}

SomeQuantities == {[on_hand |-> 1, reserved |-> 1]}

Symmetric == Permutations(Handlers)
=============================================================================
