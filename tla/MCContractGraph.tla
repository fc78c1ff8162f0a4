--------------------------- MODULE MCContractGraph ---------------------------
(* Instances of ContractGraph for TLC: one delivery, two versions of the     *)
(* baseline and of the product record, and deliveries that meet every check. *)
EXTENDS ContractGraph, TLC

MCBaselines == {[product_id |-> "p", revision |-> r, text |-> r] : r \in 1 .. 2}

Product(scenarios, body) ==
  [product_id |-> "p", revision |-> 1, scenarios |-> scenarios, body |-> body]
Old == Product({"s1"}, 1)
New == Product({"s1", "s2"}, 2)   \* a new text under the old revision
MCRecords == {Old, New}

Ref(path, content) == [path |-> path, product_id |-> "p", revision |-> 1, digest |-> content]

Item(section, action, refs, text) ==
  [section |-> section, id |-> "i", action |-> action, refs |-> refs, text |-> text,
   valid |-> TRUE]
Add == Item("delta_operations", "add", {"s1"}, 1)
AddOther == Item("delta_operations", "add", {"s2"}, 2)
Delete == Item("delta_operations", "delete", {}, 1)
Check == Item("verification", "none", {}, 1)

Delivery(base, refs, items) ==
  [valid |-> TRUE, delivery_id |-> "d", base_revision |-> base,
   owner_refs |-> refs, items |-> items]

MCDeliveries ==
  { Delivery(1, <<Ref("main", Old)>>, <<Add, Check>>),
    Delivery(1, <<Ref("main", Old)>>, <<Check, Add, Add>>),
    Delivery(2, <<Ref("main", Old)>>, <<Add, Check>>),
    Delivery(1, <<Ref("main", New)>>, <<AddOther, Check>>),
    Delivery(1, <<Ref("main", New)>>, <<Add, AddOther>>),
    Delivery(1, <<Ref("main", Old), Ref("copy", Old)>>, <<Add>>),
    Delivery(1, <<Ref("main", Old)>>, <<AddOther>>),
    Delivery(1, <<Ref("generated", Old)>>, <<Add>>),
    Delivery(1, <<Ref("main", Old)>>, <<Delete>>),
    [Delivery(1, <<>>, <<Check>>) EXCEPT !.delivery_id = "other"],
    [Delivery(1, <<>>, <<Check>>) EXCEPT !.valid = FALSE],
    Delivery(1, <<>>, <<[Check EXCEPT !.valid = FALSE]>>) }

MCBindings == {[plan |-> 1], [plan |-> 2], [plan |-> 1, release |-> 1]}
=============================================================================
