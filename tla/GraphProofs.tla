----------------------------- MODULE GraphProofs -----------------------------
(***************************************************************************)
(* Theorems about resolution and approval, for any files, any edits and    *)
(* any number of product records and items.                                *)
(***************************************************************************)
EXTENDS ContractGraph, TLAPS

\* The part of a contract that the documents read so far explain.
ExplainedSoFar(r) ==
  {BaselineNode(r.baseline)}
    \cup (UNION {OwnerNodes(r.delivery.owner_refs[i], r.read[i], r.id) : i \in 1 .. Len(r.read)})
    \cup {ItemNode(r.delivery.items[i], r.id) : i \in 1 .. r.added}

\* The documents belong together: the delivery names this baseline and these
\* texts of the product records.
Bound(c) ==
  /\ c.baseline \in Baselines /\ c.delivery \in Deliveries
  /\ c.delivery.delivery_id = c.id
  /\ c.delivery.base_revision = c.baseline.revision
  /\ c.read \in Seq(Records)
  /\ \A i \in 1 .. Len(c.read) : c.read[i] = c.delivery.owner_refs[i].digest

Complete(c) ==
  /\ Bound(c)
  /\ Len(c.read) = Len(c.delivery.owner_refs)
  /\ c.nodes = Explained(c)
  /\ ~Conflicting(c.nodes)

ResolverInv ==
  resolver.step = "nodes" =>
    /\ Bound(resolver)
    /\ resolver.nodes = ExplainedSoFar(resolver)
    /\ ~Conflicting(resolver.nodes)

EffectiveInv == effective # NoContract => Complete(effective)

ApprovalInv ==
  approval # NoApproval =>
    /\ effective # NoContract
    /\ Complete(approval.given)
    /\ approval.bound.effective_contract = Digest(approval.given.nodes)
    /\ approval.bound.others \in Bindings

GraphInv == GraphTypeOK /\ ResolverInv /\ EffectiveInv /\ ApprovalInv /\ TracesOfLastContract

-----------------------------------------------------------------------------
(* Deliveries are finite lists. *)

\* A delivery lists its owner references and its items by position.
LEMMA ListsOfDelivery ==
  ASSUME NEW delivery \in Deliveries
  PROVE  /\ Len(delivery.owner_refs) \in Nat
         /\ DOMAIN delivery.owner_refs = 1 .. Len(delivery.owner_refs)
         /\ Len(delivery.items) \in Nat
         /\ DOMAIN delivery.items = 1 .. Len(delivery.items)
         /\ \A i \in 1 .. Len(delivery.owner_refs) : delivery.owner_refs[i].path \in Paths
         /\ \A i \in 1 .. Len(delivery.items) : delivery.items[i].section \in Sections
BY GraphConstants

-----------------------------------------------------------------------------
(* The invariant. *)

\* Nothing is resolved, traced or approved at first.
LEMMA GraphInitInv == GraphInit => GraphInv
<1> SUFFICES ASSUME GraphInit PROVE GraphInv
  OBVIOUS
<1>1. resolver.step = "none"
  BY DEF GraphInit, None
<1>2. GraphTypeOK
  BY <1>1, GraphConstants DEF GraphInit, GraphTypeOK
<1>3. ResolverInv
  BY <1>1 DEF ResolverInv
<1>4. EffectiveInv /\ ApprovalInv /\ TracesOfLastContract
  BY DEF GraphInit, EffectiveInv, ApprovalInv, TracesOfLastContract
<1> QED BY <1>2, <1>3, <1>4 DEF GraphInv

\* What only a call of resolve() touches, and what it leaves alone.
LEMMA GivingUp ==
  ASSUME GraphInv, resolver' = None,
         UNCHANGED <<files, effective, traces, approval, binding, edits>>
  PROVE  GraphInv'
BY DEF GraphInv, GraphTypeOK, ResolverInv, EffectiveInv, ApprovalInv, TracesOfLastContract,
       None, files, Complete, Bound, Explained

\* A resolution that goes on with more nodes keeps the rest of the invariant.
LEMMA GoingOn ==
  ASSUME GraphInv, NEW delivery \in Deliveries, NEW read \in Seq(Records), NEW added \in Nat,
         NEW nodes,
         resolver.step \in {"delivery", "nodes"},
         Len(read) <= Len(delivery.owner_refs), added <= Len(delivery.items),
         delivery.delivery_id = resolver.id,
         delivery.base_revision = resolver.baseline.revision,
         \A i \in 1 .. Len(read) : read[i] = delivery.owner_refs[i].digest,
         nodes = ExplainedSoFar(Gathered(delivery, read, added, nodes)), ~Conflicting(nodes),
         resolver' = Gathered(delivery, read, added, nodes),
         UNCHANGED <<files, effective, traces, approval, binding, edits>>
  PROVE  GraphInv'
<1>1. GraphTypeOK'
  BY ListsOfDelivery DEF GraphInv, GraphTypeOK, Gathered, files, None
<1>2. ResolverInv'
  <2>1. Bound(resolver')
    BY DEF GraphInv, GraphTypeOK, Gathered, Bound, None
  <2>2. resolver'.nodes = nodes
    BY DEF Gathered
  <2> QED BY <2>1, <2>2 DEF ResolverInv, Bound, ExplainedSoFar
<1>3. (EffectiveInv /\ ApprovalInv /\ TracesOfLastContract)'
  BY DEF GraphInv, EffectiveInv, ApprovalInv, TracesOfLastContract, Complete, Bound, Explained
<1> QED BY <1>1, <1>2, <1>3 DEF GraphInv

\* The baseline is read, or the call gives up.
LEMMA ResolveStep ==
  ASSUME GraphInv, NEW id \in DeliveryIds, Resolve(id)
  PROVE  GraphInv'
<1>1. CASE resolver' = None
  BY <1>1, GivingUp DEF Resolve
<1>2. CASE BaselineLoads /\ resolver' = [step |-> "delivery", id |-> id, baseline |-> baseline]
  <2>1. GraphTypeOK'
    BY <1>2 DEF Resolve, GraphInv, GraphTypeOK, BaselineLoads, files
  <2>2. ResolverInv'
    BY <1>2 DEF ResolverInv
  <2>3. (EffectiveInv /\ ApprovalInv /\ TracesOfLastContract)'
    BY DEF Resolve, GraphInv, EffectiveInv, ApprovalInv, TracesOfLastContract, Complete,
           Bound, Explained
  <2> QED BY <2>1, <2>2, <2>3 DEF GraphInv
<1> QED BY <1>1, <1>2 DEF Resolve

\* The delivery contract is read, or the call gives up.
LEMMA ReadDeliveryStep ==
  ASSUME GraphInv, ReadDelivery
  PROVE  GraphInv'
<1> DEFINE delivery == contract[resolver.id]
           nodes == {BaselineNode(resolver.baseline)}
           read == <<>>
           added == 0
<1>1. CASE resolver' = None
  BY <1>1, GivingUp DEF ReadDelivery
<1>2. CASE /\ delivery # NoFile /\ BoundToBaseline(delivery) /\ delivery.delivery_id = resolver.id
           /\ resolver' = Gathered(delivery, read, added, nodes)
  <2>1. delivery \in Deliveries
    BY <1>2 DEF ReadDelivery, GraphInv, GraphTypeOK, None
  <2>2. nodes = ExplainedSoFar(Gathered(delivery, read, added, nodes))
    BY DEF ExplainedSoFar, Gathered
  <2>3. ~Conflicting(nodes)
    BY DEF Conflicting
  <2>4. /\ read \in Seq(Records) /\ added \in Nat
        /\ Len(read) <= Len(delivery.owner_refs) /\ added <= Len(delivery.items)
        /\ \A i \in 1 .. Len(read) : read[i] = delivery.owner_refs[i].digest
    BY <2>1, ListsOfDelivery
  <2>5. /\ delivery.delivery_id = resolver.id
        /\ delivery.base_revision = resolver.baseline.revision
        /\ resolver' = Gathered(delivery, read, added, nodes)
    BY <1>2 DEF BoundToBaseline
  <2>6. /\ resolver.step \in {"delivery", "nodes"}
        /\ UNCHANGED <<files, effective, traces, approval, binding, edits>>
    BY DEF ReadDelivery
  <2> HIDE DEF delivery, nodes, read, added
  <2> QED BY <2>1, <2>2, <2>3, <2>4, <2>5, <2>6, GoingOn
<1> QED BY <1>1, <1>2 DEF ReadDelivery

\* One owner's record is read and its nodes are added, or the call gives up.
LEMMA AddOwnerStep ==
  ASSUME GraphInv, AddOwner
  PROVE  GraphInv'
<1> DEFINE delivery == resolver.delivery
           k == Len(resolver.read) + 1
           ref == delivery.owner_refs[k]
           content == record[ref.path]
           read == Append(resolver.read, content)
           nodes == AddNodes(resolver.nodes, OwnerNodes(ref, content, resolver.id))
<1>1. CASE resolver' = None
  BY <1>1, GivingUp DEF AddOwner
<1>2. CASE /\ content # NoFile /\ OwnerMatches(ref, content) /\ ~Conflicting(nodes)
           /\ resolver' = Gathered(delivery, read, resolver.added, nodes)
  <2>1. /\ delivery \in Deliveries /\ resolver.read \in Seq(Records)
        /\ delivery.delivery_id = resolver.id
        /\ delivery.base_revision = resolver.baseline.revision
        /\ resolver.nodes = ExplainedSoFar(resolver)
        /\ \A i \in 1 .. Len(resolver.read) : resolver.read[i] = delivery.owner_refs[i].digest
    BY DEF AddOwner, GraphInv, ResolverInv, Bound
  <2>2. /\ resolver.added \in Nat /\ resolver.added <= Len(delivery.items)
        /\ k \in 1 .. Len(delivery.owner_refs)
    BY <2>1, ListsOfDelivery DEF AddOwner, GraphInv, GraphTypeOK
  <2>3. content \in Records
    BY <1>2, <2>1, <2>2, ListsOfDelivery DEF GraphInv, GraphTypeOK
  <2>4. /\ read \in Seq(Records) /\ Len(read) = k /\ read[k] = content
        /\ \A i \in 1 .. Len(resolver.read) : read[i] = resolver.read[i]
    BY <2>1, <2>3
  <2>5. \A i \in 1 .. Len(read) : read[i] = delivery.owner_refs[i].digest
    <3>1. read[k] = delivery.owner_refs[k].digest
      BY <1>2, <2>4 DEF OwnerMatches
    <3> HIDE DEF delivery, read
    <3> QED BY <2>1, <2>2, <2>4, <3>1
  <2>6. nodes = ExplainedSoFar(Gathered(delivery, read, resolver.added, nodes))
    <3> DEFINE Of(i) == OwnerNodes(delivery.owner_refs[i], read[i], resolver.id)
    <3>1. UNION {Of(i) : i \in 1 .. Len(read)}
            = (UNION {Of(i) : i \in 1 .. Len(resolver.read)}) \cup Of(k)
      <4> HIDE DEF Of
      <4> QED BY <2>1, <2>2, <2>4
    <3>2. {Of(i) : i \in 1 .. Len(resolver.read)}
            = {OwnerNodes(delivery.owner_refs[i], resolver.read[i], resolver.id) :
               i \in 1 .. Len(resolver.read)}
      BY <2>4
    <3>3. Of(k) = OwnerNodes(ref, content, resolver.id)
      BY <2>4
    <3> HIDE DEF Of
    <3> QED BY <2>1, <3>1, <3>2, <3>3 DEF ExplainedSoFar, Gathered, AddNodes
  <2>7. /\ resolver.step \in {"delivery", "nodes"} /\ Len(read) <= Len(delivery.owner_refs)
        /\ UNCHANGED <<files, effective, traces, approval, binding, edits>>
    BY <2>2, <2>4 DEF AddOwner
  <2> HIDE DEF delivery, read, nodes
  <2> QED BY <1>2, <2>1, <2>2, <2>4, <2>5, <2>6, <2>7, GoingOn
<1> QED BY <1>1, <1>2 DEF AddOwner

\* One item is added, or the call gives up.
LEMMA AddItemStep ==
  ASSUME GraphInv, AddItem
  PROVE  GraphInv'
<1> DEFINE delivery == resolver.delivery
           k == resolver.added + 1
           item == delivery.items[k]
           nodes == AddNodes(resolver.nodes, {ItemNode(item, resolver.id)})
<1>1. CASE resolver' = None
  BY <1>1, GivingUp DEF AddItem
<1>2. CASE /\ ~Conflicting(nodes)
           /\ resolver' = Gathered(delivery, resolver.read, k, nodes)
  <2>1. /\ delivery \in Deliveries /\ resolver.read \in Seq(Records)
        /\ delivery.delivery_id = resolver.id
        /\ delivery.base_revision = resolver.baseline.revision
        /\ resolver.nodes = ExplainedSoFar(resolver)
        /\ \A i \in 1 .. Len(resolver.read) : resolver.read[i] = delivery.owner_refs[i].digest
    BY DEF AddItem, GraphInv, ResolverInv, Bound
  <2>2. /\ resolver.added \in Nat /\ k \in Nat /\ k <= Len(delivery.items)
        /\ Len(resolver.read) <= Len(delivery.owner_refs)
    BY <2>1, ListsOfDelivery DEF AddItem, GraphInv, GraphTypeOK
  <2>3. nodes = ExplainedSoFar(Gathered(delivery, resolver.read, k, nodes))
    <3> DEFINE Of(i) == ItemNode(delivery.items[i], resolver.id)
    <3>1. {Of(i) : i \in 1 .. k} = {Of(i) : i \in 1 .. resolver.added} \cup {Of(k)}
      <4> HIDE DEF Of
      <4> QED BY <2>2
    <3>2. Of(k) = ItemNode(item, resolver.id)
      OBVIOUS
    <3> HIDE DEF item
    <3> QED BY <2>1, <3>1, <3>2 DEF ExplainedSoFar, Gathered, AddNodes
  <2>4. /\ resolver.step \in {"delivery", "nodes"}
        /\ UNCHANGED <<files, effective, traces, approval, binding, edits>>
    BY DEF AddItem
  <2> HIDE DEF delivery, k, nodes
  <2> QED BY <1>2, <2>1, <2>2, <2>3, <2>4, GoingOn
<1> QED BY <1>1, <1>2 DEF AddItem

\* The traces are checked and the contract replaces the last one, or the call gives up.
LEMMA FinishStep ==
  ASSUME GraphInv, Finish
  PROVE  GraphInv'
<1> DEFINE edges == Edges(resolver.delivery)
           found == {edge.source : edge \in edges} \subseteq Known(resolver.nodes)
           whole == [id |-> resolver.id, baseline |-> resolver.baseline,
                     delivery |-> resolver.delivery, read |-> resolver.read,
                     nodes |-> resolver.nodes]
<1>1. GraphTypeOK' /\ ResolverInv'
  BY DEF Finish, GraphInv, GraphTypeOK, ResolverInv, None, files
<1>2. CASE ~found
  BY <1>2, GivingUp DEF Finish, KeptTraces, files
<1>3. CASE found
  <2>1. effective' = whole /\ traces' = edges
    BY <1>3 DEF Finish, KeptTraces
  <2>2. Bound(resolver) /\ resolver.nodes = ExplainedSoFar(resolver) /\ ~Conflicting(resolver.nodes)
    BY DEF Finish, GraphInv, ResolverInv
  <2>3. ExplainedSoFar(resolver) = Explained(resolver)
    BY <2>2, ListsOfDelivery DEF Finish, ExplainedSoFar, Explained, Bound
  <2>4. Complete(whole)
    BY <2>2, <2>3 DEF Finish, Complete, Bound, Explained
  <2>5. BaselineNode(resolver.baseline) \in resolver.nodes
    BY <2>2 DEF ExplainedSoFar
  <2>6. effective' # NoContract
    BY <2>1, <2>5 DEF NoContract
  <2>7. EffectiveInv'
    BY <2>1, <2>4 DEF EffectiveInv
  <2>8. ApprovalInv'
    BY <2>6 DEF GraphInv, ApprovalInv, Finish
  <2>9. TracesOfLastContract'
    BY <1>3, <2>1, <2>6 DEF TracesOfLastContract
  <2> QED BY <1>1, <2>7, <2>8, <2>9 DEF GraphInv
<1> QED BY <1>2, <1>3

\* An approval binds what was resolved, no more.
LEMMA DecideStep ==
  ASSUME GraphInv, NEW decision, Decide(decision)
  PROVE  GraphInv'
<1>1. (GraphTypeOK /\ ResolverInv /\ EffectiveInv /\ TracesOfLastContract)'
  BY DEF Decide, GraphInv, GraphTypeOK, ResolverInv, EffectiveInv, TracesOfLastContract, files,
         Complete, Bound, Explained, ExplainedSoFar
<1>2. ApprovalInv'
  BY DEF Decide, Dependencies, GraphInv, GraphTypeOK, EffectiveInv, ApprovalInv, Complete, Bound,
         Explained
<1> QED BY <1>1, <1>2 DEF GraphInv

\* Editors change files, never what was read from them.
LEMMA OthersStep ==
  ASSUME GraphInv, Edit \/ Rebind \/ UNCHANGED graphVars
  PROVE  GraphInv'
<1>1. GraphTypeOK'
  BY GraphConstants DEF Edit, Rebind, graphVars, GraphInv, GraphTypeOK, files
<1>2. (ResolverInv /\ EffectiveInv /\ ApprovalInv /\ TracesOfLastContract)'
  <2>1. UNCHANGED <<resolver, effective, traces, approval>>
    BY DEF Edit, Rebind, graphVars
  <2> QED BY <2>1 DEF GraphInv, ResolverInv, EffectiveInv, ApprovalInv, TracesOfLastContract,
                      Complete, Bound, Explained, ExplainedSoFar
<1> QED BY <1>1, <1>2 DEF GraphInv

\* Holds in every state, whatever is edited while resolve() reads.
THEOREM GraphSafety == GraphSpec => []GraphInv
<1>1. GraphInv /\ [GraphNext]_graphVars => GraphInv'
  BY ResolveStep, ReadDeliveryStep, AddOwnerStep, AddItemStep, FinishStep, DecideStep, OthersStep
     DEF GraphNext
<1> QED BY <1>1, GraphInitInv, PTL DEF GraphSpec

\* What is in a resolution is typed, however files change under it.
THEOREM GraphTypeCorrect == GraphSpec => []GraphTypeOK
BY GraphSafety, PTL DEF GraphInv

\* Nothing of the documents is lost and nothing wins over another.
THEOREM NothingIsLost == GraphSpec => []ContractIsExplained
<1>1. GraphInv => ContractIsExplained
  BY DEF GraphInv, EffectiveInv, Complete, ContractIsExplained
<1> QED BY <1>1, GraphSafety, PTL

\* trace() tells of the last contract that was resolved.
THEOREM TracesFollowContract == GraphSpec => []TracesOfLastContract
BY GraphSafety, PTL DEF GraphInv

-----------------------------------------------------------------------------
(* The digest is a function of the contents: of the baseline and of the    *)
(* sets of references and items, in whatever order they stand and under    *)
(* whatever id.                                                            *)

Entry(id, value) == [id |-> id, value |-> value]

RefEntries(ref) ==
  {Entry(<<"product", ref.product_id>>, ref.digest)}
    \cup {Entry(<<"scenario", s>>, [scenario |-> s]) : s \in ref.digest.scenarios}
    \cup {Entry(<<"owner_refs", ref.product_id>>, ref)}

Contents(b, refs, items) ==
  {Entry(<<"baseline", b.product_id>>, b)}
    \cup (UNION {RefEntries(ref) : ref \in refs})
    \cup {Entry(<<item.section, item.id>>, item) : item \in items}

\* The digest of a union is the union of the digests.
LEMMA DigestOfUnion ==
  ASSUME NEW m, NEW n
  PROVE  Digest(m \cup n) = Digest(m) \cup Digest(n)
BY DEF Digest

\* What the digest says of one owner.
LEMMA DigestOfOwner ==
  ASSUME NEW ref, NEW id
  PROVE  Digest(OwnerNodes(ref, ref.digest, id)) = RefEntries(ref)
<1> DEFINE product == {[id |-> <<"product", ref.product_id>>, value |-> ref.digest,
                        origin |-> <<"path", ref.path>>]}
           scenarios == {[id |-> <<"scenario", s>>, value |-> [scenario |-> s],
                          origin |-> <<ref.path, s>>] : s \in ref.digest.scenarios}
           owner == {[id |-> <<"owner_refs", ref.product_id>>, value |-> ref,
                      origin |-> <<"delivery", id>>]}
<1>1. Digest(product) = {Entry(<<"product", ref.product_id>>, ref.digest)}
  BY DEF Digest, Entry
<1>2. Digest(scenarios)
        = {Entry(<<"scenario", s>>, [scenario |-> s]) : s \in ref.digest.scenarios}
  <2> DEFINE Node(s) == [id |-> <<"scenario", s>>, value |-> [scenario |-> s],
                         origin |-> <<ref.path, s>>]
  <2>1. \A s : [id |-> Node(s).id, value |-> Node(s).value]
                 = Entry(<<"scenario", s>>, [scenario |-> s])
    BY DEF Entry
  <2>2. scenarios = {Node(s) : s \in ref.digest.scenarios}
    OBVIOUS
  <2> HIDE DEF Node, scenarios
  <2>3. Digest(scenarios)
          = {[id |-> Node(s).id, value |-> Node(s).value] : s \in ref.digest.scenarios}
    BY <2>2 DEF Digest
  <2> QED BY <2>1, <2>3
<1>3. Digest(owner) = {Entry(<<"owner_refs", ref.product_id>>, ref)}
  BY DEF Digest, Entry
<1> HIDE DEF product, scenarios, owner
<1>4. Digest(product \cup scenarios \cup owner)
        = Digest(product) \cup Digest(scenarios) \cup Digest(owner)
  <2>1. Digest(product \cup scenarios) = Digest(product) \cup Digest(scenarios)
    BY DigestOfUnion
  <2>2. Digest((product \cup scenarios) \cup owner)
          = Digest(product \cup scenarios) \cup Digest(owner)
    BY DigestOfUnion
  <2> QED BY <2>1, <2>2
<1> QED BY <1>1, <1>2, <1>3, <1>4 DEF product, scenarios, owner, OwnerNodes, RefEntries

\* What the digest says of a whole contract.
LEMMA DigestOfContract ==
  ASSUME NEW c, Complete(c)
  PROVE  Digest(c.nodes) = Contents(c.baseline, Refs(c.delivery), Items(c.delivery))
<1> DEFINE refs == c.delivery.owner_refs
           Of(i) == OwnerNodes(refs[i], c.read[i], c.id)
           base == {BaselineNode(c.baseline)}
           owners == UNION {Of(i) : i \in DOMAIN refs}
           items == {ItemNode(c.delivery.items[i], c.id) : i \in DOMAIN c.delivery.items}
<1>1. Digest(base) = {Entry(<<"baseline", c.baseline.product_id>>, c.baseline)}
  BY DEF Digest, Entry, BaselineNode
<1>2. Digest(items) = {Entry(<<item.section, item.id>>, item) : item \in Items(c.delivery)}
  <2> DEFINE Node(i) == ItemNode(c.delivery.items[i], c.id)
  <2>1. \A item : [id |-> ItemNode(item, c.id).id, value |-> ItemNode(item, c.id).value]
                    = Entry(<<item.section, item.id>>, item)
    BY DEF Entry, ItemNode
  <2>2. Digest(items)
          = {[id |-> Node(i).id, value |-> Node(i).value] : i \in DOMAIN c.delivery.items}
    <3>1. items = {Node(i) : i \in DOMAIN c.delivery.items}
      OBVIOUS
    <3> HIDE DEF Node, items
    <3> QED BY <3>1 DEF Digest
  <2>3. Digest(items) = {Entry(<<c.delivery.items[i].section, c.delivery.items[i].id>>,
                               c.delivery.items[i]) : i \in DOMAIN c.delivery.items}
    BY <2>1, <2>2
  <2> QED BY <2>3 DEF Items
<1>3. Digest(owners) = UNION {RefEntries(ref) : ref \in Refs(c.delivery)}
  <2>1. \A i \in DOMAIN refs : c.read[i] = refs[i].digest
    BY ListsOfDelivery DEF Complete, Bound
  <2>2. \A i \in DOMAIN refs : Digest(Of(i)) = RefEntries(refs[i])
    BY <2>1, DigestOfOwner
  <2>3. Digest(owners) = UNION {Digest(Of(i)) : i \in DOMAIN refs}
    <3> HIDE DEF Of
    <3> QED BY DEF Digest
  <2>4. UNION {Digest(Of(i)) : i \in DOMAIN refs} = UNION {RefEntries(refs[i]) : i \in DOMAIN refs}
    <3> HIDE DEF Of
    <3> QED BY <2>2
  <2>5. UNION {RefEntries(refs[i]) : i \in DOMAIN refs}
          = UNION {RefEntries(ref) : ref \in Refs(c.delivery)}
    BY DEF Refs
  <2> QED BY <2>3, <2>4, <2>5
<1>4. c.nodes = base \cup owners \cup items
  BY DEF Complete, Explained
<1> HIDE DEF base, owners, items
<1>5. Digest(c.nodes) = Digest(base) \cup Digest(owners) \cup Digest(items)
  <2>1. Digest(base \cup owners) = Digest(base) \cup Digest(owners)
    BY DigestOfUnion
  <2>2. Digest((base \cup owners) \cup items) = Digest(base \cup owners) \cup Digest(items)
    BY DigestOfUnion
  <2> QED BY <1>4, <2>1, <2>2
<1> QED BY <1>1, <1>2, <1>3, <1>5 DEF Contents

\* A delivery resolves to one contract, to whatever the product records it names
\* change; of the baselines GraphConstants says that a revision names one.
THEOREM OneContractPerDelivery == GraphSpec => []SameDeliverySameContract
<1>1. GraphInv => SameDeliverySameContract
  <2> SUFFICES ASSUME GraphInv, approval # NoApproval,
                      approval.given.delivery = effective.delivery
               PROVE  approval.bound.effective_contract = Digest(effective.nodes)
    BY DEF SameDeliverySameContract
  <2>1. /\ Complete(effective) /\ Complete(approval.given)
        /\ approval.bound.effective_contract = Digest(approval.given.nodes)
    BY DEF GraphInv, EffectiveInv, ApprovalInv
  <2>2. approval.given.baseline = effective.baseline
    BY <2>1, GraphConstants DEF Complete, Bound
  <2> QED BY <2>1, <2>2, DigestOfContract
<1> QED BY <1>1, GraphSafety, PTL

\* Entries of different sections never meet under one name.
LEMMA ContentsApart ==
  ASSUME NEW b, NEW refs, NEW items, \A item \in items : item.section \in Sections,
         NEW n \in Contents(b, refs, items), NEW kind, NEW name, n.id = <<kind, name>>
  PROVE  /\ kind = "baseline" => n.value = b
         /\ kind = "owner_refs" => n.value \in refs
         /\ kind \in Sections => n.value \in items
BY DEF Contents, RefEntries, Entry, Sections

\* The digest tells contents apart.
LEMMA DigestIsExact ==
  ASSUME NEW a, NEW b, Complete(a), Complete(b), Digest(a.nodes) = Digest(b.nodes)
  PROVE  /\ a.baseline = b.baseline
         /\ Refs(a.delivery) \subseteq Refs(b.delivery)
         /\ Items(a.delivery) \subseteq Items(b.delivery)
<1> DEFINE into == Contents(b.baseline, Refs(b.delivery), Items(b.delivery))
<1>1. Contents(a.baseline, Refs(a.delivery), Items(a.delivery)) = into
  BY DigestOfContract
<1>2. /\ \A item \in Items(a.delivery) : item.section \in Sections
      /\ \A item \in Items(b.delivery) : item.section \in Sections
  BY ListsOfDelivery DEF Complete, Bound, Items
<1>3. a.baseline = b.baseline
  <2>1. Entry(<<"baseline", a.baseline.product_id>>, a.baseline) \in into
    BY <1>1 DEF Contents
  <2> QED BY <1>2, <2>1, ContentsApart DEF Entry
<1>4. ASSUME NEW ref \in Refs(a.delivery)
      PROVE  ref \in Refs(b.delivery)
  <2>1. Entry(<<"owner_refs", ref.product_id>>, ref)
          \in UNION {RefEntries(r) : r \in Refs(a.delivery)}
    <3>1. Entry(<<"owner_refs", ref.product_id>>, ref) \in RefEntries(ref)
      BY DEF RefEntries
    <3> QED BY <3>1
  <2>2. Entry(<<"owner_refs", ref.product_id>>, ref) \in into
    BY <1>1, <2>1 DEF Contents
  <2> QED BY <1>2, <2>2, ContentsApart DEF Entry
<1>5. ASSUME NEW item \in Items(a.delivery)
      PROVE  item \in Items(b.delivery)
  <2>1. Entry(<<item.section, item.id>>, item) \in into
    BY <1>1 DEF Contents
  <2> QED BY <1>2, <2>1, ContentsApart DEF Entry
<1> QED BY <1>3, <1>4, <1>5

\* Verification compares every binding.
LEMMA VerifyIsExact ==
  ASSUME NEW bound, NEW dependencies,
         bound.others \in Bindings, dependencies.others \in Bindings
  PROVE  Verify(bound, dependencies)
           <=> /\ bound.others = dependencies.others
               /\ bound.effective_contract = dependencies.effective_contract
<1>1. /\ bound.others = [name \in DOMAIN bound.others |-> bound.others[name]]
      /\ dependencies.others
           = [name \in DOMAIN dependencies.others |-> dependencies.others[name]]
  BY GraphConstants
<1>2. ASSUME Verify(bound, dependencies)
      PROVE  bound.others = dependencies.others
  <2>1. /\ DOMAIN bound.others = DOMAIN dependencies.others
        /\ \A name \in DOMAIN bound.others : bound.others[name] = dependencies.others[name]
    BY <1>2 DEF Verify
  <2> QED BY <1>1, <2>1
<1> QED BY <1>2 DEF Verify

\* A valid approval covers what is resolved now, and only that.
THEOREM ApprovalsAreBound == GraphSpec => []ApprovalCoversContents
<1>1. GraphInv => ApprovalCoversContents
  <2> SUFFICES ASSUME GraphInv, approval.decision = "approved"
               PROVE  Valid <=> /\ approval.given.baseline = effective.baseline
                                /\ Refs(approval.given.delivery) = Refs(effective.delivery)
                                /\ Items(approval.given.delivery) = Items(effective.delivery)
                                /\ approval.bound.others = binding
    BY DEF ApprovalCoversContents
  <2> DEFINE given == approval.given
  <2>1. approval # NoApproval
    BY DEF NoApproval
  <2>2. /\ Complete(effective) /\ Complete(given)
        /\ approval.bound.effective_contract = Digest(given.nodes)
        /\ approval.bound.others \in Bindings /\ binding \in Bindings
    BY <2>1 DEF GraphInv, GraphTypeOK, EffectiveInv, ApprovalInv
  <2>3. Valid <=> /\ approval.bound.others = binding
                  /\ Digest(given.nodes) = Digest(effective.nodes)
    BY <2>2, VerifyIsExact DEF Valid, Dependencies
  <2>4. Digest(given.nodes) = Digest(effective.nodes)
          <=> /\ given.baseline = effective.baseline
              /\ Refs(given.delivery) = Refs(effective.delivery)
              /\ Items(given.delivery) = Items(effective.delivery)
    <3>1. ASSUME Digest(given.nodes) = Digest(effective.nodes)
          PROVE  /\ given.baseline = effective.baseline
                 /\ Refs(given.delivery) = Refs(effective.delivery)
                 /\ Items(given.delivery) = Items(effective.delivery)
      <4>1. /\ given.baseline = effective.baseline
            /\ Refs(given.delivery) \subseteq Refs(effective.delivery)
            /\ Items(given.delivery) \subseteq Items(effective.delivery)
        BY <2>2, <3>1, DigestIsExact
      <4>2. /\ Refs(effective.delivery) \subseteq Refs(given.delivery)
            /\ Items(effective.delivery) \subseteq Items(given.delivery)
        BY <2>2, <3>1, DigestIsExact
      <4> QED BY <4>1, <4>2
    <3>2. ASSUME given.baseline = effective.baseline,
                 Refs(given.delivery) = Refs(effective.delivery),
                 Items(given.delivery) = Items(effective.delivery)
          PROVE  Digest(given.nodes) = Digest(effective.nodes)
      BY <2>2, <3>2, DigestOfContract
    <3> QED BY <3>1, <3>2
  <2> QED BY <2>3, <2>4
<1> QED BY <1>1, GraphSafety, PTL
=============================================================================
