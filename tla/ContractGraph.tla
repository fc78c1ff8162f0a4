---------------------------- MODULE ContractGraph ----------------------------
(***************************************************************************)
(* Resolution of one delivery against the project baseline                 *)
(* (contract_graph.py) and the approvals bound to what it resolves to      *)
(* (approvals.py).                                                         *)
(*                                                                         *)
(* resolve() reads the baseline, the delivery and one product record after *)
(* the other while their owners go on editing them; one ContractGraph is   *)
(* used for many resolutions and keeps the traces of the last that         *)
(* succeeded.  A digest is the digested value itself.  What a file can     *)
(* hold is a constant; an item or a delivery that its schema or its        *)
(* allow-list refuses has valid = FALSE.                                   *)
(***************************************************************************)
EXTENDS Integers, Sequences

CONSTANTS
  Baselines,    \* [product_id, revision, text]
  Records,      \* product records: [product_id, revision, scenarios, body]
  Deliveries,   \* [valid, delivery_id, base_revision, owner_refs, items]
  DeliveryIds,
  Paths,        \* where product records are kept
  Unsafe,       \* paths outside the project, or generated
  Bindings,     \* digests of plan, release, ... that apply, by name
  NoFile,
  MaxEdits      \* bound on the changes to files and bindings

\* An owner_ref is [path, product_id, revision, digest], one of another kind
\* than product counts as unsafe.  An item is [section, id, action, refs, text,
\* valid]; items of different sections never meet, so they come in any order.
Sections == {"delta_operations", "cross_layer_impacts", "environment_obligations",
             "verification", "completion_conditions"}

Items(delivery) == {delivery.items[i] : i \in DOMAIN delivery.items}
Refs(delivery) == {delivery.owner_refs[i] : i \in DOMAIN delivery.owner_refs}

\* Owners give every new baseline a new revision; of product records, which
\* are bound by their digest, no such thing is assumed.
ASSUME GraphConstants ==
  /\ Unsafe \subseteq Paths
  /\ \A delivery \in Deliveries :
       /\ delivery.owner_refs \in Seq(Refs(delivery)) /\ delivery.items \in Seq(Items(delivery))
       /\ \A i \in DOMAIN delivery.owner_refs : delivery.owner_refs[i].path \in Paths
       /\ \A i \in DOMAIN delivery.items : delivery.items[i].section \in Sections
  /\ \A b \in Bindings : b = [name \in DOMAIN b |-> b[name]]
  /\ \A a, b \in Baselines : a.revision = b.revision => a = b
  /\ NoFile \notin Baselines \cup Records \cup Deliveries
  /\ MaxEdits \in Nat

VARIABLES
  baseline,   \* contracts/project-baseline.yaml
  record,     \* the product record at each path
  contract,   \* deliveries/<id>/contract.yaml
  resolver,   \* the call of resolve() in progress
  effective,  \* the last effective contract, and what it was resolved from
  traces,     \* _traces
  approval,   \* an ApprovalRecord, and the contract it was given for
  binding,    \* what else an approval binds, as it is now
  edits

files == <<baseline, record, contract>>
graphVars == <<files, resolver, effective, traces, approval, binding, edits>>

None == [step |-> "none"]
NoContract == [nodes |-> {}]
NoApproval == [decision |-> "none"]

GraphInit ==
  /\ baseline \in Baselines
  /\ record \in [Paths -> Records \cup {NoFile}]
  /\ contract \in [DeliveryIds -> Deliveries \cup {NoFile}]
  /\ resolver = None /\ effective = NoContract /\ traces = {}
  /\ approval = NoApproval /\ binding \in Bindings /\ edits = 0

-----------------------------------------------------------------------------
(* Nodes: [id, value, origin]. *)

BaselineNode(b) ==
  [id |-> <<"baseline", b.product_id>>, value |-> b, origin |-> <<"baseline", "project">>]

\* _add_owner_nodes: the product, each of its scenarios, and the reference.
OwnerNodes(ref, content, id) ==
  {[id |-> <<"product", ref.product_id>>, value |-> content, origin |-> <<"path", ref.path>>]}
    \cup {[id |-> <<"scenario", s>>, value |-> [scenario |-> s], origin |-> <<ref.path, s>>] :
          s \in content.scenarios}
    \cup {[id |-> <<"owner_refs", ref.product_id>>, value |-> ref, origin |-> <<"delivery", id>>]}

ItemNode(item, id) ==
  [id |-> <<item.section, item.id>>, value |-> item, origin |-> <<"delivery", id>>]

\* _add_node: one value and one origin for every id.
Conflicting(nodes) == \E m, n \in nodes : m.id = n.id /\ m # n

\* Slip: the later value wins.
AddOverwriting(nodes, new) ==
  {n \in nodes : \A m \in new : m.id # n.id} \cup new

AddNodes(nodes, new) == nodes \cup new

\* canonical_digest(frozen_nodes): ids and values, not the origins.
Digest(nodes) == {[id |-> n.id, value |-> n.value] : n \in nodes}

-----------------------------------------------------------------------------
(* resolve *)

\* Slip: the file is taken to be there.
BaselineAssumed == TRUE

\* _find_baseline: there is one and its schema accepts it.
BaselineLoads == baseline # NoFile

Resolve(id) ==
  /\ resolver = None
  /\ IF BaselineLoads
     THEN resolver' = [step |-> "delivery", id |-> id, baseline |-> baseline]
     ELSE resolver' = None
  /\ UNCHANGED <<files, effective, traces, approval, binding, edits>>

BoundToBaseline(delivery) ==
  delivery.valid /\ delivery.base_revision = resolver.baseline.revision

\* The resolution goes on with what it has gathered.
Gathered(delivery, read, added, nodes) ==
  [step |-> "nodes", id |-> resolver.id, baseline |-> resolver.baseline,
   delivery |-> delivery, read |-> read, added |-> added, nodes |-> nodes]

ReadDelivery ==
  /\ resolver.step = "delivery"
  /\ LET delivery == contract[resolver.id] IN
     IF delivery # NoFile /\ BoundToBaseline(delivery) /\ delivery.delivery_id = resolver.id
     THEN resolver' = Gathered(delivery, <<>>, 0, {BaselineNode(resolver.baseline)})
     ELSE resolver' = None
  /\ UNCHANGED <<files, effective, traces, approval, binding, edits>>

\* Slip: the record's own revision is believed.
OwnerMatchesRevision(ref, content) ==
  content.product_id = ref.product_id /\ content.revision = ref.revision

OwnerMatches(ref, content) ==
  /\ content.product_id = ref.product_id /\ content.revision = ref.revision
  /\ content = ref.digest

\* Every owner_ref is checked against the record it names, as it is now.
AddOwner ==
  /\ resolver.step = "nodes" /\ Len(resolver.read) < Len(resolver.delivery.owner_refs)
  /\ LET ref == resolver.delivery.owner_refs[Len(resolver.read) + 1]
         content == record[ref.path]
         nodes == AddNodes(resolver.nodes, OwnerNodes(ref, content, resolver.id))
     IN IF ref.path \in Unsafe \/ content = NoFile \/ ~OwnerMatches(ref, content)
           \/ Conflicting(nodes)
        THEN resolver' = None
        ELSE resolver' = Gathered(resolver.delivery, Append(resolver.read, content), resolver.added,
                                    nodes)
  /\ UNCHANGED <<files, effective, traces, approval, binding, edits>>

\* _validate_section_item and the actions a delta may have.
Acceptable(item) ==
  item.valid /\ (item.section = "delta_operations" => item.action = "add")

AddItem ==
  /\ resolver.step = "nodes" /\ Len(resolver.read) = Len(resolver.delivery.owner_refs)
  /\ resolver.added < Len(resolver.delivery.items)
  /\ LET item == resolver.delivery.items[resolver.added + 1]
         nodes == AddNodes(resolver.nodes, {ItemNode(item, resolver.id)})
     IN IF ~Acceptable(item) \/ Conflicting(nodes)
        THEN resolver' = None
        ELSE resolver' = Gathered(resolver.delivery, resolver.read, resolver.added + 1, nodes)
  /\ UNCHANGED <<files, effective, traces, approval, binding, edits>>

\* _build_traces over the deltas of the delivery.
Deltas(delivery) == {item \in Items(delivery) : item.section = "delta_operations"}

Edges(delivery) ==
  UNION {{[source |-> <<"scenario", s>>, target |-> <<item.section, item.id>>] : s \in item.refs} :
         item \in Deltas(delivery)}

Known(nodes) == {n.id : n \in nodes}

\* Slip: the traces of a failed resolution are kept.
KeptTracesEager(edges, known) == edges

\* _traces is assigned after the last scenario was found.
KeptTraces(edges, known) ==
  IF {edge.source : edge \in edges} \subseteq known THEN edges ELSE traces

Finish ==
  /\ resolver.step = "nodes" /\ Len(resolver.read) = Len(resolver.delivery.owner_refs)
  /\ resolver.added = Len(resolver.delivery.items)
  /\ LET edges == Edges(resolver.delivery)
         known == Known(resolver.nodes)
     IN /\ traces' = KeptTraces(edges, known)
        /\ effective' = IF {edge.source : edge \in edges} \subseteq known
                        THEN [id |-> resolver.id, baseline |-> resolver.baseline,
                              delivery |-> resolver.delivery, read |-> resolver.read,
                              nodes |-> resolver.nodes]
                        ELSE effective
  /\ resolver' = None
  /\ UNCHANGED <<files, approval, binding, edits>>

-----------------------------------------------------------------------------
(* Approvals. *)

Dependencies == [effective_contract |-> Digest(effective.nodes), others |-> binding]

Decide(decision) ==
  /\ effective # NoContract
  /\ approval' = [decision |-> decision, bound |-> Dependencies, given |-> effective]
  /\ UNCHANGED <<files, resolver, effective, traces, binding, edits>>

\* Slip: a dependency that applies now but was not bound is overlooked.
VerifyBoundOnly(bound, dependencies) ==
  /\ bound.effective_contract = dependencies.effective_contract
  /\ \A name \in DOMAIN bound.others :
       /\ name \in DOMAIN dependencies.others
       /\ bound.others[name] = dependencies.others[name]

\* ApprovalVerifier.verify: nothing missing, extra or stale.
Verify(bound, dependencies) ==
  LET missing == DOMAIN bound.others \ DOMAIN dependencies.others
      extra   == DOMAIN dependencies.others \ DOMAIN bound.others
      stale   == {name \in DOMAIN bound.others \cap DOMAIN dependencies.others :
                    bound.others[name] # dependencies.others[name]}
  IN /\ missing \cup extra \cup stale = {}
     /\ bound.effective_contract = dependencies.effective_contract

Valid == approval.decision = "approved" /\ Verify(approval.bound, Dependencies)

-----------------------------------------------------------------------------
(* The owners of the files, at any time. *)

Edit ==
  /\ edits < MaxEdits /\ edits' = edits + 1
  /\ \/ baseline' \in Baselines \cup {NoFile} /\ UNCHANGED <<record, contract>>
     \/ /\ \E path \in Paths, content \in Records \cup {NoFile} :
             record' = [record EXCEPT ![path] = content]
        /\ UNCHANGED <<baseline, contract>>
     \/ /\ \E id \in DeliveryIds, delivery \in Deliveries \cup {NoFile} :
             contract' = [contract EXCEPT ![id] = delivery]
        /\ UNCHANGED <<baseline, record>>
  /\ UNCHANGED <<resolver, effective, traces, approval, binding>>

Rebind ==
  /\ edits < MaxEdits /\ edits' = edits + 1
  /\ binding' \in Bindings
  /\ UNCHANGED <<files, resolver, effective, traces, approval>>

GraphNext ==
  \/ \E id \in DeliveryIds : Resolve(id)
  \/ ReadDelivery \/ AddOwner \/ AddItem \/ Finish
  \/ \E decision \in {"approved", "rejected"} : Decide(decision)
  \/ Edit \/ Rebind

GraphSpec == GraphInit /\ [][GraphNext]_graphVars

-----------------------------------------------------------------------------
(* What resolution and approval promise. *)

GraphTypeOK ==
  /\ baseline \in Baselines \cup {NoFile}
  /\ record \in [Paths -> Records \cup {NoFile}]
  /\ contract \in [DeliveryIds -> Deliveries \cup {NoFile}]
  /\ resolver # None => /\ resolver.step \in {"delivery", "nodes"}
                        /\ resolver.id \in DeliveryIds /\ resolver.baseline \in Baselines
  /\ resolver.step = "nodes" =>
       /\ resolver.delivery \in Deliveries
       /\ resolver.read \in Seq(Records)
       /\ Len(resolver.read) <= Len(resolver.delivery.owner_refs)
       /\ resolver.added \in 0 .. Len(resolver.delivery.items)
  /\ binding \in Bindings /\ edits \in 0 .. MaxEdits

\* All that an effective contract should hold, by definition: what each of
\* its documents said when it was read.
Explained(e) ==
  {BaselineNode(e.baseline)}
    \cup (UNION {OwnerNodes(e.delivery.owner_refs[i], e.read[i], e.id) :
                 i \in DOMAIN e.delivery.owner_refs})
    \cup {ItemNode(e.delivery.items[i], e.id) : i \in DOMAIN e.delivery.items}

\* Every node of an effective contract stands in one of its documents and
\* nothing of the documents is lost: no value wins over another, whatever the
\* order of the items and the edits between two reads.
ContractIsExplained ==
  effective # NoContract =>
    /\ effective.nodes = Explained(effective)
    /\ ~Conflicting(effective.nodes)

\* A delivery resolves to one contract only, whatever happens to the product
\* records that it names: to another text of theirs it does not resolve at all.
\* Of the baseline it names a revision only, and equal revisions are taken to be
\* equal baselines (GraphConstants), which contract_graph.py does not check.
SameDeliverySameContract ==
  approval # NoApproval /\ approval.given.delivery = effective.delivery =>
    approval.bound.effective_contract = Digest(effective.nodes)

\* trace() tells of the last resolution that succeeded, all of it, and of
\* scenarios that a product record owns.
TracesOfLastContract ==
  IF effective = NoContract THEN traces = {}
  ELSE /\ traces = Edges(effective.delivery)
       /\ {edge.source : edge \in traces} \subseteq Known(effective.nodes)

\* What a valid approval was given for is, item for item, what is resolved now,
\* and nothing that applies now was left out when it was given; reordering a
\* delivery takes no approval away.
ApprovalCoversContents ==
  approval.decision = "approved" =>
    (Valid <=> /\ approval.given.baseline = effective.baseline
               /\ Refs(approval.given.delivery) = Refs(effective.delivery)
               /\ Items(approval.given.delivery) = Items(effective.delivery)
               /\ approval.bound.others = binding)
=============================================================================
