\* One delivery under edits while it is resolved again and again.
SPECIFICATION GraphSpec
CONSTANTS
  Baselines <- MCBaselines
  Records <- MCRecords
  Deliveries <- MCDeliveries
  DeliveryIds = {"d"}
  Paths = {"main", "copy", "generated"}
  Unsafe = {"generated"}
  Bindings <- MCBindings
  NoFile = NoFile
  MaxEdits = 2
INVARIANTS
  GraphTypeOK ContractIsExplained SameDeliverySameContract TracesOfLastContract
  ApprovalCoversContents
