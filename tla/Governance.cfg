CONSTANTS
    NullAddress = NullAddress
    ModuleAddress = {m1}
    ResourceIds = {0, 1}
    FeeTypes = {0}
    IntegrationNames = {name}
    SetAddress = {s1}
    FactoryAddress = {f1}
    ResourceAddress = {r1, r2, NullAddress}
    AdapterAddress = {a1, NullAddress}
    RecipientAddress = {recipient, NullAddress}
    FeePercentages = {0, 1}
    MaxBatch = 2
SPECIFICATION Spec
INVARIANTS EnabledAreListed ResourcesCounted
PROPERTY ListsStayInStep
