SPECIFICATION Spec
CONSTANTS
    Streams <- MCStreams
    Tables <- MCTables
    NoTable = "none"
    Traversal <- MCTraversal
    Passed <- MCPassed
    ChildOf <- MCChildOf
    TableOf <- MCTableOf
    PerRow <- MCPerRow
    Twin <- MCTwin
    RowCount <- MCRowCount
    MinSplit <- MCMinSplit
    Demand <- MCDemand
    Once <- MCOnce
    Stops <- MCStops
    Jobs <- MCUpdateJobs
INVARIANT ChunksMatchSerial
