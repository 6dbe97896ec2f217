CONSTANT Calls <- AllCalls
SPECIFICATION Spec
INVARIANTS SelfContained WellFormed PrefixesHonest EnoughRoom
PROPERTIES FilterExact Sweeps AllListed
CHECK_DEADLOCK FALSE
