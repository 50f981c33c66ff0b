SPECIFICATION ResolversSpec
CONSTANT None = None
INVARIANTS
    CommitsSerializable
    RefusalsReal
    
    
CHECK_DEADLOCK FALSE
