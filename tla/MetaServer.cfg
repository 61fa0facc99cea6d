SPECIFICATION Spec
CONSTANTS
    None = None
    Zero = Zero
    Keys = {"k"}
    Calls <- CallNames
    Workloads <- Loads
    MaxBoots = 2
INVARIANTS
    MetaDelivered
    
    
PROPERTY
    MetaSpaceKept
