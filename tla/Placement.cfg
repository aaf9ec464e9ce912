SPECIFICATION Spec
CONSTANTS
    small = small
    big = big
    other = other
    nv = nv
    amd = amd
    Mixed = Mixed
    Workload = {first, second}
    Hosts <- const_Hosts
    Gpus <- const_Gpus
    Vendors <- const_Vendors
    Recipes <- const_Recipes
    Policies <- const_Policies
    MaxFaults = 1
INVARIANTS
    TypeOK
    Exclusive
PROPERTIES
    FitsOrFull
    RelaunchFits
CHECK_DEADLOCK FALSE
