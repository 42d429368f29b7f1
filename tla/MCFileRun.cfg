\* A watched file with three VMs, one of them in a sub-lab
SPECIFICATION FairSpec
CONSTANTS
    v1 = v1
    v2 = v2
    v3 = v3
    Vms = {v1, v2, v3}
    Home <- MCHome
    Cost <- MCCost
    Claims = {1, 3}
    Watched = TRUE
INVARIANTS
    UsedIsLent
    

    
