\* The watchdog of a file, and that of a test, over every placement of the parks
SPECIFICATION FairSpec
CONSTANTS
    FileTimeout = 2
    TestTimeout = 1
    MaxTime = 5
    Armed = {{"file"}, {"test"}}
INVARIANTS
    WaitedIsSound
PROPERTY
    OverlongIsStopped
