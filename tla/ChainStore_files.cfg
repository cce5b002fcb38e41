SPECIFICATION Spec
CONSTANTS
    Savers = {s1}
    Main = s1
    maxHotBlocks = 4
    reorgTailSize = 3
    catchUpBatchSize = 3
    MaxLocalBlocks = 4
    InitHeight = 4
    MaxHeight = 6
    MaxForks = 2
    MaxForkDepth = 2
    MaxCrashes = 2
    NoBlock = NoBlock
    NoFile = NoFile
INVARIANT StateFileCovered
 
 
 
