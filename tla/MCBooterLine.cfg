SPECIFICATION Spec
CONSTANTS
    Word <- MCWord
    Envs <- TagEnvs
    ZeroSize = 32
    HeapSize = 8
    HeapUse = 3
    BootSize = 2
    PageOffset = 4
    RamdiskAlign = 4
    TopAlign = 8
    BootArgsAlign = 2
    BootArgsSize = 1
    BootLineLength = 2
    VirtBase = 32
    KernelVMAddr = 36
INVARIANT
    CommandLineTerminated
CHECK_DEADLOCK FALSE
