\* One loss of power or new request; faults of the devices without a limit, one
\* answer waiting on the line, one chunk left behind by a lost restart.
CONSTANTS
    NUM_ONCE = 2
    FILE_MAX_SIZE = 4
    DSP_2P = 2
    DSP_10P = 1
    McuFiles = {0, 1, 5}
    MaxStale = 1
    Loaders <- MCLoaders
    RomFrames = 2
    MPEG_2P = 3
    MPEG_10P = 1
    SDRAM_TRIES = 1
    SDRAM_HITS = 0
    TRIES = 2
    MaxLine = 1
    ProbeValues = {5}
    Commands = {"package", "fs_on"}
    Modes = {"CLEAN", "UPDATE_RECOVERY", "UPDATE_SYSTEM", "OTHER"}
    MaxRestarts = 1
SPECIFICATION Spec
INVARIANTS TypeOK LoaderVerified MpegFlashed McuBurnt SameCommand FailureTouchesNothing BurntMcuResets DataErasedFirst
PROPERTIES RunEnds
\* a run ends, or hangs on a silent decoder
CHECK_DEADLOCK FALSE
