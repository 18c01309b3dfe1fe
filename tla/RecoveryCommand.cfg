\* Two requests of the main system.
CONSTANTS
    NUM_ONCE = 2
    FILE_MAX_SIZE = 4
    DSP_2P = 2
    DSP_10P = 1
    McuFiles = {0}
    MaxStale = 0
    Loaders <- MCLoaders
    RomFrames = 2
    MPEG_2P = 3
    MPEG_10P = 1
    SDRAM_TRIES = 1
    SDRAM_HITS = 0
    TRIES = 2
    MaxLine = 0
    ProbeValues = {5}
    Commands = {"package", "fs_on"}
    Modes = {"CLEAN", "UPDATE_SYSTEM"}
    MaxRestarts = 1
SPECIFICATION Spec
INVARIANT NewCommandTaken
CHECK_DEADLOCK FALSE
