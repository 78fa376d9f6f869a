SPECIFICATION Spec
CONSTANTS
    Ext = {"dep", "app", "rival"}
    Versions = {"v1", "v2"}
    Confs = {"default", "tuned"}
    Default = "default"
    Resources = {"kv"}
    EntryPoints = {"plugin", "carrier"}
    Manifest <- MCManifest
    Check <- MCCheck
    Pids = {1}
    Window = 2
    MaxTick = 2
    MaxBoots = 1
    MaxEvents = 2
    s1 = s1
    s2 = s2
    Shells = {s1, s2}
    Legacy <- MCLegacy
    Shipped <- MCShipped
    MaxInputs = 4
SYMMETRY ShellSymmetry
INVARIANTS
    IntentCanBeLeft
    IntentIsSound
    LaunchIsSound
    EffectiveIsAlive
CHECK_DEADLOCK FALSE
