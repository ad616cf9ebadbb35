SPECIFICATION FairSpec
CONSTANTS
    a = a
    b = b
    None = None
    Programs = {a, b}
    Packed = {a}
    Image <- MCTiny
    TapsOverLoads = FALSE
    TypesOverTaps = FALSE
    Scenes <- MCTinyScenes
PROPERTIES PromptComesBack LauncherComesBack
