SPECIFICATION FairSpec
CONSTANTS
    Plugin <- MCPlugin
    PluginPhases <- MCPluginPhases
    Definer <- MCDefiner
    HostPhases <- MCHostPhases
    Name <- MCName
    MaxBuilders = 1
    MaxCompiles = 2
    MaxErrors = 1
PROPERTIES
    CodeOnlyFromCleanProgram
    CollectedIsAnalysed
    CompileEnds
