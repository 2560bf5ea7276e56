SPECIFICATION SpecAll
CONSTANTS
  Sources <- MCSources
  Parent <- MCParent
  Profiles = {"prod"}
  Keys = {"a", "b", "d"}
  maxResolveDepth = 2
  EnvironmentNames <- MCNames
  Questions <- MCQuestions
  Types <- MCTypes
  Converters <- MCConverters
  Digits <- MCDigits
  Quoted <- MCQuoted
  variables <- MCVariables
  functions <- MCFunctions
  Parses <- MCParses
  Texts <- MCTexts
  Targets <- MCTargets
INVARIANTS
  ResolvesIffShallow
  
  
  
  
PROPERTIES
  MergeOverridesNothing
  PrecedenceKept
CHECK_DEADLOCK FALSE
