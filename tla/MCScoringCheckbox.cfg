CONSTANTS
  One = 25200
  Numerals <- MCNumerals
  Unscored <- MCUnscored
  CATEGORIES <- MCCategories
  TEAMS <- MCTeams
  GoldSignals <- MCGoldSignals
  Submissions <- MCSubmissions
  CallBatches <- MCCallBatches
  TierScores <- MCTierScores
  Dates <- MCDates
  Dotted <- MCDotted
  Plans <- MCPlans
  TemplateGolds <- MCTemplateGolds
  TracesFor <- MCTracesFor
  Values <- MCValues
  Depth <- MCDepth
  ParamMatch <- MCParamMatch
  MappingMatches <- MCMappingMatches
  Documents <- MCDocuments
  Schemas <- MCSchemas
  SchemaDepth <- MCSchemaDepth
  DefaultValue <- MCDefaultValue
  NormalizeValue <- MCNormalizeValue
SPECIFICATION Spec
INVARIANT CheckboxNeverNull
CHECK_DEADLOCK FALSE
