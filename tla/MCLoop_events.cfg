CONSTANTS
    n1 = n1
    n2 = n2
    p1 = p1
    s1 = s1
    s2 = s2
    Unnamed = Unnamed
    v1 = v1
    v2 = v2
    Unknown = Unknown
    Unparsable = Unparsable
    Redacted = Redacted
    Nothing = Nothing
    Ast <- MCAst
    ParamOids <- MCParamOids
    Raws <- MCRaws
    Names <- MCNames1
    Portals <- MCPortals
    Texts <- MCTexts
    Refused <- MCRefused
    MaxSize = 2
    Modes <- MCModes
SPECIFICATION LiveSpec
INVARIANTS CacheAgrees ReportsTheText ReportsFailure OneReady
PROPERTY AnswersEnd
CHECK_DEADLOCK FALSE
