SPECIFICATION DSpec
CONSTANTS
    HttpStatuses = {200, 400, 409, 429, 503}
    EnvelopeCodes = {200, 401, 409, 429, 500}
    Hints = {1, 30}
    Strings <- MCStrings
    Trees <- MCTrees
    Depth <- MCDepth
    RecursionLimit = 6
    Records <- MCRecords
    Arguments <- MCArguments
    MaxNesting = 3
    MaxItems = 2
    MaxKeys = 2
CHECK_DEADLOCK FALSE
INVARIANTS
    AnswerMatchesResponse
    FencedByPath
    RecordShowsOnlyAllowed
