\* Six input lines (one malformed), fourteen query bodies covering the
\* empty, blank, ASCII, mixed, all-ideograph, unknown-ideograph and NUL
\* cases and one stray byte;
\* admin requests of every opt kind with six keys and numbers -1, 0, 1 and
\* absent;
\* max_depth 2, read by parse_config from the server's configuration file,
\* both caps the trie descent and truncates the result.
CONSTANTS
    Dict <- MCDict
    Lines <- MCLines
    Bodies <- SafetyBodies
    Numbers = {0, 1, 3}
    MaxDepth <- MCMaxDepth
    HttpBodies <- HttpSafetyBodies
    HttpNumbers <- MCHttpNumbers
    NoNumber = NoNumber
    NoFile = NoFile
    AllocFailures = TRUE
SPECIFICATION Spec
INVARIANT ResultsSound ResultsTopRanked HttpListsBestRanked ProductMatchesReference ConfigFollowsFormat
\* A worker or main thread stuck in Query (the stray byte) takes no
\* further step.
CHECK_DEADLOCK FALSE
