\* A known ideograph followed by a byte that is not a UTF-8 lead byte.
CONSTANTS
    Dict <- MCDict
    Lines <- MCLines
    Bodies <- StrayBodies
    Numbers = {0}
    MaxDepth = 2
    HttpBodies <- StrayBodies
    HttpNumbers = {1}
    NoNumber = NoNumber
    NoFile = NoFile
    AllocFailures = FALSE
SPECIFICATION FairSpec
PROPERTY RequestAnswered
\* The client sends no further request once it has had its answers.
CHECK_DEADLOCK FALSE
