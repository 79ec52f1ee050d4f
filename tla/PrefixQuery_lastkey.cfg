\* One well-formed ASCII line, queried by its name.
CONSTANTS
    Dict <- MCDict
    Lines <- AsciiLines
    Bodies <- AsciiBodies
    Numbers = {0}
    MaxDepth = 2
    HttpBodies <- AsciiBodies
    HttpNumbers = {1}
    NoNumber = NoNumber
    NoFile = NoFile
    AllocFailures = FALSE
SPECIFICATION Spec
INVARIANT IndexedNamesFound
\* The client sends no further request once it has had its answers.
CHECK_DEADLOCK FALSE
