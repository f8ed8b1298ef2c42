CONSTANT Inputs <- MCInputs
SPECIFICATION Spec
PROPERTY FindsToken
CHECK_DEADLOCK FALSE
