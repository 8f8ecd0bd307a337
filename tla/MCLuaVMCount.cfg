CONSTANTS MaxIndexRK = 3
 MaxFlush = 2
 FieldsPerFlush = 2
 Beyond <- MCBeyond
 MAXTAGLOOP = 3
 MaxSteps = 150
 Cuts = {1, 13, 37}
 Compiler <- Parse
 Outcome <- Meaning
 Conditions = {}
 Constructors <- Miscounted
SPECIFICATION VMSpec
INVARIANT BehavesAsWritten
