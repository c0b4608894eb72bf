SPECIFICATION Spec
CONSTANTS
  Alphabet = {1, 2}
  Words <- SomeWords
  Inputs <- SomeInputs
  BatchSize = 2
  MaxWords = 4
INVARIANT
  GraphFits
PROPERTIES
  KmpImplements
  FsaImplements
