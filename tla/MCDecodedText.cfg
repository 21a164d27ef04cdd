SPECIFICATION Spec
CONSTANTS
  Texts <- MCTexts
  MaxTexts = 2
  Iterators = {i1, i2}
  FirstIterator = i1
  Copied = {"none", "quoted-printable", "utf-8", "utf-16be", "utf-16le"}
  CharIsSigned = FALSE
  UpTo = 2
  Hard = "none"
CHECK_DEADLOCK FALSE
INVARIANT ReadsWhatWasEncoded
PROPERTY StepsForward
