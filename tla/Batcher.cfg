SPECIFICATION FairSpec
CONSTANTS
  Callers = {c1, c2, c3}
  Texts = {text1, text2}
  Error = Error
  Absent = Absent
  NULL = NULL
  MaxSize = 2
  MaxAdds = 3
INVARIANTS TypeOK NoStrandedItem BoundedOvershoot OnePlace Ownership
PROPERTIES ImplementsEmbedCalls
CHECK_DEADLOCK FALSE
