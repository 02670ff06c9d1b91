SPECIFICATION Spec
CONSTANTS
  h1 = h1  h2 = h2  h3 = h3
  Host = {h1, h2, h3}
  Scheme = {"", "http://"}
  Secs = 2
  NoExpiry = NoExpiry
  MaxTime = 6
INVARIANTS
  TypeOK
  AnswersTrue
PROPERTIES
  OnlyTimeRestores
  ImplementsQuarantine
