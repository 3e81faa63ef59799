SPECIFICATION Spec
CONSTANTS
  Names = {a, b}
  MaxChanges = 4
  Reuse = FALSE
  Unreadable = {2}
  NoHash = none
INVARIANTS
  Tracked
  OnlyWhatIsAsked
PROPERTY
  Converges
