SPECIFICATION Spec
CONSTANTS
  Styles = {"gcc"}
  Layouts <- MCTwoProviders
  Texts <- MCSources
  MaxChanges = 1
CHECK_DEADLOCK FALSE
INVARIANTS Converges
