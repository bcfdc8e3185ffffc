SPECIFICATION Spec
CONSTANTS
  Word <- MCWord
  Lines <- MCLines
  Environments <- MCEnvironments
  Disks <- MCDisks
INVARIANTS Precedence ChildsOwn ShowTrue DoctorTrue CryptoAgrees InitUsable
CHECK_DEADLOCK FALSE
