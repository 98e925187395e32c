CONSTANTS
  h1 = h1
  h2 = h2
  ann = ann
  ben = ben
  readers = readers
  writers = writers
  Handlers = {h1, h2}
  Commenter <- MCCommenter
  Logins = {ann, ben}
  Teams = {readers, writers}
  Members <- MCMembers
  Access <- MCAccess
  PerPage = 2
  None = None
  MaxChanges = 1
  MaxErrors = 1
  MaxCrashes = 1
SPECIFICATION FairSpec
INVARIANTS
  IInv
  GrantWasTrue
PROPERTIES
  MaintainersAccepted
