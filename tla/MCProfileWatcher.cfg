CONSTANTS
  local = local
  custom = custom
  f = f
  Dirs <- MCDirs
  DefaultDirs <- MCDefaultDirs
  Files <- MCFiles
  MaxChanges = 4
SPECIFICATION FairSpec
INVARIANTS StaleIsDue
PROPERTIES FollowsDisk Quiesces
