SPECIFICATION Spec
CONSTANTS
  context = context  block = block  list = list
  session = session  workspace = workspace  r1 = r1  r2 = r2
  Keys = {context, block, list}
  Blocks = {block}
  Owners = {session, workspace}
  OwnerOf <- TwoOwners
  Readers = {r1, r2}
  Capacity = 2
  MaxCommits = 2
  MaxClears = 1
CONSTRAINT Instances
SYMMETRY Symmetry
INVARIANTS TypeOK WarmAuthoritative ReadsFresh PageIsCut IndexTracksEntries
CHECK_DEADLOCK FALSE
