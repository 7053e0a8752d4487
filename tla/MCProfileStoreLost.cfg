SPECIFICATION Spec
CONSTANTS
  Named = {"name", "bio"}
  Open = {"links"}
  Texts = {"a", "b"}
  name = name
  bio = bio
  e1 = e1
  p1 = p1
  Slots = {name, bio}
  Values = {"old", "new"}
  Minted <- MCMinted
  Editors = {e1}
  Edit <- MCEdit
  Publishers = {}
  Profile <- MCNoProfile
  Lag = 0
  MaxTips = 2
  MaxWaiting = 2
  MaxForks = 0
INVARIANT RetryFindsTheBody
CHECK_DEADLOCK FALSE
