SPECIFICATION Spec
CONSTANTS
  Named = {"name", "bio"}
  Open = {"links"}
  Texts = {"a", "b"}
  name = name
  bio = bio
  e1 = e1
  p1 = p1
  Slots = {name, bio}
  Values = {"old", "new"}
  Minted <- MCMinted
  Editors = {e1}
  Edit <- MCEdit
  Publishers = {p1}
  Profile <- MCProfile
  Lag = 1
  MaxTips = 3
  MaxWaiting = 2
  MaxForks = 1
INVARIANTS TypeOK OnlyALostAnswerOrphansContent  EndedUnlessForked WhatIsShownIsDone
