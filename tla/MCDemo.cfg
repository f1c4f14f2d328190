SPECIFICATION Spec
CONSTANTS
  ann = ann
  bob = bob
  plain = plain
  party = party
  wall = wall
  sky = sky
  grin = grin
  smile = smile
  Relays = {t1, t2}
  Speaks = {r1, r2}
  Threads = {t1, t2}
  Characters = {ann, bob}
  Styles = {plain, party}
  Backgrounds = {wall, sky}
  FirstCharacter = ann
  Library <- MCLibrary
  Renderers = {r1, r2}
  None = None
  NoBrowser = NoBrowser
  Workers = {t1, t2}
  Browsers = {x1, x2, x3}
  Files <- MCFiles
  Folders <- MCFolders
  Profiles <- MCProfiles
  States = {"happy", "sad"}
  Null = Null
  Reloaders = {t1, t2}
  Edits = {d1, d2, Bad}
  Shipped = d1
  Editable <- MCEditable
  Bad = Bad
  Unset = Unset
  Unasked = Unasked
SYMMETRY Symmetry
INVARIANTS
  TypeOK
  ThinkingHasAgent
  SpeakingHasVoice
  ThemeBelongs
  ShownIsChosen
  OneAvatar
  LeftMeansOut
  IndexesAll
  ReloadApplies
  HealthExact
PROPERTY TagsEndWithVoice
