\* Two concurrent PUTs, failing commits, restarts.
SPECIFICATION Spec
CONSTANTS
  import = import
  users = users
  daily = daily
  monthly = monthly
  d1 = d1
  m1 = m1
  d2 = d2
  m2 = m2
  f = f
  bad = bad
  Jobs = {import, users}
  Crons = {d1, m1, d2, m2, f, bad}
  Presets = {daily, monthly}
  Custom = custom
  PresetCron <- MCPresetCron
  DefaultPreset <- MCDefaultPreset
  CustomCrons = {f, bad}
  Rejected = {bad}
  Clash <- MCClash
  NoRow = NoRow
  NoPut = NoPut
  Reqs = {r1, r2}
  DbFaults = TRUE
SYMMETRY MCSymmetry
INVARIANTS TypeOK StartupSafe TimerFollowsRow RowIsOneRequest
