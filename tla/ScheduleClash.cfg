\* One PUT at a time, no faults: presets are not checked for conflicts.
SPECIFICATION Spec
CONSTANTS
  import = import
  users = users
  daily = daily
  monthly = monthly
  d1 = d1
  m1 = m1
  d2 = d2
  m2 = m2
  f = f
  bad = bad
  Jobs = {import, users}
  Crons = {d1, m1, d2, m2, f, bad}
  Presets = {daily, monthly}
  Custom = custom
  PresetCron <- MCPresetCron
  DefaultPreset <- MCDefaultPreset
  CustomCrons = {d1, f, bad}
  Rejected = {bad}
  Clash <- MCClash
  NoRow = NoRow
  NoPut = NoPut
  Reqs = {r1}
  DbFaults = FALSE
INVARIANT CustomClashesWithNone
