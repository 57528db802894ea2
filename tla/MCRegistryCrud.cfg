SPECIFICATION Spec
CONSTANTS
  Absent = Absent
  None = None
  s1 = s1
  k1 = k1
  t1 = t1
  t2 = t2
  v1 = v1
  v2 = v2
  Sid = {s1, k1}
  SkillSid = {k1}
  Value = {v1, v2}
  Sources = {"api_config", "ephemeral"}
  Thread = {t1, t2}
SYMMETRY Symmetry
INVARIANTS CacheFollowsEntries FileFollowsCache  AnnouncedFollowsEntries
CHECK_DEADLOCK TRUE
