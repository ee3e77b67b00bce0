SPECIFICATION Spec
CONSTANTS
  Tasks = {t1, t2, t3}
  Tabs = {s1, s2}
  s1 = s1
  s2 = s2
  any = any
  url = url
  domain = domain
  group = group
  index = index
  raw = raw
  AnyKey = any
  UrlKeys = {url}
  DomainKeys = {domain}
  GroupKeys = {group}
  IndexKeys = {index}
  RawKeys = {raw}
  Selects <- MCSelects
  Generic = generic
  None = none
INVARIANTS
  OneLinePerKey
  MonitorGivesWay
  OneHolder
PROPERTIES
  FirstComeFirstServed
CHECK_DEADLOCK FALSE
SYMMETRY Symmetry
