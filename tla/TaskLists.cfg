SPECIFICATION Spec
CONSTANTS
  r1 = r1
  r2 = r2
  t1 = t1
  t2 = t2
  home = home
  Request = {r1, r2}
  List = {home, Inbox}
  Inbox = Inbox
  Task = {t1, t2}
  NoTask = NoTask
  Unused = Unused
  Deleted = Deleted
SYMMETRY Symmetry
PROPERTY WritesStayInTheList
PROPERTY NothingActiveIsArchived
PROPERTY ReorderIsWhole
