SPECIFICATION Spec
CONSTANTS
  r1 = r1
  r2 = r2
  Request = {r1, r2}
  Account = {"a", "b"}
  Principal <- MCPrincipal
  Asks <- MCAsks
  Tag = {"tag a", "tag b"}
  Ref = {"task", "item b"}
  List = {"home"}
  Owner <- MCOwner
  Kind <- MCKind
  ListOf <- MCListOf
  Nobody = Nobody
  Nothing = Nothing
SYMMETRY Symmetry
PROPERTY OnlyAdmittedRequestsAct
PROPERTY AssignmentsStayInTheTenant
