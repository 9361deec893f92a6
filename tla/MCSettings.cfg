SPECIFICATION Spec
CONSTANTS
  m1 = m1
  m2 = m2
  Name <- TwoNames
  Login = {u1, u2}
  Default = u1
  Provider <- TwoProviders
  Model = {m1, m2}
  Lists <- TwoLists
  MaxLogins = 3
  MaxAsked = 2
  None = None
VIEW WhileRefused
INVARIANTS TypeOK PathExists SelectedShown DiscardsRefused
PROPERTY LosesOnlyChosen
