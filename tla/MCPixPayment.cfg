SPECIFICATION Spec
CONSTANTS
  PerCycle = 3
  Target = 1
  InFlight = 2
  Budgeted = 4
  Exhaustion = 2
  Plausible = 10
  Funds = {5, 14}
  Earlier = 1
  Builds = {{"exit", "entry"}, {}}
  MaxCycles = 4
  MaxStake = 1
  MaxBroken = 1
INVARIANTS
  TypeOK
  PassMeansPaid
  AccountsReconcile
  BudgetBinds
