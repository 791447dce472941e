SPECIFICATION Spec
CONSTANTS
  Transactions = {t1, t2}
  Month = 2
  MonthsPerYear = 2
  TrialLengths = {0, 1}
  MaxTime = 4
  MaxUsers = 2
  MaxPlans = 3
  MaxEntries = 4
  MaxDeaths = 1
  MaxChanges = 3
INVARIANTS OneLivePlan NeverBilledTwice EveryLicensePaid NoPeriodPaidTwice NoUnpaidPeriod CancellationHonoured LicensesForAllUsers
CONSTRAINT NotCrossed
CHECK_DEADLOCK FALSE
SYMMETRY Symmetry
