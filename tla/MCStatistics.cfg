\* 2022 began on a Saturday.
CONSTANTS
  Year0 = 2022
  Weekday0 = 5
  Months = 38
  Parts = 2
  Days <- MCDays
  Dates <- MCDates
  NTiers = 2
  Supply = 1
  MaxSales = 2
  None = None
SPECIFICATION Spec
INVARIANTS
  TypeOK PeriodsCompared PartsAgree LabelsInOrder
  SoldBetween
