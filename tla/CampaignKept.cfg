SPECIFICATION Spec
CONSTANTS
  MaxCalls = 2
  Overlap = TRUE
INVARIANTS SelectedCampaignStays
CHECK_DEADLOCK FALSE
