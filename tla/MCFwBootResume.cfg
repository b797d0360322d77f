SPECIFICATION Spec
CONSTANTS
  Accelerators = {"SOC"}
  NumChannels = 3
  DescsCount = 3
  PageSize = 2
  Batches <- MCTwoChannels
  SoftReset = TRUE
  MaxBoots = 2
  NoDesc = NoDesc
  Contract = {"memory", "stuck", "reset", "whole"}
INVARIANT StageTwoHasImage
CHECK_DEADLOCK FALSE
