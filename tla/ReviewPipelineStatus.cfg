SPECIFICATION Spec
CONSTANTS
  Agents <- Reviewer
  Events <- TwoEvents
  Kinds <- AnyFile
  MaxFaults = 0
PROPERTIES StatusFollowsDiagram
CHECK_DEADLOCK FALSE
