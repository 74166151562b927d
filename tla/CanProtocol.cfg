SPECIFICATION Spec
CONSTANTS
  CellCount = 5
  Statuses <- MCStatuses
  Voltages <- MCVoltages
  Faults <- MCFaults
  Commands <- MCCommands
  Garbage <- MCGarbage
INVARIANT DecodesExactly
