\* esp0 after repeated execute/halt cycles on one terminal: halt sets
\* esp0 to the child's parent_ksp, below the parent's original esp0.
CONSTANTS
  NUM_MAX_PROCESSES = 6
  ExecuteDepth <- MCExecuteDepth
SPECIFICATION Spec
INVARIANT KernelStackAbovePcb
