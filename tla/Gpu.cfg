\* Every model of at most four operations, executed twice; any may fail.
SPECIFICATION Spec
CONSTANTS
  Prepared <- Models
  Null = Null
  Failures = TRUE
  PoolCounts = {1, 2}
  MaxRuns = 2
  MaxOps = 4
  Backends = {"gles", "vulkan"}
  ConstantKinds = {"CONSTANT_COPY", "CONSTANT_REFERENCE"}
  ConstantOutputs = FALSE
INVARIANTS DeliversResults BuffersComeBack
\* It ends after MaxRuns executions.
CHECK_DEADLOCK FALSE
