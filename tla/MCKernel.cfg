SPECIFICATION KernelSpec
CONSTANTS
  NPROC = 3
  Cpu = {c1, c2}
  None = none
  p1 = p1
  p2 = p2
  p3 = p3
  h0 = h0
  h1 = h1
  i1 = i1
  NoIrq = NoIrq
  Nobody = nobody
INVARIANTS OneStackOneCpu InterruptsMatch NoLostWakeup TransfersSafe InputKept ContextKept SleepsInTime
PROPERTIES KernelResumes
