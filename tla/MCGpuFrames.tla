----------------------------- MODULE MCGpuFrames -----------------------------
EXTENDS GpuFrames

CONSTANTS c1, c2, q1, q2

Vulkan(cs, is, more) ==
  [api |-> "vulkan", chains |-> cs, images |-> is, queues |-> {}, commits |-> more,
   depth |-> 0]
Dx12(qs, d) ==
  [api |-> "dx12", chains |-> {c1}, images |-> {}, queues |-> qs, commits |-> TRUE,
   depth |-> d]

MCCases ==
  {Vulkan({c1}, {0, 1}, TRUE), Vulkan({c1, c2}, {0}, FALSE), Dx12({q1}, 4), Dx12({q1, q2}, 3)}
=============================================================================
