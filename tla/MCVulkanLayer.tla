---------------------------- MODULE MCVulkanLayer ----------------------------
EXTENDS VulkanLayer, TLC

MCSymmetry ==
  Permutations(Threads) \cup Permutations(Chains) \cup Permutations(Hwnds) \cup Permutations(Textures)
=============================================================================
