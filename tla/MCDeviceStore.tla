--------------------------- MODULE MCDeviceStore ---------------------------
(* TLC instance of DeviceStore and of its refinements.                     *)
EXTENDS DeviceStoreRefines, TLC

Symmetry == Permutations(Threads) \cup Permutations(Users)
=============================================================================
