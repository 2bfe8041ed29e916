---------------------------- MODULE MCDeviceMatmul ----------------------------
(* Instances of DeviceMatmul for TLC.  Buffers are interchangeable handles.  *)
EXTENDS DeviceMatmul, TLC

BufferSymmetry == Permutations(Buffers)
===============================================================================
