--------------------------- MODULE MCLinuxRunner ---------------------------
(* Instances of LinuxRunner laid out as example.toml is: the Wasm process  *)
(* in group 0 and stress-ng in group 1, each with a CPU of its own.        *)
EXTENDS LinuxRunner

MCGroupOf == [p \in Procs |-> IF p = Wasm THEN 0 ELSE 1]

MCCpuOf == [p \in Procs |-> IF p = Wasm THEN "cpu6" ELSE "cpu7"]
=============================================================================
