--------------------------- MODULE MCBuildScript ----------------------------
(***************************************************************************)
(* Constants for model checking BuildScript: configurations in which the   *)
(* lists of libraries differ, and one in which they must not matter.       *)
(***************************************************************************)
EXTENDS BuildScript

Native(vendor, features) == [host |-> vendor, target |-> vendor, features |-> features]

MCBackends == {"cuda", "hipblas", "sycl", "musa", "vulkan", "opencl", "openvino"}

MCConfigs ==
  {Native("other", {}), Native("other", MCBackends), Native("other", {"openblas"}),
   Native("apple", {}), Native("apple", {"metal", "coreml"}), Native("apple", {"openblas"}),
   [host |-> "other", target |-> "apple", features |-> {}]}
MCPlain    == {Native("other", {})}
MCOpenblas == {Native("other", {"openblas"})}

MCFiles == {"whisper.cpp", "ggml.c"}
=============================================================================
