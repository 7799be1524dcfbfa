----------------------------- MODULE MCAdmission -----------------------------
(* The PYNQ-Z2 build on a coarse grid: sizes in MiB and dimensions in units  *)
(* of 1024 pixels, so that 2^32 is 4096, the buffers 128, a descriptor's     *)
(* length field 64, a chunk 32 and the largest image 63 x 63.                *)
EXTENDS Admission

MCDims   == {0, 1, 2, 3, 5, 7, 9, 45, 46, 63, 64}
MCDepths == {8, 12}
MCMaxvals   == {1, 127, 128, 255, 256, 2047, 2048, 4095, 4096, 65535}
MCOverrides == {0, 7, 8, 9, 12, 16, 17}
MCCounts    == {1, 2, 3, 35, 65}
MCLens   == (0 .. 132) \cup {4095}
=============================================================================
