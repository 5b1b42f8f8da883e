--------------------------- MODULE MCDeviceMessages ---------------------------
(* Instances of DeviceMessages for TLC.  The bytes have the bits at the edges  *)
(* of the sextets set and not, up to the largest a signed char can hold.      *)
EXTENDS DeviceMessages

MCBinaries == {<<65>>, <<3, 76, 113, 127, 1>>}
===============================================================================
