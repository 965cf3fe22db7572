------------------------------- MODULE MCUsbRx -------------------------------
(***************************************************************************)
(* Instances of UsbRx.                                                     *)
(***************************************************************************)
EXTENDS UsbRx
=============================================================================
