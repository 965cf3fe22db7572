------------------------------- MODULE MCUsbTx -------------------------------
(***************************************************************************)
(* Instances of UsbTx.                                                     *)
(***************************************************************************)
EXTENDS UsbTx, TLC

\* Socket buffers are alike.
SkbSymmetry == Permutations(CfmSkbs)

\* The run ends where the ring was overrun.
RingIntact == ~overrun
=============================================================================
