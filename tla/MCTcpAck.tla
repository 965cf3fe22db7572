------------------------------ MODULE MCTcpAck ------------------------------
(***************************************************************************)
(* Instances of TcpAck.                                                    *)
(***************************************************************************)
EXTENDS TcpAck

CONSTANTS c1, c2   \* connections

=============================================================================
