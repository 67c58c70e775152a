-------------------------- MODULE MCBluetoothLink ---------------------------
(* A small instance of BluetoothLink for TLC. *)
EXTENDS BluetoothLink

TwoClients == 1..2
=============================================================================
