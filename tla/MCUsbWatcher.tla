---------------------------- MODULE MCUsbWatcher ----------------------------
(* Instances of UsbWatcher for TLC. *)
EXTENDS UsbWatcher
=============================================================================
