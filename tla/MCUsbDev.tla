------------------------------ MODULE MCUsbDev ------------------------------
(* One port, two transfers each way, two devices one after the other.      *)
EXTENDS UsbDev
=============================================================================
