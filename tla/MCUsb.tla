------------------------------- MODULE MCUsb -------------------------------
(* Small instances of UsbDiscovery for TLC.                                *)
EXTENDS UsbDiscovery

(* LIBUSB_ERROR_IO, _ACCESS and _BUSY.                                     *)
LibusbErrors == {-1, -3, -6}
=============================================================================
