---------------------------- MODULE MCUsbDevice ----------------------------
(* One request of every dispatch class.                                      *)
EXTENDS UsbDevice

MCRequests ==
  {"setAddress", "setConfiguration", "clearIn", "clearOut", "setIdle", "massStorageReset",
   "getDescriptor", "setReport", "getStatus"}
=============================================================================
