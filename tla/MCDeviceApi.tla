----------------------------- MODULE MCDeviceApi -----------------------------
(* Instance of DeviceApi, and of the AirPlay protocol in it. *)
EXTENDS DeviceApi
=============================================================================
