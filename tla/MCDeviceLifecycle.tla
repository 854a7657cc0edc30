-------------------------- MODULE MCDeviceLifecycle --------------------------
(* An instance of DeviceLifecycle: two threads of each kind at once, and   *)
(* descriptors for a session and for what failed attempts leave open.      *)
EXTENDS DeviceLifecycle

SixFds == 0 .. 5
=============================================================================
