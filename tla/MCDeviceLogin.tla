---------------------------- MODULE MCDeviceLogin ----------------------------
(***************************************************************************)
(* Two sign-ins and a sign-out that reuses the process id of the first.    *)
(***************************************************************************)
EXTENDS DeviceLogin, TLC

CONSTANTS c1, c2, c3, q1, q2

MCPidOf == c1 :> q1 @@ c2 :> q2 @@ c3 :> q1

=============================================================================
