---------------------------- MODULE MCSocketRecv ----------------------------
(* Small instances of SocketRecv for TLC. *)
EXTENDS SocketRecv, TLC

CONSTANTS c1, c2, s1, s2

OneClient == c1 :> s1
OneSocketEach == (c1 :> s1) @@ (c2 :> s2)
\* For recv_live with two clients: ReceiverServed fails, see the README.
OneSocketShared == (c1 :> s1) @@ (c2 :> s1)
=============================================================================
