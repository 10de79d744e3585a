---------------------------- MODULE MCTestClient ----------------------------
(* TestClient alone with the server, or followed by one client that awaits. *)
EXTENDS TestClient

AllRoutes == {Tests[i] : i \in 1 .. Len(Tests)}
=============================================================================
