---- MODULE MCSearchDaemon ----
(* Instances of SearchDaemon for TLC. *)
EXTENDS SearchDaemonProps, TLC

CONSTANTS k1, k2, k3   \* clients

\* One TCP client that is answered, one that is not, and one Unix client.
MCVia == k1 :> "tcp" @@ k2 :> "tcp" @@ k3 :> "unix"
MCSends == k1 :> "good" @@ k2 :> "nothing" @@ k3 :> "bad"
====
