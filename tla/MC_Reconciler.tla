---------------------------- MODULE MC_Reconciler ----------------------------
(* Model-checking instances of Reconciler.                                 *)
EXTENDS Reconciler, TLC

\* NATS, Broker and HTTPSrv, in the order reconcile sets them up.
MC_CompSeq == <<"nats", "broker", "httpsrv">>

\* Two components are enough for the liveness run: the loop over them is
\* the same for every index but the last.
MC_TwoComps == <<"nats", "broker">>
=============================================================================
