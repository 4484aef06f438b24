--------------------------- MODULE MCTaskManager ---------------------------
(***************************************************************************)
(* Instantiates TaskManager for TLC. The IKE initiator runs IKE_SA_INIT,  *)
(* then IKE_AUTH (fragmented: two fragments, enough for an ACK to list a   *)
(* strict subset and for fragments to arrive out of order) and optionally  *)
(* a CREATE_CHILD_SA; the IKE responder runs one INFORMATIONAL (DPD)        *)
(* exchange once established. The cfg files pick the work lists, the      *)
(* fragment counts, which peers enable SFR and the loss bounds.            *)
(***************************************************************************)
EXTENDS TaskManager, TLC

\* initiator: the IKE_SA setup plus a CHILD_SA; responder: a DPD
WorkChild == (Ini :> <<"IKE_SA_INIT", "IKE_AUTH", "CREATE_CHILD_SA">>)
                @@ (Res :> <<"INFORMATIONAL">>)

\* initiator: the IKE_SA setup only; responder: nothing
WorkSetup == (Ini :> <<"IKE_SA_INIT", "IKE_AUTH">>) @@ (Res :> <<>>)

\* initiator: the IKE_SA setup only; responder: a DPD
WorkSetupDpd == (Ini :> <<"IKE_SA_INIT", "IKE_AUTH">>) @@ (Res :> <<"INFORMATIONAL">>)

\* IKE_AUTH carries the certificates and is fragmented
FragsAuth == [t \in Types |-> IF t = "IKE_AUTH" THEN 2 ELSE 1]

\* IKE_AUTH and CREATE_CHILD_SA (post-quantum KE payloads) are fragmented
FragsAuthChild == [t \in Types |-> IF t \in {"IKE_AUTH", "CREATE_CHILD_SA"} THEN 2 ELSE 1]

SfrBoth == [p \in Peers |-> TRUE]

\* SFR enabled on the initiator only (a peer with charon.selective_...=no)
SfrInitiatorOnly == (Ini :> TRUE) @@ (Res :> FALSE)

\* SFR enabled on the responder only
SfrResponderOnly == (Ini :> FALSE) @@ (Res :> TRUE)

=============================================================================
