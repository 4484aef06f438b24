---------------------------- MODULE MCTaskQueues ----------------------------
(***************************************************************************)
(* Instantiates TaskQueues for TLC. The peer configuration produces the    *)
(* IKE_SA_INIT/IKE_AUTH chain reduced to the tasks that decide activation  *)
(* (VENDOR, INIT, AUTH, ESTABLISH; NATD and the CERT/CONFIG/LIFETIME tasks *)
(* behave like AUTH), a CHILD_SA, and the rekey, delete and DPD        *)
(* tasks whose collisions handle_collisions() resolves.                    *)
(***************************************************************************)
EXTENDS TaskQueues, TLC

ChainAndRekey ==
    {"VENDOR", "INIT", "AUTH", "ESTABLISH", "CHILD_CREATE",
     "IKE_REKEY", "IKE_DELETE", "IKE_DPD"}

\* the chain without VENDOR, with MOBIKE, and DPD
ChainAndDpd == {"INIT", "AUTH", "ESTABLISH", "MOBIKE", "IKE_DPD"}

\* the split queue methods, called before or after IKE_SA_INIT is sent
BeforeAndAfterInit == {"CREATED", "CONNECTING"}

====
