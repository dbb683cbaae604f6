-------------------------------- MODULE Services --------------------------------
(* AlertChanges, BackupChanges and MissionAdmission side by side.  They     *)
(* share nothing, so a behaviour is one of one of them, while the others    *)
(* rest.                                                                    *)
EXTENDS AlertChanges, BackupChanges, MissionAdmission

VARIABLE part           \* the service at work
svars == <<part, avars, bvars, mvars>>
ServicesInit ==
    /\ part \in {"alerts", "backup", "missions"}
    /\ AlertInit /\ BackupInit /\ MissionInit
ServicesNext ==
    /\ UNCHANGED part
    /\ \/ part = "alerts" /\ AlertNext /\ UNCHANGED <<bvars, mvars>>
       \/ part = "backup" /\ BackupNext /\ UNCHANGED <<avars, mvars>>
       \/ part = "missions" /\ MissionNext /\ UNCHANGED <<avars, bvars>>
ServicesSpec == ServicesInit /\ [][ServicesNext]_svars /\ BackupFairness

(* The three services' states have their types: among what these say, the   *)
(* pollers' line holds each change that is applying once and nothing else,  *)
(* no mission waits twice, and a slot that was lost is never given back.    *)
ServicesTypeOK == AlertTypeOK /\ BackupTypeOK /\ MissionTypeOK
=============================================================================
