--------------------------- MODULE MCCampaignOverlap ---------------------------
(* Two processes on one campaign, which two persons may use at two times   *)
(* or at once.                                                             *)
EXTENDS CampaignOverlap, MCProspectiveCampaign

Registries == {registry} \cup ({job[o].registry : o \in Operator} \ {None})
RecordedEvents == UNION {{r.events[i] : i \in DOMAIN r.events} : r \in Registries}
Known == UNION {r.cases : r \in Registries}

(* Overlapping processes take in two reports on one task and review one of *)
(* them from two packets; a process alone also reviews and closes cases of *)
(* two tasks, as two persons at two times.                                 *)
Instance ==
  IF overlapped
  THEN /\ third \notin Known
       /\ \A e \in RecordedEvents : e.packet # None /\ e.actor = alice /\ e.at = 0
  ELSE /\ second \notin Known
       /\ \A e \in RecordedEvents : e.packet # later

(* The history acked matters to one process at a time only. *)
FilesProcessesHistory ==
  <<registry, manifest, dirs, pc, job, crashes, overlapped, IF overlapped THEN {} ELSE acked>>
=============================================================================
