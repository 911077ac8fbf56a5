-------------------------- MODULE MCEvidencePackages --------------------------
(***************************************************************************)
(* A routine case (R0) and a hazardous one; an audit of the first by ann,  *)
(* who also decides about it; an evaluation that finds either case unsafe, *)
(* and a second one that finds the first safe. Captures are at 0,          *)
(* everything recorded at 1.                                               *)
(***************************************************************************)
EXTENDS EvidencePackages, TLC

CONSTANTS routine, hazard, ann, bob, audit, evaluation, second, packet

MCTaskOf == [c \in Report |-> c]
MCCaseOf == [k \in Packet |-> routine]
MCR0 == {routine}
MCCapturedAt == [c \in Report |-> 0]
MCIssuerOf == (audit :> ann @@ evaluation :> None @@ second :> None)

root == [subject |-> ann, registered |-> 0, from |-> 0, until |-> None]
grantAnn == [root |-> root, issuer |-> ann, granted |-> 0, from |-> 0, until |-> None]
MCRoots == {root}
MCGrants == {grantAnn}

revoked(grant, effective, retroactive) ==
  [grant |-> grant, effective |-> effective, recorded |-> 1, retroactive |-> retroactive]
MCRevocations == {revoked(grantAnn, 0, TRUE), revoked(grantAnn, 0, FALSE)}

MCArtifact == (audit :> [case |-> routine, verdict |-> "SAFE", grant |-> grantAnn, at |-> 0])

MCProves ==
  {<<evaluation, hazard, "UNSAFE">>, <<evaluation, routine, "UNSAFE">>, <<second, routine, "SAFE">>}

submitted(c, s, v, a, t) == [case |-> c, authority |-> s, verdict |-> v, actor |-> a, at |-> t]
MCSubmissions ==
  {submitted(routine, audit, "SAFE", ann, 1),
   submitted(hazard, evaluation, "UNSAFE", bob, 1),
   submitted(routine, evaluation, "UNSAFE", bob, 1),
   submitted(routine, second, "SAFE", bob, 1)}

MCDecisions == {<<packet, ann, 1>>}

MCMinimum == [cases |-> 1, reviewed |-> 1, conclusive |-> 1, safe |-> 1, unsafe |-> 1,
              audited |-> 1, coverage |-> 100]
=============================================================================
