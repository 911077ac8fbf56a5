---------------------------- MODULE AuditAuthority ----------------------------
(***************************************************************************)
(* The Independent Audit authority (trust_audit.py,                        *)
(* trust_audit_verified.py): trust roots, the grants that let issuers      *)
(* audit under them, revocations, and which audits they make binding.      *)
(*                                                                         *)
(* Every entry of the registry is named by the hash of its contents, so an *)
(* entry is its contents. Every timestamp may be given by the caller; the  *)
(* registry itself is taken to be older than all of them.                  *)
(***************************************************************************)
EXTENDS Naturals

CONSTANTS
  Actor,    \* people who own trust roots, audit, review and record
  Time,     \* timestamps
  None

TrustRoot == [subject : Actor, registered : Time, from : Time, until : Time \cup {None}]

Grant == [root : TrustRoot, issuer : Actor, granted : Time, from : Time, until : Time \cup {None}]

Revocation == [grant : Grant, effective : Time, recorded : Time, retroactive : BOOLEAN]

AuthorityRegistry ==
  [roots : SUBSET TrustRoot, grants : SUBSET Grant, revocations : SUBSET Revocation]

EmptyAuthority == [roots |-> {}, grants |-> {}, revocations |-> {}]

Within(t, entry) == t >= entry.from /\ (entry.until # None => t <= entry.until)

ProperInterval(entry) == entry.until # None => entry.until > entry.from

-----------------------------------------------------------------------------
(* The conditions that the verifier and the commands share.                *)

RootIsSound(root) == root.from >= root.registered /\ ProperInterval(root)

GrantIsSound(grant) ==
  /\ grant.from >= grant.granted
  /\ Within(grant.from, grant.root)
  /\ ProperInterval(grant)
  /\ grant.until # None /\ grant.root.until # None => grant.until <= grant.root.until

RevocationMayReachBack(revocation) ==
  /\ revocation.effective >= revocation.grant.from
  /\ revocation.recorded >= revocation.grant.granted

RevocationIsSound(revocation) ==
  /\ revocation.effective >= revocation.grant.from
  /\ revocation.recorded >= revocation.grant.granted
  /\ ~ revocation.retroactive => revocation.effective >= revocation.recorded

(* verify_authority_registry_data, for a registry whose hashes are intact. *)
VerifyAuthority(auth) ==
  /\ \A root \in auth.roots : RootIsSound(root)
  /\ \A grant \in auth.grants : grant.root \in auth.roots /\ GrantIsSound(grant)
  /\ \A revocation \in auth.revocations :
        /\ revocation.grant \in auth.grants
        /\ RevocationIsSound(revocation)
        /\ \A other \in auth.revocations :
              other.grant = revocation.grant => other = revocation

-----------------------------------------------------------------------------
(* add_trust_root, authorize_issuer, revoke_issuer *)

WithRoot(auth, root) == [auth EXCEPT !.roots = @ \cup {root}]

CanAddRoot(auth, root) == root \notin auth.roots /\ VerifyAuthority(WithRoot(auth, root))

WithGrant(auth, grant) == [auth EXCEPT !.grants = @ \cup {grant}]

CanAuthorize(auth, grant) == grant \notin auth.grants /\ VerifyAuthority(WithGrant(auth, grant))

WithRevocation(auth, revocation) == [auth EXCEPT !.revocations = @ \cup {revocation}]

CanRevoke(auth, revocation) ==
  /\ \A earlier \in auth.revocations : earlier.grant # revocation.grant
  /\ VerifyAuthority(WithRevocation(auth, revocation))

-----------------------------------------------------------------------------
(* _grant_active_at *)
ActiveAt(auth, grant, t) ==
  /\ grant.root \in auth.roots
  /\ Within(t, grant.root)
  /\ Within(t, grant)
  /\ t >= grant.granted
  /\ \A revocation \in auth.revocations :
        revocation.grant = grant => t < revocation.effective

(* evaluate_audit_authority: an audit issued under the grant at t binds.   *)
Binds(auth, grant, t) == grant \in auth.grants /\ ActiveAt(auth, grant, t)
=============================================================================
