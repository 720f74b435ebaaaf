----------------------------- MODULE TrustPolicy -----------------------------
(***************************************************************************)
(* How MSP judges one skill or pack (components/msp: msp-core/src/         *)
(* trust_policy.rs and msp-registry/src/lib.rs), and whether a version     *)
(* meets a dependency's requirement.                                       *)
(*                                                                         *)
(* A manifest is a record: kind ("skill" or "pack"), version, deps,        *)
(* review, risk, issuer, key, signed, verifies (whether its signature      *)
(* verifies), hash and body ("sound", "altered" or "unreadable").  A       *)
(* policy is a record: default, signed (whether each kind must be), denied *)
(* and reviewed (sets of risks), autoload (the highest risk loaded without *)
(* a review), issuers (the risks and the key of each trusted issuer),      *)
(* effects (those of the rules that match each artifact), and, of its      *)
(* dependency_policy or of the defaults that stand in for it, transitive,  *)
(* acyclic and verified.  Risks are numbered from low to critical.         *)
(***************************************************************************)
EXTENDS Naturals

Actions == {"allow", "review", "approval", "deny"}

\* precedence
Rank(action) == CASE action = "allow"    -> 0
                  [] action = "review"   -> 1
                  [] action = "approval" -> 2
                  [] action = "deny"     -> 3

\* push_decision, over all the decisions.
Strictest(S) == CHOOSE a \in S : \A b \in S : Rank(b) <= Rank(a)

\* An issuer with no risks listed is trusted with every risk.
IssuerTrusted(p, m) ==
  /\ m.issuer \in DOMAIN p.issuers
  /\ p.issuers[m.issuer].risks = {} \/ m.risk \in p.issuers[m.issuer].risks

\* The decisions of evaluate_skill and evaluate_pack.
Decisions(p, id, m) ==
  {p.default} \union p.effects[id]
  \union {d \in {"deny"}     : m.review = "revoked" \/ m.risk \in p.denied}
  \union {d \in {"review"}   : m.review = "deprecated" \/ m.risk \in p.reviewed \/ m.risk > p.autoload}
  \union {d \in {"approval"} : p.signed[m.kind] /\ ~m.signed}
  \union {d \in {"approval"} : DOMAIN p.issuers # {} /\ ~IssuerTrusted(p, m)}

\* verify_skill_manifest_trust and verify_pack_manifest_trust.  A pack is
\* verified from its manifest, so only a skill has a file that may not be read.
Passes(m)       == m.body = "sound" /\ (m.signed => m.verifies)
Unverifiable(m) == m.kind = "skill" /\ m.body = "unreadable"

KeyBound(p, m) == m.issuer \in DOMAIN p.issuers /\ p.issuers[m.issuer].key # "any"

\* evaluate_trust_policy and evaluate_pack_trust_policy look at the body only if
\* the policy asks for signatures or binds the issuer to a key.
NeedsVerification(p, m) == p.signed[m.kind] \/ KeyBound(p, m)

Rejected(p, m) ==
  \/ p.signed[m.kind] /\ ~Passes(m)
  \/ KeyBound(p, m) /\ (~m.signed \/ ~Passes(m) \/ m.key # p.issuers[m.issuer].key)

\* A rejection replaces the action, a stricter one too.
Action(p, id, m) ==
  IF Rejected(p, m) THEN "approval" ELSE Strictest(Decisions(p, id, m))

Allowed(p, id, m) == Strictest(Decisions(p, id, m)) = "allow" /\ ~Rejected(p, m)

\* The evaluation is an error, not a refusal.
EvaluationErrs(p, m) == NeedsVerification(p, m) /\ Unverifiable(m)

-----------------------------------------------------------------------------
(* Versions are records of major, minor, patch and pre; pre is 0 when      *)
(* there is no prerelease identifier.                                      *)

SameCore(v, w) == v.major = w.major /\ v.minor = w.minor /\ v.patch = w.patch

\* semver_at_least
AtLeast(v, w) ==
  \/ v.major > w.major
  \/ v.major = w.major /\ v.minor > w.minor
  \/ v.major = w.major /\ v.minor = w.minor /\ v.patch > w.patch
  \/ SameCore(v, w) /\ (v.pre = 0 \/ (w.pre > 0 /\ v.pre >= w.pre))

\* compatible_semver_match: while the major version is 0 the minor one counts as
\* major, and while both are 0 so does the patch.
Compatible(required, v) ==
  /\ v.major = required.major
  /\ required.major = 0 => v.minor = required.minor
  /\ required.major = 0 /\ required.minor = 0 => v.patch = required.patch

\* version_matches_requirement
VersionMatches(e, v) ==
  /\ v.pre > 0 => e.prerelease
  /\ AtLeast(v, e.requirement)
  /\ CASE e.strategy \in {"exact", "manual"} -> v = e.requirement
       [] e.strategy = "compatible"   -> Compatible(e.requirement, v)
       [] e.strategy = "latest_patch" -> v.major = e.requirement.major /\ v.minor = e.requirement.minor
       [] e.strategy = "latest_minor" -> v.major = e.requirement.major
=============================================================================
