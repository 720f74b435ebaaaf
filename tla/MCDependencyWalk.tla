-------------------------- MODULE MCDependencyWalk --------------------------
(* Small registries and policies for TLC: a skill r that is asked for, a    *)
(* skill s, a pack p, and an id m that is not installed.                     *)
EXTENDS DependencyWalk, TLC

Version(a, b) == [major |-> a, minor |-> b, patch |-> 0, pre |-> 0]

\* A dependency on any version 1.x of an artifact.
To(kind, id) ==
  [kind |-> kind, id |-> id, requirement |-> Version(1, 0), strategy |-> "compatible",
   prerelease |-> FALSE, required |-> TRUE, issuer |-> "any", hash |-> "any", mustBeSigned |-> FALSE]

ToR == To("skill", "r")
ToS == To("skill", "s")
ToP == To("pack", "p")
Plain == {ToR, ToS, ToP}

\* Dependencies that are not met, optional, external, or ask for more.
Special == {[ToS EXCEPT !.requirement = Version(1, 1)], To("skill", "m"),
            [To("skill", "m") EXCEPT !.required = FALSE], To("schema", "m"),
            [ToS EXCEPT !.mustBeSigned = TRUE], [ToP EXCEPT !.issuer = "other"]}

Lists(S, n) == UNION {[1..k -> S] : k \in 0..n}

Good(kind, deps) ==
  [kind |-> kind, deps |-> deps, version |-> Version(1, 0), review |-> "ok", risk |-> 0,
   issuer |-> "us", key |-> "k", signed |-> TRUE, verifies |-> TRUE, hash |-> "h", body |-> "sound"]

\* What the skill s may be like.
Variants(m) == {m, [m EXCEPT !.review = "revoked"], [m EXCEPT !.body = "altered"],
                [m EXCEPT !.body = "unreadable"], [m EXCEPT !.signed = FALSE]}

\* The dependencies of r, the last of which may be special.
RootLists == {<<>>} \union {<<e>> : e \in Plain \union Special}
                    \union {<<d, e>> : d \in Plain, e \in Plain \union Special}

MCRegistries ==
  UNION {{"r" :> Good("skill", dr) @@ "s" :> v @@ "p" :> Good("pack", dp) :
            v \in Variants(Good("skill", ds))} :
          dr \in RootLists, ds \in Lists(Plain, 1), dp \in Lists(Plain, 1)}
  \union
  {"r" :> Good("skill", dr) @@ "s" :> Good("skill", ds) @@ "p" :> Good("pack", dp) :
     dr \in Lists(Plain, 2), ds \in Lists(Plain, 2), dp \in Lists(Plain, 1)}

Lax == [default |-> "allow", signed |-> [k \in {"skill", "pack"} |-> FALSE], denied |-> {}, reviewed |-> {2, 3},
        autoload |-> 3, issuers |-> [i \in {"us"} |-> [risks |-> {}, key |-> "any"]],
        effects |-> [a \in {"r", "s", "p", "m"} |-> {}],
        transitive |-> TRUE, acyclic |-> FALSE, verified |-> TRUE]

MCPolicies ==
  {Lax,
   [Lax EXCEPT !.acyclic = TRUE, !.signed = [k \in {"skill", "pack"} |-> TRUE]],
   [Lax EXCEPT !.transitive = FALSE],
   [Lax EXCEPT !.verified = FALSE, !.acyclic = TRUE, !.effects = [@ EXCEPT !["p"] = {"deny"}]]}
=============================================================================
