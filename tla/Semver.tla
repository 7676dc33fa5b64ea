------------------------------- MODULE Semver -------------------------------
(***************************************************************************)
(* Semantic versions MAJOR.MINOR.PATCH as the repository orders and bumps  *)
(* them.  A version is the triple of integers that _version_key (retrain)  *)
(* and _version_sort_key (loader) parse from the directory name; Python's  *)
(* tuple comparison is the lexicographic order.                            *)
(***************************************************************************)
EXTENDS Integers

Semver == Nat \X Nat \X Nat

Bump == {"major", "minor", "patch"}

FirstVersion == <<1, 0, 0>>

\* v sorts strictly below w: tuple comparison, part by part.
VersionLess(v, w) ==
    \/ v[1] < w[1]
    \/ v[1] = w[1] /\ v[2] < w[2]
    \/ v[1] = w[1] /\ v[2] = w[2] /\ v[3] < w[3]

\* The last element of the versions sorted by that key.
IsHighest(v, versions) == \A w \in versions : ~ VersionLess(v, w)

NextVersion(current, bump) ==
    CASE bump = "major" -> <<current[1] + 1, 0, 0>>
      [] bump = "minor" -> <<current[1], current[2] + 1, 0>>
      [] bump = "patch" -> <<current[1], current[2], current[3] + 1>>
=============================================================================
