------------------------- MODULE VersionedRegistry -------------------------
(***************************************************************************)
(* What the registry of one model promises to everyone who reads it:       *)
(*                                                                         *)
(*   - a version appears once, complete, and never changes or disappears;  *)
(*   - the first one is 1.0.0; every later one is the next version of one  *)
(*     that is already there and whose score it beats.                     *)
(*                                                                         *)
(* A person may withdraw a version for which an older one is left.         *)
(*                                                                         *)
(* No directories, no files, no processes: Retrain implements this.        *)
(***************************************************************************)
EXTENDS Semver

CONSTANTS Version,          \* the versions considered
          Entry,            \* what a reader of a published version gets
          Unpublished,      \* no entry
          Beats(_, _)       \* Beats(e, f): e may succeed f

VARIABLE published

RInit == /\ published \in [Version -> Entry \cup {Unpublished}]
         /\ \A v \in Version : published[v] # Unpublished => v = FirstVersion

\* v is the next version of a published one whose entry e beats.
Succeeds(v, e) ==
    \E u \in Version, b \in Bump :
        /\ published[u] # Unpublished
        /\ v = NextVersion(u, b)
        /\ Beats(e, published[u])

\* The new entry is named by published'[v], and nothing else changes.
Publish(v) ==
    /\ published[v] = Unpublished
    /\ published'[v] \in Entry
    /\ published' = [published EXCEPT ![v] = published'[v]]
    /\ \/ v = FirstVersion /\ \A u \in Version : published[u] = Unpublished
       \/ Succeeds(v, published'[v])

RNext == \E v \in Version : Publish(v)

RSpec == RInit /\ [][RNext]_published

Withdraw(v) ==
    /\ published[v] # Unpublished
    /\ \E u \in Version : published[u] # Unpublished /\ VersionLess(u, v)
    /\ published' = [published EXCEPT ![v] = Unpublished]

WSpec == RInit /\ [][RNext \/ \E v \in Version : Withdraw(v)]_published
=============================================================================
