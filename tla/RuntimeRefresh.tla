--------------------------- MODULE RuntimeRefresh ---------------------------
(***************************************************************************)
(* The refresh rule for the Client's chain identity (spec.md 5 and 9):    *)
(* the spec version and metadata are replaced together, by one writer,    *)
(* exactly when the chain reports a spec version different from the one  *)
(* held; the metadata is the chain's at some moment after that report.   *)
(* A failed metadata request leaves the version and holds no metadata.   *)
(***************************************************************************)
EXTENDS Naturals

CONSTANTS
    MaxSpec,   \* bound on the chain's spec version
    Nil        \* no metadata held

VARIABLES
    chainSpec, \* the spec version of the chain's runtime
    cSpec,     \* the spec version the Client holds
    cMeta      \* the spec version of the metadata the Client holds, or Nil

vars == <<chainSpec, cSpec, cMeta>>

Init ==
    /\ chainSpec = 1
    /\ cSpec = 1
    /\ cMeta = 1

Upgrade ==
    /\ chainSpec < MaxSpec
    /\ chainSpec' = chainSpec + 1
    /\ UNCHANGED <<cSpec, cMeta>>

\* The chain reported v, a change; metadata m was fetched no earlier.
RefreshTo ==
    \E v \in 1..chainSpec, m \in 1..chainSpec :
        /\ v # cSpec
        /\ v <= m
        /\ cSpec' = v
        /\ cMeta' = m
        /\ UNCHANGED chainSpec

RefreshFails ==
    \E v \in 1..chainSpec :
        /\ v # cSpec
        /\ cMeta' = Nil
        /\ UNCHANGED <<chainSpec, cSpec>>

Next == Upgrade \/ RefreshTo \/ RefreshFails

Spec == Init /\ [][Next]_vars

=============================================================================
