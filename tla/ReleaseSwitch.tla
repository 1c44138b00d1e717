---------------------------- MODULE ReleaseSwitch ----------------------------
(***************************************************************************)
(* What Elira's release manager promises (docs/RELEASE_LIFECYCLE.md):      *)
(* whatever is killed or fails, and whenever, the selected release and the *)
(* user's data change together and at once.  A confirmed release is either *)
(* installed, on the data of that moment, or rejected, and then neither    *)
(* the selection nor the data shows that it was tried.  ReleaseManager     *)
(* implements this with a drain, a snapshot and recorded phases.           *)
(***************************************************************************)
EXTENDS Naturals

CONSTANTS Releases, NoRelease

VARIABLES
    active,     \* the selected release
    approved,   \* the release the user has confirmed and that waits
    work,       \* how much of the user's work the data holds
    ran         \* the releases whose startup the data has been through

vars == <<active, approved, work, ran>>

Init ==
    /\ active = NoRelease /\ approved = NoRelease
    /\ work = 0 /\ ran = {}

Approve(r) ==
    /\ approved = NoRelease /\ approved' = r
    /\ UNCHANGED <<active, work, ran>>

Reject ==
    /\ approved' = NoRelease
    /\ UNCHANGED <<active, work, ran>>

Install ==
    /\ approved # NoRelease
    /\ active' = approved /\ approved' = NoRelease
    /\ ran' = ran \cup {approved}
    /\ UNCHANGED work

Work ==
    /\ active # NoRelease
    /\ work' = work + 1
    /\ UNCHANGED <<active, approved, ran>>

Next == (\E r \in Releases : Approve(r)) \/ Reject \/ Install \/ Work

Spec == Init /\ [][Next]_vars

=============================================================================
