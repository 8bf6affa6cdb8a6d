---------------------------- MODULE InstalledImage ----------------------------
(***************************************************************************)
(* What the device promises about its firmware, seen from outside.  It has *)
(* one installed image, which every start runs.  A new image takes its     *)
(* place in one step, whole, as its sender signed it, and only if it is    *)
(* the one of the newest upload; nothing is left of an upload that did not *)
(* get that far.  An image is confirmed only while it runs.  Images are    *)
(* numbered in the order of their uploads; 0 is the one from the factory.  *)
(***************************************************************************)
EXTENDS Naturals

CONSTANT None

VARIABLES
    uploads,    \* how many images have been uploaded, whatever became of them
    installed,  \* the image that the next start runs
    confirmed,  \* has the installed image been confirmed?
    booted      \* the image that is running, or None

Init ==
    /\ uploads = 0
    /\ installed = 0
    /\ confirmed = FALSE
    /\ booted = None

Upload ==
    /\ uploads' = uploads + 1
    /\ UNCHANGED <<installed, confirmed, booted>>

\* An upload is installed once, and while the device runs.
Install ==
    /\ booted # None
    /\ installed < uploads
    /\ installed' = uploads
    /\ confirmed' = FALSE
    /\ UNCHANGED <<uploads, booted>>

Stop ==
    /\ booted' = None
    /\ UNCHANGED <<uploads, installed, confirmed>>

Start ==
    /\ booted = None
    /\ booted' = installed
    /\ UNCHANGED <<uploads, installed, confirmed>>

Confirm ==
    /\ booted = installed
    /\ confirmed' = TRUE
    /\ UNCHANGED <<uploads, installed, booted>>

Next == Upload \/ Install \/ Stop \/ Start \/ Confirm

Spec == Init /\ [][Next]_<<uploads, installed, confirmed, booted>>

=============================================================================
