------------------------ MODULE MCTransitionController ------------------------
(* Small instances of TransitionController.                                    *)
EXTENDS TransitionController

CONSTANTS
    good,      \* a spec that works
    unknown,   \* a kind nobody installed
    refused,   \* a selector the API server refuses to list
    k1, absent, none
=============================================================================
