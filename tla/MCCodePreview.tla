---------------------------- MODULE MCCodePreview ----------------------------
(* One language on view, one edit: does the code follow?                    *)
EXTENDS CodePreview
Spec == CodeInit /\ [][CodeNext]_codegen
=============================================================================
