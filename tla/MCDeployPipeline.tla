-------------------------- MODULE MCDeployPipeline -------------------------
(***************************************************************************)
(* Instances of DeployPipeline for TLC.  Three deployments of one          *)
(* application, of which a success keeps one image, with any two mishaps:  *)
(* the third deployment replaces a second one whose own switch went wrong. *)
(* The runs that show a behaviour the documentation excludes need two      *)
(* deployments and no mishap.  Deployments are interchangeable: no action  *)
(* and no property of the safety run names one of them.                    *)
(***************************************************************************)
EXTENDS DeployPipeline, TLC

Interchangeable == Permutations(Deployments)
=============================================================================
