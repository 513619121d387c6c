---------------------------- MODULE MCDeployment ----------------------------
(* Deployment with one source and one target; the target's name has an upper  *)
(* case letter, so that its Secret is named after another one.               *)
EXTENDS Deployment, TLC

CONSTANTS k1, k2

MCSources == {"s"}
MCTargets == {"T"}
MCLower   == [s |-> "s", T |-> "t"]
MCSourceKinds == {"AWSS3Source", "Service"}
MCTargetKinds == {"Target", "Transformation"}
MCTokens   == {k1, k2}
TokenSymmetry == Permutations(MCTokens)
=============================================================================
