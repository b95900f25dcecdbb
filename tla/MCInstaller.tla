----------------------------- MODULE MCInstaller -----------------------------
(* Small instances of Installer: the scripts of scripts/install, up to two  *)
(* terminals, one launch directory, and a home directory.                   *)
EXTENDS Installer, TLC

CONSTANTS op1, op2, svc, repo, home

InstallScripts ==
    {"common_deps.sh", "python.sh", "nvidia.sh", "docker.sh", "validate_env.sh",
     "vllm.sh", "download_and_install_models.sh"}

OneOperator == {op1}
TwoOperators == {op1, op2}
RepoOnly == {repo}
RepoAndHome == {repo, home}
Symmetry == Permutations(TwoOperators)
=============================================================================
