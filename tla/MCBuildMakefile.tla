-------------------------- MODULE MCBuildMakefile --------------------------
(***************************************************************************)
(* A book for checking BuildMakefile.                                      *)
(***************************************************************************)
EXTENDS BuildMakefile

\* Two targets for LUSER, one (kernfs) for SUDO, one each for CHROOT and BOOT.
SmallBook == <<3, 5, 6, 7, 8>>
=============================================================================
