------------------------------- MODULE MC_Driver -------------------------------
(***************************************************************************)
(* Instances of DriverProps for TLC.                                       *)
(***************************************************************************)
EXTENDS DriverProps

CONSTANTS inc, lib

Includes        == <<inc, lib>>
LibraryPath     == <<lib>>
EmissionsGiven  == {{}, {"llvm"}, {"object"}, {"assembly", "bitcode"}}
=============================================================================
