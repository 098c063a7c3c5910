---------------------------- MODULE MCPHPRelease ----------------------------
(* Model checking of the releases of a PHP application; the constants are  *)
(* given by the configurations.                                            *)
EXTENDS PHPRelease
=============================================================================
