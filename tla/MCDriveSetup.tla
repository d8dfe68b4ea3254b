---------------------------- MODULE MCDriveSetup ----------------------------
(* Instances of DriveSetup: two drives, each where its retained target says  *)
(* or elsewhere.                                                             *)
EXTENDS DriveSetup
Places == {1, 2}
=============================================================================
