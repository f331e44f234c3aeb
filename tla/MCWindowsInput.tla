---------------------------- MODULE MCWindowsInput ----------------------------
(* WindowsInput with a key and a button; see the .cfg files.               *)
EXTENDS WindowsInput
=============================================================================
