------------------------------ MODULE MCIwyuTool ------------------------------
(* IwyuTool with the exit codes of success, of suggestions and of signals. *)
EXTENDS IwyuTool

MCExitCodes == {-11, -6, 0, 2}
=============================================================================
