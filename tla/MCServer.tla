------------------------------- MODULE MCServer -------------------------------
(***************************************************************************)
(* A server with one announcement to show, two changes of the file and one *)
(* failing system call, and a source that may have two packets answered    *)
(* within two units of time.                                               *)
(***************************************************************************)
EXTENDS Server
=============================================================================
