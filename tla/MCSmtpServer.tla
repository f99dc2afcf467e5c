---------------------------- MODULE MCSmtpServer ----------------------------
(* Small instances of SmtpServer for TLC. *)
EXTENDS SmtpServer
=============================================================================
