----------------------------- MODULE MCFtpSession -----------------------------
(* Instances of FtpSession for TLC. *)
EXTENDS FtpSession

OneArgument == {<<"a">>}

(* A key as a client names it relative to the working directory, and in    *)
(* full.                                                                   *)
BothForms == {<<"a">>, <<"/", "a">>}
=============================================================================
