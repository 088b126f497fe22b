---------------------------- MODULE MCUSBConsole ----------------------------
(* Values for the constants of USBConsole.                                   *)
EXTENDS USBConsole

LF == {<<"\n">>}
CRLF == {<<"\r", "\n">>}
=============================================================================
