------------------------------- MODULE Screens -------------------------------
(* The screens of a cartridge from its secret to its answers: an entry, and *)
(* once it succeeds any of the requests, in any order.                      *)
EXTENDS Confirm, Entry

ScreensInit == EntryInit /\ Init
ScreensNext ==
  \/ (EntryNext \/ Opened) /\ UNCHANGED vars
  \/ scr = "open" /\ Next /\ UNCHANGED entryVars
ScreensSpec == ScreensInit /\ [][ScreensNext]_<<vars, entryVars>>
=============================================================================
