---------------------------- MODULE MCClipCursor ----------------------------
(* Two rectangles: the application may change its mind while input is      *)
(* blocked or a call runs.                                                 *)
EXTENDS ClipCursor

CONSTANTS r1, r2, full
=============================================================================
