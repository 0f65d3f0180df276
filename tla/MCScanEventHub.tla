--------------------------- MODULE MCScanEventHub ---------------------------
(***************************************************************************)
(* ScanEventHub for TLC: two jobs and two browsers.                        *)
(***************************************************************************)
EXTENDS ScanEventHub

CONSTANTS j1, j2, c1, c2

(* Both browsers show the same scan. *)
BothOnOne == [c \in {c1, c2} |-> j1]

(* Each browser shows a scan of its own. *)
OneEach == [c \in {c1, c2} |-> IF c = c1 THEN j1 ELSE j2]
=============================================================================
