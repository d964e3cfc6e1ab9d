------------------------------- MODULE MCScan -------------------------------
(* Frames one word longer than a record: every way a frame can tear the    *)
(* four words of a record occurs, as with the real 16065-word frame.  The  *)
(* tags are also indices of records, so torn records pass for whole ones.  *)
EXTENDS Scan
=============================================================================
