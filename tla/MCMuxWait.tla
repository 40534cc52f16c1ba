----------------------------- MODULE MCMuxWait -----------------------------
(* Values of MuxWait's constants that a cfg cannot write.                  *)
EXTENDS MuxWait

Forever          == {-1}
ShortTimeouts    == 0 .. 7
TimedOrForever   == -1 .. 3
\* With Scale 2 and Width 16 a sleep of 8 ticks wraps to none.
LongTimeouts     == 0 .. 9
=============================================================================
