------------------------- MODULE MCMotorSupervision -------------------------
\* Small intervals, so that the status byte, its holdoff and the periodic read
\* of GSTAT meet within two legs; a current of the low range, where IRUN
\* carries it, and one of the middle, where GLOBALSCALER does.
EXTENDS MotorSupervision
MCCurrents == {100, 300}
=============================================================================
