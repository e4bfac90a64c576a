\* Three calls of TunnelControl.start, overlapping one another and the taps
\* that stop, the extension process, and its end at any moment.
CONSTANT Starts = {t1, t2, t3}
SPECIFICATION FairSessionSpec
INVARIANTS SessionTypeOK SilenceIsExplained
PROPERTIES AttachWhenUp StoppedStays ConnectingEnds ConnectionsFade
