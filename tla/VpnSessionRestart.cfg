\* Two calls of TunnelControl.start: connect, then a switch of the exit node.
CONSTANT Starts = {t1, t2}
SPECIFICATION SessionSpec
PROPERTY RestartWaitsForStop
