\* One session is enough.
CONSTANT Starts = {t1}
SPECIFICATION SessionSpec
PROPERTY StoppedIsLast
