SPECIFICATION PostingsSpec
INVARIANTS PostingsTypeOK BoardIsSound MirrorIsComplete FetchesAreSound
PROPERTIES PostingsAreKept
CHECK_DEADLOCK FALSE
