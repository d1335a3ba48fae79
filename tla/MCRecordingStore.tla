-------------------------- MODULE MCRecordingStore --------------------------
\* Bounds for model checking RecordingStore: two distinguishable seconds are
\* enough for a collision and for an older and a newer recording, three
\* entries for a removal before, at and after a collision.
EXTENDS RecordingStore
=============================================================================
