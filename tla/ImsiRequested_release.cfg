SPECIFICATION Spec
CONSTANT Threshold = 50
PROPERTY RequestAfterReleaseWarns
