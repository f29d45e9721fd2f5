CONSTANTS Workers = {w1} StorageDrivers = {"overlay2"}
SPECIFICATION Spec
INVARIANT StorageCleanedOnFailure
