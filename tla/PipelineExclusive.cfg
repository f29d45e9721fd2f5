CONSTANTS Workers = {w1, w2} StorageDrivers = {"overlay2"}
SPECIFICATION Spec
INVARIANT BundleIsExclusive
