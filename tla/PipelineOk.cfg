CONSTANTS Workers = {w1} StorageDrivers = {"devicemapper"}
SPECIFICATION Spec
INVARIANT OkMeansTransformed
