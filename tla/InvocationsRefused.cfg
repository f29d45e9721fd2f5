CONSTANTS Workers = {w1} StorageDrivers = {"overlay2", "devicemapper"}
SPECIFICATION SpecI
INVARIANT RefusedMeansTransformed
