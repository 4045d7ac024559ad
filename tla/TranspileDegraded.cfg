SPECIFICATION DriverSpec
INVARIANT DegradationIsReported
CHECK_DEADLOCK FALSE
