SPECIFICATION Spec
INVARIANTS Assembles ImplementsIsa StopsOnlyOnBadAccess SuspendsOnTime TraceIsExact HostCallsAgreeWithC
CHECK_DEADLOCK FALSE
