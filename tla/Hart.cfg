SPECIFICATION Spec
PROPERTIES BrkInRange ImplementsIsa StopsOnlyOnBadAccess ScAfterLr MmapIsFresh
CHECK_DEADLOCK FALSE
