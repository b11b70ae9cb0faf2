\* A target, a cluster target, a sink, or a sink with a connection test; the
\* bounds are in MCControllers.
CONSTANT Absent = Absent
SPECIFICATION MCSpec
CHECK_DEADLOCK FALSE
INVARIANT RestIsTrue
PROPERTIES VerdictsHold ReconcilersSettle
