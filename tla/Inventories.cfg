\* Deletions, a roll-up, the announcements of the store or a cache; the bounds
\* are in MCInventories.
CONSTANT Absent = Absent
SPECIFICATION MCSpec
CHECK_DEADLOCK FALSE
INVARIANTS LastExportAccountedFor DerivedIsCurrent
PROPERTIES PassesStayWithin InventoriesSettle
