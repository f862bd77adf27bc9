SPECIFICATION Spec
CONSTANT Statuses = {{}, {"C"}}
INVARIANT AddCarryAsDocumented
