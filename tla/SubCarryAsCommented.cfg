SPECIFICATION Spec
CONSTANT Statuses = {{}, {"C"}}
INVARIANT SubCarryAsCommented
