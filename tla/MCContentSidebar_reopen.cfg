CONSTANTS
    Benchmarks = {b1, b2}
    None = None
SPECIFICATION Spec
CONSTRAINT MCBound
INVARIANT SidebarRemovedOnlyWhenClosed
