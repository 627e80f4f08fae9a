\* Every kind of handle, in one branch and in Forks that are joined or
\* dropped; timeouts drop the IO of streams and the Waits for children.
CONSTANTS
    MaxFds = 3
    Kinds = {"stream", "child", "pipe", "direct"}
    DropIn = {"stream", "child"}
    Drops = TRUE
    Root = Root
    Left = Left
    Right = Right
SYMMETRY Sides
SPECIFICATION Spec
INVARIANTS   PipesUsable
