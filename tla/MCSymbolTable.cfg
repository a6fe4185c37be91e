SPECIFICATION Spec
CONSTANTS
    Unwritten = Unwritten
    Names = {a, b}
    Types = {Function}
    Nodes = {node}
    Float = Float
    Integer = Integer
    Function = Function
INVARIANTS
    TypeOK
    PointerKept
PROPERTY
    ImplementsMap
