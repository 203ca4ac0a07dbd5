SPECIFICATION Spec
CONSTANTS
    Objects = {o1, o2, o3}
    NoObject = NoObject
    Names <- MCNames
SYMMETRY Symmetry
INVARIANTS
    TypeOK
    PathFindsItsObject
    PathsSurviveCreation
