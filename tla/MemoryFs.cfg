SPECIFICATION Spec
CONSTANTS
    Threads = {t1, t2, t3}
    Paths = {p1, p2}
    Files = {empty, f1}
    EmptyFile = empty
    NoFile = NoFile
    NoOp = NoOp
    Nobody = Nobody
    Garbage = Garbage
SYMMETRY Interchangeable
INVARIANTS
    NoDataRace
    AtNeverThrows
    IInv
PROPERTIES
    NoOverwrite
    ImplementsFileStore
