\* Two workers and main(): regular files, compressed ones and a named pipe.
SPECIFICATION FairSpec
CONSTANTS
    w1 = w1
    w2 = w2
    a = a
    b = b
    c = c
    e = e
    m = m
    o = o
    bin = bin
    z = z
    y = y
    p = p
    Workers <- TwoWorkers
    Main = Main
    Nobody = Nobody
    Paths <- Files
    Inputs <- Usual
    Kind <- Kinds
    Lines <- Contents
    Changes <- Harmless
    Fds <- Descriptors
    Closed = Closed
    After = 1
INVARIANTS
    TypeOK
    ReadsOwnFile
    OutputInOnePiece
    TotalsExact
PROPERTIES
    Termination
