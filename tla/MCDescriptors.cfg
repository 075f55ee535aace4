\* Two UDP interfaces and a serial one, each of which sees one POLLERR.
CONSTANTS
    u1 = u1
    u2 = u2
    s1 = s1
    Sockets = {u1, u2}
    Ports = {s1}
    MaxDescriptor = 4
    MaxErrors = 1
    Nobody = Nobody
SPECIFICATION Spec
SYMMETRY Alike
INVARIANTS TypeOK EachItsOwn StraysOnlyBesideReopen
CHECK_DEADLOCK FALSE
