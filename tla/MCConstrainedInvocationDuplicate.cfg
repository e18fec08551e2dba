CONSTANTS
    FdFlags = {"credentials-fd", "config-fd", "result-fd"}
    MaxArgs = 4
    Readable = {"r", "rw"}
    Writable = {"w", "rw"}
SPECIFICATION Spec
INVARIANT DuplicatesRejected
