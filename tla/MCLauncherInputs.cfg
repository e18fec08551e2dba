SPECIFICATION InputsSpec
CONSTANTS
    FdFlags = {"credentials-fd", "config-fd", "result-fd"}
    MaxArgs = 5
    Readable = {"r", "rw"}
    Writable = {"w", "rw"}
    Varied = {"schema", "port_forwarding", "excluded_wireguard_endpoint",
              "ipv4", "tls_common_name", "udp_port", "username", "password",
              "token", "status", "server_vip"}
    MaxLexemes = 6
    MaxCertificates = 4
    MaxBlocks = 5
    Width = 5
    Chars = {0, 1, 2, 3, 9, 10, 15, 16, 17}
    MaxLength = 5
INVARIANTS
    InputsTypeOK
    RunIsWellFormed
    ReportedWhenPossible
    InvalidMarkReported
    ObjectsAcceptedExactly
    DetailNamesFirstFault
    BundlesAcceptedExactly
    TrustsAllAndOnlyCAs
    MarksParsedExactly
