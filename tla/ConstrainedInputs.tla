-------------------------- MODULE ConstrainedInputs --------------------------
(***************************************************************************)
(* The strict JSON objects of pia-wg-config: the plan with its two nested    *)
(* objects, the credentials and the two answers of PIA (src/constrained.go,  *)
(* src/credentials.go).  The decoder takes its input lexeme by lexeme, as    *)
(* encoding/json hands it over, and stops at the first fault it meets.       *)
(*                                                                          *)
(* A field lexeme is a name with its value and separators.  Of a value only  *)
(* matters how its consumer takes it: "valid", "invalid" (right type, refused*)
(* by its validator), "null" (null or an empty value) or "mistyped".         *)
(***************************************************************************)
EXTENDS Naturals, Sequences

CONSTANTS
    Varied,       \* the fields an input may leave out, repeat or get wrong;
                  \* all others are present and valid
    MaxLexemes    \* bound on the length of an input

VARIABLES
    kind,         \* which parser reads the input
    doc,          \* the lexemes read so far
    state,        \* "before", "inside" or "after" the object, or "done"
    fields,       \* the fields decoded so far
    verdict       \* "none" while reading, then "accepted" or the fault

vars == <<kind, doc, state, fields, verdict>>

-----------------------------------------------------------------------------
(***************************************************************************)
(* The formats.                                                             *)
(***************************************************************************)
required ==
    [plan |-> {"schema", "region", "port_forwarding", "token_destination_ipv4",
               "registration_candidate"},
     candidate |-> {"ipv4", "tls_common_name"},
     endpoint |-> {"ipv4", "udp_port"},
     credentials |-> {"username", "password"},
     constrainedCredentials |-> {"username", "password"},
     token |-> {"token"},
     addKey |-> {"status", "server_key", "server_port", "server_ip", "server_vip",
                 "peer_ip", "peer_pubkey", "dns_servers"}]

Kinds == DOMAIN required

allowed(k) ==
    required[k] \cup (IF k = "plan" THEN {"excluded_wireguard_endpoint"} ELSE {})

\* What the consumer of a field takes.  A Boolean has no validator behind it,
\* and null decodes to false; the answer to addKey is only decoded here and
\* validated later; ordinary credentials only have to be non-empty.
takes(k, name, value) ==
    \/ value = "valid"
    \/ name = "port_forwarding" /\ value # "mistyped"
    \/ k = "addKey" /\ value # "mistyped"
    \/ k = "credentials" /\ value = "invalid"

Values == {"valid", "invalid", "null", "mistyped"}
Field(name, value) == [type |-> "field", name |-> name, value |-> value]
Mark(type) == [type |-> type, name |-> "", value |-> ""]
Lexemes ==
    {Mark(t) : t \in {"open", "close", "space", "junk"}}
      \cup {Field(n, v) : n \in (allowed(kind) \cap Varied) \cup {"unknown"}, v \in Values}

\* The fields that are taken as read when the object opens.
Given(k) == [n \in allowed(k) \ Varied |-> "valid"]

Init ==
    /\ kind \in Kinds
    /\ doc = <<>>
    /\ state = "before"
    /\ fields = Given(kind)
    /\ verdict = "none"

-----------------------------------------------------------------------------
(***************************************************************************)
(* strictJSONObject, and the loop of parseCredentials.                      *)
(***************************************************************************)
Stop(v) == state' = "done" /\ verdict' = v /\ UNCHANGED fields
Continue(s) == state' = s /\ UNCHANGED <<fields, verdict>>

\* Anything behind the closing brace, a space included, is trailing data.
Space == IF state = "after" THEN Stop("json_parse_failed") ELSE Continue(state)

Open == IF state = "before" THEN Continue("inside") ELSE Stop("json_parse_failed")

Close == IF state = "inside" THEN Continue("after") ELSE Stop("json_parse_failed")

BugLastValueWins(name, value) ==
    IF state # "inside" THEN Stop("json_parse_failed")
    ELSE IF name \notin allowed(kind) THEN Stop("unexpected_field")
    ELSE /\ fields' = [n \in DOMAIN fields \cup {name} |->
                         IF n = name THEN value ELSE fields[n]]
         /\ UNCHANGED <<state, verdict>>

\* Credentials are checked as they are read, all other values at the end.
KeyValue(name, value) ==
    IF state # "inside" THEN Stop("json_parse_failed")
    ELSE IF name \notin allowed(kind) THEN Stop("unexpected_field")
    ELSE IF name \in DOMAIN fields THEN Stop("json_parse_failed")
    ELSE IF kind \in {"credentials", "constrainedCredentials"} /\ value \in {"null", "mistyped"}
    THEN Stop("field_invalid")
    ELSE /\ fields' = [n \in DOMAIN fields \cup {name} |->
                         IF n = name THEN value ELSE fields[n]]
         /\ UNCHANGED <<state, verdict>>

BugValuesBeforeNames(k, f) ==
    IF \E n \in DOMAIN f : ~takes(k, n, f[n]) THEN "field_invalid"
    ELSE IF ~(required[k] \subseteq DOMAIN f) THEN "missing_field"
    ELSE "accepted"

\* What the parser behind strictJSONObject makes of the fields.
parse(k, f) ==
    IF ~(required[k] \subseteq DOMAIN f) THEN "missing_field"
    ELSE IF \E n \in DOMAIN f : ~takes(k, n, f[n]) THEN "field_invalid"
    ELSE "accepted"

Read(l) ==
    /\ state # "done"
    /\ Len(doc) < MaxLexemes
    /\ doc' = Append(doc, l)
    /\ \/ l.type = "space" /\ Space
       \/ l.type = "open" /\ Open
       \/ l.type = "close" /\ Close
       \/ l.type = "junk" /\ Stop("json_parse_failed")
       \/ l.type = "field" /\ KeyValue(l.name, l.value)
    /\ UNCHANGED kind

EndOfInput ==
    /\ state # "done"
    /\ Stop(IF state = "after" THEN parse(kind, fields) ELSE "json_parse_failed")
    /\ UNCHANGED <<kind, doc>>

Decided == state = "done" /\ UNCHANGED vars

Next == (\E l \in Lexemes : Read(l)) \/ EndOfInput \/ Decided

Spec == Init /\ [][Next]_vars

-----------------------------------------------------------------------------
(***************************************************************************)
(* What the formats mean, stated on whole inputs.                           *)
(***************************************************************************)
Positions(d, type) == {i \in DOMAIN d : d[i].type = type}
At(d, name) == {i \in Positions(d, "field") : d[i].name = name}

\* One object and nothing but space before and inside it.
IsObject(d) ==
    /\ d # <<>>
    /\ Positions(d, "close") = {Len(d)}
    /\ Positions(d, "junk") = {}
    /\ \E o \in DOMAIN d :
        /\ Positions(d, "open") = {o}
        /\ \A i \in Positions(d, "field") : o < i

Once(d) == \A i, j \in Positions(d, "field") : d[i].name = d[j].name => i = j
Known(k, d) == \A i \in Positions(d, "field") : d[i].name \in allowed(k)
Complete(k, d) == \A n \in required[k] \cap Varied : At(d, n) # {}
Valid(k, d) == \A i \in Positions(d, "field") : takes(k, d[i].name, d[i].value)

\* Every variable keeps its type; the decoder stops exactly with a verdict.
TypeOK ==
    /\ kind \in Kinds
    /\ doc \in Seq([type : {"open", "close", "space", "junk", "field"},
                    name : allowed(kind) \cup {"", "unknown"}, value : Values \cup {""}])
    /\ state \in {"before", "inside", "after", "done"}
    /\ DOMAIN fields \subseteq allowed(kind)
    /\ \A n \in DOMAIN fields : fields[n] \in Values
    /\ verdict \in {"none", "accepted", "unexpected_field", "json_parse_failed",
                    "missing_field", "field_invalid"}
    /\ (state = "done") = (verdict # "none")

\* The streaming decoder accepts exactly the inputs that consist of one object,
\* without anything behind it, in which every required field occurs, no field
\* occurs twice or is unknown, and every value is one its consumer takes.
ObjectsAcceptedExactly ==
    state = "done" =>
        (verdict = "accepted") = (/\ IsObject(doc) /\ Once(doc) /\ Known(kind, doc)
                                  /\ Complete(kind, doc) /\ Valid(kind, doc))

\* The failure details of the two answers of PIA name the first fault:
\* unexpected_field the field just read, with nothing wrong before it;
\* missing_field an object that is sound but for what is absent; a fault in a
\* value only an object that has all its fields.
DetailNamesFirstFault ==
    kind \in {"token", "addKey"} =>
        /\ verdict = "unexpected_field" =>
             LET before == SubSeq(doc, 1, Len(doc) - 1) IN
             /\ doc[Len(doc)].name \notin allowed(kind)
             /\ IsObject(Append(before, Mark("close")))
             /\ Once(before) /\ Known(kind, before)
        /\ verdict = "missing_field" =>
             IsObject(doc) /\ Once(doc) /\ Known(kind, doc) /\ ~Complete(kind, doc)
        /\ verdict = "field_invalid" =>
             IsObject(doc) /\ Once(doc) /\ Complete(kind, doc) /\ ~Valid(kind, doc)
=============================================================================
