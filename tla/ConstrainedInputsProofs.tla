----------------------- MODULE ConstrainedInputsProofs -----------------------
(***************************************************************************)
(* Proofs about ConstrainedInputs, for inputs of any length and any choice  *)
(* of the fields that vary.  The invariant relates the decoder's state to   *)
(* the input read so far, lexeme by lexeme, so that no induction over the   *)
(* input is needed.                                                         *)
(***************************************************************************)
EXTENDS ConstrainedInputs, SequenceTheorems, TLAPS

LexemesOf(k) == [type : {"open", "close", "space", "junk", "field"},
                 name : allowed(k) \cup {"", "unknown"}, value : Values \cup {""}]

\* The first m lexemes are an object that is still open.
OpenObject(m) ==
    \E o \in 1..m :
        /\ doc[o].type = "open"
        /\ \A i \in 1..m \ {o} : doc[i].type = "space" \/ (doc[i].type = "field" /\ o < i)

\* Its fields are known and different.
FieldsKnown(m) ==
    \A i \in 1..m : doc[i].type = "field" =>
        doc[i].name \in allowed(kind) \cap Varied /\ doc[i].value \in Values
FieldsDiffer(m) ==
    \A i, j \in 1..m :
        (doc[i].type = "field" /\ doc[j].type = "field" /\ doc[i].name = doc[j].name) => i = j

\* The decoder holds them, with their values, and what it takes as read.
FieldsHeld(m) ==
    /\ DOMAIN fields = (allowed(kind) \ Varied)
                         \cup {doc[i].name : i \in {j \in 1..m : doc[j].type = "field"}}
    /\ \A n \in allowed(kind) \ Varied : fields[n] = "valid"
    /\ \A i \in 1..m : doc[i].type = "field" => fields[doc[i].name] = doc[i].value

Decoded(m) == OpenObject(m) /\ FieldsKnown(m) /\ FieldsDiffer(m) /\ FieldsHeld(m)

\* What ObjectsAcceptedExactly and DetailNamesFirstFault say of a verdict.
Sound(k, d) == IsObject(d) /\ Once(d) /\ Known(k, d) /\ Complete(k, d) /\ Valid(k, d)
Named == (verdict = "accepted" <=> Sound(kind, doc)) /\ DetailNamesFirstFault

DecodeInv ==
    /\ kind \in Kinds
    /\ doc \in Seq(LexemesOf(kind))
    /\ state \in {"before", "inside", "after", "done"}
    /\ (state = "done") <=> (verdict # "none")
    /\ state = "before" => fields = Given(kind) /\ \A i \in 1..Len(doc) : doc[i].type = "space"
    /\ state = "inside" => Decoded(Len(doc))
    /\ state = "after" => /\ Len(doc) > 0 /\ doc[Len(doc)].type = "close"
                          /\ Decoded(Len(doc) - 1)
    /\ state = "done" => Named

-----------------------------------------------------------------------------
(***************************************************************************)
(* The formats and the lexemes.                                             *)
(***************************************************************************)

\* No format has a field called unknown, and a null is no credential.
LEMMA Formats ==
    ASSUME NEW k \in Kinds
    PROVE  /\ "unknown" \notin allowed(k) /\ required[k] \subseteq allowed(k)
           /\ k \in {"credentials", "constrainedCredentials"} =>
                \A n \in allowed(k), v \in {"null", "mistyped"} : ~takes(k, n, v)
<1>1. Kinds = {"plan", "candidate", "endpoint", "credentials", "constrainedCredentials", "token",
               "addKey"}
  BY DEF Kinds, required
<1>2. "unknown" \notin allowed(k)
  BY <1>1 DEF allowed, required
<1>3. required[k] \subseteq allowed(k)
  BY DEF allowed
<1>4. ASSUME k \in {"credentials", "constrainedCredentials"}, NEW n \in allowed(k),
             NEW v \in {"null", "mistyped"}
      PROVE  ~takes(k, n, v)
  BY <1>4 DEF allowed, required, takes
<1> QED BY <1>2, <1>3, <1>4

\* What a lexeme may be.
LEMMA LexemeIs ==
    ASSUME kind \in Kinds, NEW l \in Lexemes
    PROVE  /\ l \in LexemesOf(kind)
           /\ l.type = "field" => /\ l.name \in (allowed(kind) \cap Varied) \cup {"unknown"}
                                  /\ l.value \in Values
<1>1. CASE \E t \in {"open", "close", "space", "junk"} : l = Mark(t)
  <2>1. PICK t \in {"open", "close", "space", "junk"} : l = [type |-> t, name |-> "", value |-> ""]
    BY <1>1 DEF Mark
  <2>2. l \in LexemesOf(kind)
    BY <2>1 DEF LexemesOf
  <2>3. l.type # "field"
    BY <2>1
  <2> QED BY <2>2, <2>3
<1>2. CASE \E n \in (allowed(kind) \cap Varied) \cup {"unknown"}, v \in Values : l = Field(n, v)
  <2>1. PICK n \in (allowed(kind) \cap Varied) \cup {"unknown"}, v \in Values :
          l = [type |-> "field", name |-> n, value |-> v]
    BY <1>2 DEF Field
  <2>2. l \in LexemesOf(kind)
    BY <2>1 DEF LexemesOf
  <2>3. l.name = n /\ l.value = v
    BY <2>1
  <2> QED BY <2>2, <2>3
<1> QED BY <1>1, <1>2 DEF Lexemes

\* The input with one more lexeme.
LEMMA Appended ==
    ASSUME NEW S, NEW d \in Seq(S), NEW l \in S
    PROVE  /\ Append(d, l) \in Seq(S) /\ Len(d) \in Nat
           /\ Len(Append(d, l)) = Len(d) + 1
           /\ DOMAIN d = 1..Len(d) /\ DOMAIN Append(d, l) = 1..(Len(d) + 1)
           /\ \A i \in 1..Len(d) : Append(d, l)[i] = d[i]
           /\ Append(d, l)[Len(d) + 1] = l
BY AppendProperties, LenProperties

-----------------------------------------------------------------------------
(***************************************************************************)
(* The reference definitions, position by position.                         *)
(***************************************************************************)
ObjectAt(d, o) ==
    /\ d[o].type = "open"
    /\ \A i \in 1..Len(d) : /\ d[i].type = "close" <=> i = Len(d)
                            /\ d[i].type # "junk"
                            /\ d[i].type = "open" => i = o
                            /\ d[i].type = "field" => o < i

\* One object and nothing else.
LEMMA ObjectMeans ==
    ASSUME NEW S, NEW d \in Seq(S)
    PROVE  IsObject(d) <=> \E o \in 1..Len(d) : ObjectAt(d, o)
<1>0. Len(d) \in Nat /\ DOMAIN d = 1..Len(d) /\ (d = <<>> <=> Len(d) = 0)
  BY LenProperties, EmptySeq
<1>1. ASSUME IsObject(d) PROVE \E o \in 1..Len(d) : ObjectAt(d, o)
  <2>1. PICK o \in 1..Len(d) : /\ Positions(d, "open") = {o}
                               /\ \A i \in Positions(d, "field") : o < i
    BY <1>0, <1>1 DEF IsObject
  <2>2. Positions(d, "close") = {Len(d)} /\ Positions(d, "junk") = {}
    BY <1>1 DEF IsObject
  <2> QED BY <1>0, <2>1, <2>2 DEF ObjectAt, Positions
<1>2. ASSUME NEW o \in 1..Len(d), ObjectAt(d, o) PROVE IsObject(d)
  <2>1. d # <<>>
    BY <1>0
  <2>2. Positions(d, "close") = {Len(d)}
    <3>1. Len(d) \in 1..Len(d)
      BY <1>0
    <3>2. \A i \in DOMAIN d : d[i].type = "close" <=> i = Len(d)
      BY <1>0, <1>2 DEF ObjectAt
    <3>3. Len(d) \in DOMAIN d
      BY <1>0, <3>1
    <3> HIDE DEF ObjectAt
    <3> QED BY <3>2, <3>3 DEF Positions
  <2>3. Positions(d, "junk") = {}
    BY <1>0, <1>2 DEF ObjectAt, Positions
  <2>4. Positions(d, "open") = {o} /\ \A i \in Positions(d, "field") : o < i
    BY <1>0, <1>2 DEF ObjectAt, Positions
  <2> QED BY <1>0, <2>1, <2>2, <2>3, <2>4 DEF IsObject
<1> QED BY <1>1, <1>2

\* The fields of an input.
LEMMA FieldsMean ==
    ASSUME NEW S, NEW d \in Seq(S), NEW k
    PROVE  /\ Once(d) <=> \A i, j \in 1..Len(d) :
                (d[i].type = "field" /\ d[j].type = "field" /\ d[i].name = d[j].name) => i = j
           /\ Known(k, d) <=> \A i \in 1..Len(d) : d[i].type = "field" => d[i].name \in allowed(k)
           /\ Complete(k, d) <=> \A n \in required[k] \cap Varied :
                \E i \in 1..Len(d) : d[i].type = "field" /\ d[i].name = n
           /\ Valid(k, d) <=> \A i \in 1..Len(d) :
                d[i].type = "field" => takes(k, d[i].name, d[i].value)
<1>0. DOMAIN d = 1..Len(d)
  BY LenProperties
<1> USE DEF Positions
<1>1. Once(d) <=> \A i, j \in 1..Len(d) :
        (d[i].type = "field" /\ d[j].type = "field" /\ d[i].name = d[j].name) => i = j
  BY <1>0 DEF Once
<1>2. Known(k, d) <=> \A i \in 1..Len(d) : d[i].type = "field" => d[i].name \in allowed(k)
  BY <1>0 DEF Known
<1>3. Complete(k, d) <=> \A n \in required[k] \cap Varied :
        \E i \in 1..Len(d) : d[i].type = "field" /\ d[i].name = n
  BY <1>0 DEF Complete, At
<1>4. Valid(k, d) <=> \A i \in 1..Len(d) :
        d[i].type = "field" => takes(k, d[i].name, d[i].value)
  BY <1>0 DEF Valid
<1> QED BY <1>1, <1>2, <1>3, <1>4

\* The end of an object: what is read is one object, its fields are those held.
LEMMA ClosedObject ==
    ASSUME NEW d \in Seq(LexemesOf(kind)), NEW m \in Nat, Len(d) = m + 1,
           d[m + 1].type = "close", doc \in Seq(LexemesOf(kind)), Len(doc) \in {m, m + 1},
           \A i \in 1..m : d[i] = doc[i],
           Decoded(m)
    PROVE  /\ IsObject(d) /\ Once(d) /\ Known(kind, d)
           /\ Complete(kind, d) <=> required[kind] \subseteq DOMAIN fields
           /\ Valid(kind, d) <=> \A n \in DOMAIN fields : takes(kind, n, fields[n])
<1>1. IsObject(d)
  <2>1. PICK o \in 1..m :
        /\ doc[o].type = "open"
        /\ \A i \in 1..m \ {o} : doc[i].type = "space" \/ (doc[i].type = "field" /\ o < i)
    BY DEF Decoded, OpenObject
  <2>2. ObjectAt(d, o)
    BY <2>1 DEF ObjectAt
  <2>3. o \in 1..Len(d)
    OBVIOUS
  <2>4. \E p \in 1..Len(d) : ObjectAt(d, p)
    BY <2>2, <2>3
  <2>5. IsObject(d) <=> \E p \in 1..Len(d) : ObjectAt(d, p)
    BY ObjectMeans
  <2> QED BY <2>4, <2>5
<1>0. /\ Once(d) <=> \A i, j \in 1..Len(d) :
           (d[i].type = "field" /\ d[j].type = "field" /\ d[i].name = d[j].name) => i = j
      /\ Known(kind, d) <=> \A i \in 1..Len(d) : d[i].type = "field" => d[i].name \in allowed(kind)
      /\ Complete(kind, d) <=> \A n \in required[kind] \cap Varied :
           \E i \in 1..Len(d) : d[i].type = "field" /\ d[i].name = n
      /\ Valid(kind, d) <=> \A i \in 1..Len(d) :
           d[i].type = "field" => takes(kind, d[i].name, d[i].value)
  BY FieldsMean
<1>2. Once(d)
  <2>1. \A i, j \in 1..Len(d) :
           (d[i].type = "field" /\ d[j].type = "field" /\ d[i].name = d[j].name) => i = j
    BY DEF Decoded, FieldsDiffer
  <2> QED BY <1>0, <2>1
<1>3. Known(kind, d)
  <2>1. \A i \in 1..Len(d) : d[i].type = "field" => d[i].name \in allowed(kind)
    BY DEF Decoded, FieldsKnown
  <2> QED BY <1>0, <2>1
<1>4. \A n : n \in DOMAIN fields <=>
        \/ n \in allowed(kind) \ Varied
        \/ \E i \in 1..(m + 1) : d[i].type = "field" /\ d[i].name = n
  BY DEF Decoded, FieldsHeld
<1>5. Complete(kind, d) <=> required[kind] \subseteq DOMAIN fields
  <2>1. required[kind] \subseteq allowed(kind)
    BY DEF allowed
  <2>2. \A n \in Varied : (\E i \in 1..(m + 1) : d[i].type = "field" /\ d[i].name = n)
                           <=> n \in DOMAIN fields
    BY <1>4
  <2>3. \A n \in allowed(kind) \ Varied : n \in DOMAIN fields
    BY <1>4
  <2> QED BY <1>0, <2>1, <2>2, <2>3
<1>6. Valid(kind, d) <=> \A n \in DOMAIN fields : takes(kind, n, fields[n])
  <2>1. \A n \in allowed(kind) \ Varied : takes(kind, n, fields[n])
    BY DEF Decoded, FieldsHeld, takes
  <2>2. \A i \in 1..(m + 1) : d[i].type = "field" => fields[d[i].name] = d[i].value
    BY DEF Decoded, FieldsHeld
  <2>3. Valid(kind, d) <=> \A i \in 1..(m + 1) :
          d[i].type = "field" => takes(kind, d[i].name, fields[d[i].name])
    BY <1>0, <2>2
  <2> QED BY <1>4, <2>1, <2>3
<1> QED BY <1>1, <1>2, <1>3, <1>5, <1>6

\* What keeps an input from being one object.
LEMMA NoObject ==
    ASSUME NEW S, NEW d \in Seq(S),
           \/ \A i \in 1..Len(d) : d[i].type # "open"
           \/ \E i \in 1..Len(d) : d[i].type = "close" /\ i # Len(d)
           \/ Len(d) > 0 /\ d[Len(d)].type # "close"
           \/ \E i \in 1..Len(d) : d[i].type = "junk"
           \/ \E i, j \in 1..Len(d) : d[i].type = "open" /\ d[j].type = "open" /\ i # j
    PROVE  ~IsObject(d)
<1>1. SUFFICES ASSUME NEW o \in 1..Len(d), ObjectAt(d, o) PROVE FALSE
  BY ObjectMeans
<1>2. Len(d) \in Nat /\ Len(d) \in 1..Len(d)
  BY LenProperties
<1> QED BY <1>1, <1>2 DEF ObjectAt

-----------------------------------------------------------------------------
(***************************************************************************)
(* The steps.                                                               *)
(***************************************************************************)

\* An input that is no object, or is one that repeats a field, is not sound, and
\* json_parse_failed names no fault that has to be the first.
LEMMA NamedParseFailure ==
    ASSUME verdict' = "json_parse_failed", ~Sound(kind', doc')
    PROVE  Named'
BY DEF Named, DetailNamesFirstFault, Sound

\* Every lexeme but one the decoder stops at leaves it with what it has read.
LEMMA LexemeTaken ==
    ASSUME DecodeInv, NEW l \in Lexemes, Read(l), state' # "done"
    PROVE  DecodeInv'
<1> SUFFICES ASSUME NEW m \in Nat, m = Len(doc) PROVE DecodeInv'
  BY LenProperties DEF DecodeInv
<1>0. /\ kind \in Kinds /\ kind' = kind
      /\ l \in LexemesOf(kind)
      /\ l.type = "field" => l.name \in (allowed(kind) \cap Varied) \cup {"unknown"} /\ l.value \in Values
      /\ doc \in Seq(LexemesOf(kind)) /\ doc' = Append(doc, l)
  BY LexemeIs DEF DecodeInv, Read
<1>1. /\ doc' \in Seq(LexemesOf(kind)) /\ Len(doc') = m + 1
      /\ \A i \in 1..m : doc'[i] = doc[i]
      /\ doc'[m + 1] = l
  BY <1>0, Appended
<1>2. LexemesOf(kind)' = LexemesOf(kind)
  BY <1>0 DEF LexemesOf
<1>3. state' \in {"before", "inside", "after"} /\ verdict = "none" /\ verdict' = "none"
  BY DEF Read, Space, Open, Close, KeyValue, Stop, Continue, DecodeInv
<1>4. /\ state' = "before" => fields' = Given(kind) /\ \A i \in 1..m : doc'[i].type = "space"
      /\ state' = "before" => l.type = "space"
      /\ state' = "inside" => Decoded(m + 1)'
      /\ state' = "after" => l.type = "close" /\ Decoded(m)'
  <2>1. CASE state = "before"
    <3>1. fields = Given(kind) /\ fields' = fields /\ \A i \in 1..m : doc'[i].type = "space"
      BY <2>1, <1>0, <1>1 DEF DecodeInv, Read, Space, Open, Close, KeyValue, Stop, Continue
    <3>2. \/ state' = "before" /\ l.type = "space"
          \/ state' = "inside" /\ l.type = "open"
      BY <2>1 DEF Read, Space, Open, Close, KeyValue, Stop, Continue
    <3>3. ASSUME l.type = "open" PROVE Decoded(m + 1)'
      <4>1. OpenObject(m + 1)'
        BY <3>1, <3>3, <1>1 DEF OpenObject
      <4>2. \A i \in 1..(m + 1) : doc'[i].type # "field"
        BY <3>1, <3>3, <1>1
      <4>3. FieldsKnown(m + 1)' /\ FieldsDiffer(m + 1)'
        BY <4>2 DEF FieldsKnown, FieldsDiffer
      <4>4. fields' = [n \in allowed(kind) \ Varied |-> "valid"]
        BY <3>1 DEF Given
      <4>5. FieldsHeld(m + 1)'
        <5>1. {doc'[i].name : i \in {j \in 1..(m + 1) : doc'[j].type = "field"}} = {}
          BY <4>2
        <5> QED BY <5>1, <4>2, <4>4, <1>0 DEF FieldsHeld
      <4> QED BY <4>1, <4>3, <4>5 DEF Decoded
    <3> QED BY <3>1, <3>2, <3>3
  <2>2. CASE state = "inside"
    <3>1. Decoded(m)
      BY <2>2 DEF DecodeInv
    <3>2. CASE l.type \in {"space", "close"}
      <4>1. fields' = fields /\ (l.type = "space" => state' = "inside") /\ (l.type = "close" => state' = "after")
        BY <2>2, <3>2 DEF Read, Space, Close, Stop, Continue
      <4>2. Decoded(m)'
        <5>1. OpenObject(m)'
          BY <3>1, <1>1 DEF Decoded, OpenObject
        <5>2. FieldsKnown(m)'
          BY <3>1, <1>0, <1>1 DEF Decoded, FieldsKnown
        <5>3. FieldsDiffer(m)'
          BY <3>1, <1>1 DEF Decoded, FieldsDiffer
        <5>4. FieldsHeld(m)'
          <6>1. {doc'[i].name : i \in {j \in 1..m : doc'[j].type = "field"}}
                  = {doc[i].name : i \in {j \in 1..m : doc[j].type = "field"}}
            BY <1>1
          <6>2. \A i \in 1..m : doc'[i].type = "field" => fields'[doc'[i].name] = doc'[i].value
            BY <3>1, <4>1, <1>1 DEF Decoded, FieldsHeld
          <6> QED BY <3>1, <4>1, <6>1, <6>2, <1>0 DEF Decoded, FieldsHeld
        <5> QED BY <5>1, <5>2, <5>3, <5>4 DEF Decoded
      <4>3. ASSUME l.type = "space" PROVE Decoded(m + 1)'
        <5>1. OpenObject(m + 1)'
          BY <4>2, <4>3, <1>1 DEF Decoded, OpenObject
        <5>2. FieldsKnown(m + 1)' /\ FieldsDiffer(m + 1)'
          BY <4>2, <4>3, <1>1 DEF Decoded, FieldsKnown, FieldsDiffer
        <5>3. FieldsHeld(m + 1)'
          <6>1. {j \in 1..(m + 1) : doc'[j].type = "field"} = {j \in 1..m : doc'[j].type = "field"}
            BY <4>3, <1>1
          <6> QED BY <6>1, <4>2 DEF Decoded, FieldsHeld
        <5> QED BY <5>1, <5>2, <5>3 DEF Decoded
      <4> QED BY <3>2, <4>1, <4>2, <4>3
    <3>3. CASE l.type = "field"
      <4>1. /\ state' = "inside" /\ l.name \in allowed(kind) /\ l.name \notin DOMAIN fields
            /\ fields' = [n \in DOMAIN fields \cup {l.name} |->
                            IF n = l.name THEN l.value ELSE fields[n]]
        BY <2>2, <3>3 DEF Read, KeyValue, Stop
      <4>2. l.name \in allowed(kind) \cap Varied /\ l.value \in Values
        BY <3>3, <4>1, <1>0, Formats
      <4>3. \A i \in 1..m : doc[i].type = "field" => doc[i].name # l.name
        BY <3>1, <4>1 DEF Decoded, FieldsHeld
      <4>4. OpenObject(m + 1)'
        <5>1. PICK o \in 1..m :
                /\ doc[o].type = "open"
                /\ \A i \in 1..m \ {o} : doc[i].type = "space" \/ (doc[i].type = "field" /\ o < i)
          BY <3>1 DEF Decoded, OpenObject
        <5>2. doc'[o].type = "open" /\ o \in 1..(m + 1)
          BY <5>1, <1>1
        <5>3. \A i \in 1..(m + 1) \ {o} : doc'[i].type = "space" \/ (doc'[i].type = "field" /\ o < i)
          BY <5>1, <3>3, <1>1
        <5> QED BY <5>2, <5>3 DEF OpenObject
      <4>5. FieldsKnown(m + 1)'
        BY <3>1, <4>2, <1>0, <1>1 DEF Decoded, FieldsKnown
      <4>6. FieldsDiffer(m + 1)'
        BY <3>1, <4>3, <1>1 DEF Decoded, FieldsDiffer
      <4>7. FieldsHeld(m + 1)'
        <5>1. \A n : n \in {doc'[i].name : i \in {j \in 1..(m + 1) : doc'[j].type = "field"}}
                       <=> \/ n \in {doc[i].name : i \in {j \in 1..m : doc[j].type = "field"}}
                           \/ n = l.name
          BY <3>3, <1>1
        <5>2. DOMAIN fields' = DOMAIN fields \cup {l.name}
          BY <4>1
        <5>3. (DOMAIN fields)' = (allowed(kind) \ Varied)
                \cup {doc'[i].name : i \in {j \in 1..(m + 1) : doc'[j].type = "field"}}
          BY <3>1, <5>1, <5>2 DEF Decoded, FieldsHeld
        <5>4. \A n \in allowed(kind) \ Varied : fields'[n] = "valid"
          BY <3>1, <4>1, <4>2 DEF Decoded, FieldsHeld
        <5>5. \A i \in 1..(m + 1) : doc'[i].type = "field" => fields'[doc'[i].name] = doc'[i].value
          BY <3>1, <4>1, <4>3, <1>1 DEF Decoded, FieldsHeld
        <5> QED BY <5>3, <5>4, <5>5, <1>0 DEF FieldsHeld
      <4> QED BY <4>1, <4>4, <4>5, <4>6, <4>7 DEF Decoded
    <3>4. l.type \in {"space", "close", "field"}
      BY <2>2 DEF Read, Open, Stop
    <3> QED BY <3>2, <3>3, <3>4
  <2>3. state \in {"before", "inside"}
    BY DEF DecodeInv, Read, Space, Open, Close, KeyValue, Stop
  <2> QED BY <2>1, <2>2, <2>3
<1> QED
  <2>1. state' = "inside" => Decoded(Len(doc))'
    BY <1>1, <1>4 DEF Decoded, OpenObject, FieldsKnown, FieldsDiffer, FieldsHeld
  <2>2. state' = "after" => Decoded(Len(doc) - 1)'
    <3>1. Len(doc') - 1 = m
      BY <1>1
    <3> QED BY <3>1, <1>4 DEF Decoded, OpenObject, FieldsKnown, FieldsDiffer, FieldsHeld
  <2>3. Given(kind)' = Given(kind)
    BY <1>0 DEF Given, allowed
  <2>4. /\ kind' \in Kinds /\ doc' \in Seq(LexemesOf(kind)')
        /\ state' \in {"before", "inside", "after", "done"}
        /\ ((state = "done") <=> (verdict # "none"))'
        /\ state' = "done" => Named'
    BY <1>0, <1>1, <1>2, <1>3
  <2>5. /\ state' = "before" => fields' = Given(kind') /\ \A i \in 1..Len(doc') : doc'[i].type = "space"
        /\ state' = "after" => Len(doc') > 0 /\ doc'[Len(doc')].type = "close"
    BY <1>0, <1>1, <1>4
  <2> QED BY <2>1, <2>2, <2>4, <2>5 DEF DecodeInv

\* An object that is still open holds one opening brace and no closing one.
LEMMA OpenObjectHas ==
    ASSUME NEW m \in Nat, OpenObject(m)
    PROVE  /\ \E o \in 1..m : doc[o].type = "open"
           /\ \A i \in 1..m : doc[i].type \in {"open", "space", "field"}
BY DEF OpenObject

\* The decoder stops at a lexeme only with the verdict the input has deserved.
LEMMA LexemeRefused ==
    ASSUME DecodeInv, NEW l \in Lexemes, Read(l), state' = "done"
    PROVE  DecodeInv'
<1> SUFFICES ASSUME NEW m \in Nat, m = Len(doc) PROVE DecodeInv'
  BY LenProperties DEF DecodeInv
<1>0. /\ kind \in Kinds /\ kind' = kind
      /\ l \in LexemesOf(kind)
      /\ l.type = "field" => l.name \in (allowed(kind) \cap Varied) \cup {"unknown"} /\ l.value \in Values
      /\ doc \in Seq(LexemesOf(kind)) /\ doc' = Append(doc, l)
  BY LexemeIs DEF DecodeInv, Read
<1>1. /\ doc' \in Seq(LexemesOf(kind)) /\ Len(doc') = m + 1
      /\ \A i \in 1..m : doc'[i] = doc[i]
      /\ doc'[m + 1] = l
  BY <1>0, Appended
<1>2. LexemesOf(kind)' = LexemesOf(kind)
  BY <1>0 DEF LexemesOf
<1>3. /\ state \in {"before", "inside", "after"} /\ fields' = fields
      /\ verdict' \in {"json_parse_failed", "unexpected_field", "field_invalid"}
  BY DEF Read, Space, Open, Close, KeyValue, Stop, Continue, DecodeInv
<1>4. Named'
  <2>1. CASE verdict' = "json_parse_failed"
    <3>1. ASSUME ~IsObject(doc') \/ ~Once(doc') PROVE Named'
      BY <2>1, <3>1, NamedParseFailure DEF Sound
    <3>2. CASE state = "after"
      <4>1. m \in 1..Len(doc') /\ doc'[m].type = "close" /\ m # Len(doc')
        BY <3>2, <1>1 DEF DecodeInv
      <4>2. ~IsObject(doc')
        BY <4>1, <1>1, NoObject
      <4> QED BY <3>1, <4>2
    <3>3. CASE state = "before"
      <4>1. l.type # "open"
        BY <3>3, <2>1 DEF Read, Open, Continue
      <4>2. \A i \in 1..Len(doc') : doc'[i].type # "open"
        BY <3>3, <4>1, <1>1 DEF DecodeInv
      <4>3. ~IsObject(doc')
        BY <4>2, <1>1, NoObject
      <4> QED BY <3>1, <4>3
    <3>4. CASE state = "inside"
      <4>1. Decoded(m)
        BY <3>4 DEF DecodeInv
      <4>2. CASE l.type = "junk"
        <5>1. m + 1 \in 1..Len(doc') /\ doc'[m + 1].type = "junk"
          BY <4>2, <1>1
        <5>2. ~IsObject(doc')
          BY <5>1, <1>1, NoObject
        <5> QED BY <3>1, <5>2
      <4>3. CASE l.type = "open"
        <5>1. PICK o \in 1..m : doc[o].type = "open"
          BY <4>1, OpenObjectHas DEF Decoded
        <5>2. /\ o \in 1..Len(doc') /\ m + 1 \in 1..Len(doc') /\ o # m + 1
              /\ doc'[o].type = "open" /\ doc'[m + 1].type = "open"
          BY <4>3, <5>1, <1>1
        <5>3. ~IsObject(doc')
          BY <5>2, <1>1, NoObject
        <5> QED BY <3>1, <5>3
      <4>4. CASE l.type = "field"
        <5>1. l.name \in allowed(kind) /\ l.name \in DOMAIN fields
          BY <3>4, <4>4, <2>1 DEF Read, KeyValue, Stop
        <5>2. l.name \in Varied
          BY <4>4, <5>1, <1>0, Formats
        <5>3. PICK i \in 1..m : doc[i].type = "field" /\ doc[i].name = l.name
          BY <4>1, <5>1, <5>2 DEF Decoded, FieldsHeld
        <5>4. /\ i \in 1..Len(doc') /\ m + 1 \in 1..Len(doc') /\ i # m + 1
              /\ doc'[i].type = "field" /\ doc'[m + 1].type = "field"
              /\ doc'[i].name = doc'[m + 1].name
          BY <4>4, <5>3, <1>1
        <5>5. Once(doc') <=> \A p, q \in 1..Len(doc') :
                (doc'[p].type = "field" /\ doc'[q].type = "field" /\ doc'[p].name = doc'[q].name) => p = q
          BY <1>1, FieldsMean
        <5>6. ~Once(doc')
          BY <5>4, <5>5
        <5> QED BY <3>1, <5>6
      <4>5. l.type \in {"junk", "open", "field"}
        BY <3>4, <2>1 DEF Read, Space, Close, Continue
      <4> QED BY <4>2, <4>3, <4>4, <4>5
    <3> QED BY <1>3, <3>2, <3>3, <3>4
  <2>2. CASE verdict' = "unexpected_field"
    <3>1. state = "inside" /\ l.type = "field" /\ l.name \notin allowed(kind)
      BY <2>2 DEF Read, Space, Open, Close, KeyValue, Stop, Continue
    <3>2. Decoded(m)
      BY <3>1 DEF DecodeInv
    <3>3. ~Known(kind, doc')
      <4>1. Known(kind, doc') <=> \A i \in 1..Len(doc') : doc'[i].type = "field" => doc'[i].name \in allowed(kind)
        BY <1>1, FieldsMean
      <4> QED BY <4>1, <3>1, <1>1
    <3>4. SubSeq(doc', 1, Len(doc') - 1) = doc
      BY <1>0, <1>1
    <3>5. IsObject(Append(doc, Mark("close")))
      <4>1. Mark("close") \in LexemesOf(kind) /\ Mark("close").type = "close"
        BY DEF Mark, LexemesOf
      <4>2. /\ Append(doc, Mark("close")) \in Seq(LexemesOf(kind))
            /\ Len(Append(doc, Mark("close"))) = m + 1
            /\ Append(doc, Mark("close"))[m + 1].type = "close"
            /\ \A i \in 1..m : Append(doc, Mark("close"))[i] = doc[i]
        BY <1>0, <4>1, Appended
      <4> QED BY <1>0, <3>2, <4>2, ClosedObject
    <3>6. Once(doc) /\ Known(kind, doc)
      <4>1. Once(doc) <=> \A p, q \in 1..Len(doc) :
              (doc[p].type = "field" /\ doc[q].type = "field" /\ doc[p].name = doc[q].name) => p = q
        BY <1>0, FieldsMean
      <4>2. Known(kind, doc) <=> \A i \in 1..Len(doc) : doc[i].type = "field" => doc[i].name \in allowed(kind)
        BY <1>0, FieldsMean
      <4>3. Once(doc)
        BY <4>1, <3>2 DEF Decoded, FieldsDiffer
      <4>4. Known(kind, doc)
        BY <4>2, <3>2 DEF Decoded, FieldsKnown
      <4> QED BY <4>3, <4>4
    <3>7. doc'[Len(doc')].name \notin allowed(kind)
      BY <1>1, <3>1
    <3>8. verdict' = "accepted" <=> Sound(kind', doc')
      BY <2>2, <3>3, <1>0 DEF Sound
    <3>9. DetailNamesFirstFault'
      BY <2>2, <3>4, <3>5, <3>6, <3>7, <1>0 DEF DetailNamesFirstFault
    <3> QED BY <3>8, <3>9 DEF Named
  <2>3. CASE verdict' = "field_invalid"
    <3>1. /\ l.type = "field" /\ l.name \in allowed(kind) /\ l.value \in {"null", "mistyped"}
          /\ kind \in {"credentials", "constrainedCredentials"}
      BY <2>3 DEF Read, Space, Open, Close, KeyValue, Stop, Continue
    <3>2. ~takes(kind, l.name, l.value)
      BY <3>1, <1>0, Formats
    <3>3. ~Valid(kind, doc')
      <4>1. Valid(kind, doc') <=> \A i \in 1..Len(doc') :
              doc'[i].type = "field" => takes(kind, doc'[i].name, doc'[i].value)
        BY <1>1, FieldsMean
      <4> QED BY <4>1, <3>1, <3>2, <1>1
    <3>4. verdict' = "accepted" <=> Sound(kind', doc')
      BY <2>3, <3>3, <1>0 DEF Sound
    <3>5. DetailNamesFirstFault'
      BY <3>1, <1>0 DEF DetailNamesFirstFault
    <3> QED BY <3>4, <3>5 DEF Named
  <2> QED BY <1>3, <2>1, <2>2, <2>3
<1> QED BY <1>0, <1>1, <1>2, <1>3, <1>4 DEF DecodeInv

\* At the end of the input the parser sees the fields of the whole object.
LEMMA EndDecided ==
    ASSUME DecodeInv, EndOfInput
    PROVE  DecodeInv'
<1>0. /\ kind \in Kinds /\ kind' = kind /\ doc' = doc /\ fields' = fields
      /\ doc \in Seq(LexemesOf(kind)) /\ state' = "done" /\ Len(doc) \in Nat
  BY LenProperties DEF DecodeInv, EndOfInput, Stop
<1>1. LexemesOf(kind)' = LexemesOf(kind)
  BY <1>0 DEF LexemesOf
<1>2. verdict' \in {"accepted", "missing_field", "field_invalid", "json_parse_failed"}
  BY DEF EndOfInput, Stop, parse
<1>3. Named'
  <2>1. CASE state = "after"
    <3> DEFINE m == Len(doc) - 1
    <3>1. m \in Nat /\ Len(doc) = m + 1 /\ doc[m + 1].type = "close" /\ Decoded(m)
      BY <1>0, <2>1 DEF DecodeInv
    <3> HIDE DEF m
    <3>2. /\ IsObject(doc) /\ Once(doc) /\ Known(kind, doc)
          /\ Complete(kind, doc) <=> required[kind] \subseteq DOMAIN fields
          /\ Valid(kind, doc) <=> \A n \in DOMAIN fields : takes(kind, n, fields[n])
      BY <1>0, <3>1, ClosedObject
    <3>3. verdict' = parse(kind, fields)
      BY <2>1 DEF EndOfInput, Stop
    <3>4. /\ verdict' = "accepted" <=> Complete(kind, doc) /\ Valid(kind, doc)
          /\ verdict' = "missing_field" => ~Complete(kind, doc)
          /\ verdict' = "field_invalid" => Complete(kind, doc) /\ ~Valid(kind, doc)
          /\ verdict' # "unexpected_field"
      BY <3>2, <3>3 DEF parse
    <3>5. verdict' = "accepted" <=> Sound(kind', doc')
      BY <1>0, <3>2, <3>4 DEF Sound
    <3>6. DetailNamesFirstFault'
      BY <1>0, <3>2, <3>4 DEF DetailNamesFirstFault
    <3> QED BY <3>5, <3>6 DEF Named
  <2>2. CASE state \in {"before", "inside"}
    <3>1. verdict' = "json_parse_failed"
      BY <2>2 DEF EndOfInput, Stop
    <3>2. ~IsObject(doc)
      <4>1. CASE state = "before"
        <5>1. \A i \in 1..Len(doc) : doc[i].type # "open"
          BY <4>1 DEF DecodeInv
        <5> QED BY <5>1, <1>0, NoObject
      <4>2. CASE state = "inside"
        <5>1. /\ \E o \in 1..Len(doc) : doc[o].type = "open"
              /\ \A i \in 1..Len(doc) : doc[i].type \in {"open", "space", "field"}
          BY <4>2, <1>0, OpenObjectHas DEF DecodeInv, Decoded
        <5>2. Len(doc) > 0 /\ doc[Len(doc)].type # "close"
          BY <5>1, <1>0
        <5> QED BY <5>2, <1>0, NoObject
      <4> QED BY <2>2, <4>1, <4>2
    <3>3. ~Sound(kind', doc')
      BY <1>0, <3>2 DEF Sound
    <3> QED BY <3>1, <3>3, NamedParseFailure
  <2> QED BY <2>1, <2>2 DEF DecodeInv, EndOfInput
<1> QED BY <1>0, <1>1, <1>2, <1>3 DEF DecodeInv

-----------------------------------------------------------------------------
(***************************************************************************)
(* The theorems.                                                            *)
(***************************************************************************)

\* The invariant of the decoder.
LEMMA DecodeInvariant == Spec => []DecodeInv
<1>1. Init => DecodeInv
  BY LenProperties, EmptySeq DEF Init, DecodeInv
<1>2. DecodeInv /\ [Next]_vars => DecodeInv'
  <2> SUFFICES ASSUME DecodeInv, [Next]_vars PROVE DecodeInv'
    OBVIOUS
  <2>1. ASSUME NEW l \in Lexemes, Read(l) PROVE DecodeInv'
    <3>1. CASE state' = "done"
      BY <2>1, <3>1, LexemeRefused
    <3>2. CASE state' # "done"
      BY <2>1, <3>2, LexemeTaken
    <3> QED BY <3>1, <3>2
  <2>2. CASE EndOfInput
    BY <2>2, EndDecided
  <2>3. CASE UNCHANGED vars
    <3>1. kind' = kind /\ doc' = doc /\ state' = state /\ fields' = fields /\ verdict' = verdict
      BY <2>3 DEF vars
    <3>2. Named' <=> Named
      BY <3>1 DEF Named, DetailNamesFirstFault, Sound
    <3>3. LexemesOf(kind)' = LexemesOf(kind)
      BY <3>1 DEF LexemesOf
    <3>4. ASSUME NEW m PROVE Decoded(m)' <=> Decoded(m)
      <4>1. OpenObject(m)' <=> OpenObject(m)
        BY <3>1 DEF OpenObject
      <4>2. FieldsKnown(m)' <=> FieldsKnown(m)
        BY <3>1 DEF FieldsKnown
      <4>3. FieldsDiffer(m)' <=> FieldsDiffer(m)
        BY <3>1 DEF FieldsDiffer
      <4>4. FieldsHeld(m)' <=> FieldsHeld(m)
        BY <3>1 DEF FieldsHeld
      <4> QED BY <4>1, <4>2, <4>3, <4>4 DEF Decoded
    <3>5. Decoded(Len(doc)) => Decoded(Len(doc))'
      <4>1. ASSUME NEW m, m = Len(doc), Decoded(m)' PROVE Decoded(Len(doc))'
        BY <3>1, <4>1 DEF Decoded, OpenObject, FieldsKnown, FieldsDiffer, FieldsHeld
      <4> QED BY <3>4, <4>1
    <3>6. Decoded(Len(doc) - 1) => Decoded(Len(doc) - 1)'
      <4>1. ASSUME NEW m, m = Len(doc) - 1, Decoded(m)' PROVE Decoded(Len(doc) - 1)'
        BY <3>1, <4>1 DEF Decoded, OpenObject, FieldsKnown, FieldsDiffer, FieldsHeld
      <4> QED BY <3>4, <4>1
    <3> QED BY <3>1, <3>2, <3>3, <3>5, <3>6 DEF DecodeInv
  <2> QED BY <2>1, <2>2, <2>3 DEF Next, Decided
<1> QED BY <1>1, <1>2, PTL DEF Spec

\* strictJSONObject and parseCredentials accept an input of any length exactly
\* when it is one object with every required field, none twice and none unknown,
\* whose values their consumers take.
THEOREM ObjectsAccepted == Spec => []ObjectsAcceptedExactly
<1>1. DecodeInv => ObjectsAcceptedExactly
  BY DEF DecodeInv, Named, Sound, ObjectsAcceptedExactly
<1> QED BY <1>1, DecodeInvariant, PTL

\* The failure detail of an answer of PIA names its first fault.
THEOREM FirstFaultNamed == Spec => []DetailNamesFirstFault
<1>1. DecodeInv => DetailNamesFirstFault
  BY DEF DecodeInv, Named, DetailNamesFirstFault
<1> QED BY <1>1, DecodeInvariant, PTL

\* The decoder holds only fields of its format, and stops exactly with a verdict.
THEOREM TypeCorrect == Spec => []TypeOK
<1>1. Init => TypeOK
  BY DEF Init, TypeOK, Given, Values
<1>2. TypeOK /\ [Next]_vars => TypeOK'
  <2> SUFFICES ASSUME TypeOK, [Next]_vars PROVE TypeOK'
    OBVIOUS
  <2>1. ASSUME NEW l \in Lexemes, Read(l) PROVE TypeOK'
    <3>1. /\ kind \in Kinds /\ kind' = kind /\ doc \in Seq(LexemesOf(kind)) /\ doc' = Append(doc, l)
          /\ l \in LexemesOf(kind) /\ (l.type = "field" => l.value \in Values)
      BY <2>1, LexemeIs DEF Read, TypeOK, LexemesOf
    <3>2. doc' \in Seq(LexemesOf(kind))
      BY <3>1, Appended
    <3>3. /\ DOMAIN fields' \subseteq allowed(kind) /\ \A n \in DOMAIN fields' : fields'[n] \in Values
          /\ state' \in {"before", "inside", "after", "done"}
          /\ (state' = "done") = (verdict' # "none")
          /\ verdict' \in {"none", "unexpected_field", "json_parse_failed", "field_invalid"}
      BY <2>1, <3>1 DEF Read, Space, Open, Close, KeyValue, Stop, Continue, TypeOK
    <3> QED BY <3>1, <3>2, <3>3 DEF TypeOK, LexemesOf
  <2>2. CASE EndOfInput
    BY <2>2 DEF EndOfInput, Stop, parse, TypeOK
  <2>3. CASE UNCHANGED vars
    BY <2>3 DEF vars, TypeOK
  <2> QED BY <2>1, <2>2, <2>3 DEF Next, Decided
<1> QED BY <1>1, <1>2, PTL DEF Spec
=============================================================================
