-------------------------- MODULE ConfigStore_proofs --------------------------
(***************************************************************************)
(* Proofs about module ConfigStore, for every set of names and numbers the *)
(* user may type and every set of faults: the types, the round trip of the *)
(* metadata through the file, what a reboot and the info page bring back,  *)
(* where the period in use comes from, and the refinement of DurableConfig.*)
(***************************************************************************)
EXTENDS ConfigStore, SequenceTheorems, TLAPS

-----------------------------------------------------------------------------
(* The line of text.                                                       *)

\* Any token parses to a number of 8 bits.
LEMMA ParseNumberType ==
  ASSUME NEW token \in Token PROVE ParseNumber(token) \in UINT8
  <1>1. CASE token \in Texts
    BY <1>1 DEF ParseNumber, UINT8
  <1>2. CASE token \notin Texts
    <2>1. token \in Nat
      BY <1>2 DEF Token
    <2> QED
      BY <1>2, <2>1 DEF ParseNumber, UINT8
  <1> QED
    BY <1>1, <1>2

\* A number parses to what is left of it in 8 bits, itself if it is below 256.
LEMMA ParseNumberCut ==
  ASSUME NEW n \in Nat
  PROVE  ParseNumber(n) = n % 256 /\ (n \in UINT8 => n % 256 = n)
  <1>1. n \notin Texts
    BY TextsAssumption
  <1>2. ParseNumber(n) = n % 256
    BY <1>1 DEF ParseNumber
  <1>3. n \in UINT8 => n % 256 = n
    BY DEF UINT8
  <1> QED
    BY <1>2, <1>3

\* A byte is a 16 bit number, which is a token.
LEMMA Widths == UINT8 \subseteq UINT16 /\ UINT16 \subseteq Token
  <1>1. \A n \in UINT8 : n \in UINT16
    BY DEF UINT8, UINT16
  <1>2. \A n \in UINT16 : n \in Token
    BY DEF UINT16, Token
  <1> QED
    BY <1>1, <1>2

\* What is left of a number in 8 bits is a byte.
LEMMA CutIsByte ==
  ASSUME NEW n \in Nat PROVE n % 256 \in UINT8
  <1>1. n % 256 \in 0 .. 255
    OBVIOUS
  <1> QED
    BY <1>1 DEF UINT8

\* Metadata with other numbers, field by field.
LEMMA SetNumbers ==
  ASSUME NEW m \in LoggerMetadata,
         NEW a \in UINT16, NEW b \in UINT16, NEW c \in UINT16
  PROVE  [m EXCEPT !.fileTransmissionPeriod = a, !.generalMeasurementPeriod = b,
                   !.restRequestPeriod = c]
           = [name |-> m.name, fileCreationPeriod |-> m.fileCreationPeriod,
              fileTransmissionPeriod |-> a, generalMeasurementPeriod |-> b,
              restRequestPeriod |-> c]
  <1> DEFINE cut == [m EXCEPT !.fileTransmissionPeriod = a, !.generalMeasurementPeriod = b,
                              !.restRequestPeriod = c]
  <1>1. cut \in LoggerMetadata
    <2> DEFINE m1 == [m EXCEPT !.fileTransmissionPeriod = a]
               m2 == [m1 EXCEPT !.generalMeasurementPeriod = b]
    <2>1. m1 \in LoggerMetadata
      BY DEF LoggerMetadata
    <2>2. m2 \in LoggerMetadata
      <3> HIDE DEF m1
      <3> QED
        BY <2>1 DEF LoggerMetadata
    <2>3. [m2 EXCEPT !.restRequestPeriod = c] \in LoggerMetadata
      <3> HIDE DEF m2
      <3> QED
        BY <2>2 DEF LoggerMetadata
    <2> QED
      BY <2>3
  <1>2. /\ cut.name = m.name /\ cut.fileCreationPeriod = m.fileCreationPeriod
        /\ cut.fileTransmissionPeriod = a /\ cut.generalMeasurementPeriod = b
        /\ cut.restRequestPeriod = c
    BY DEF LoggerMetadata
  <1>3. cut = [name |-> m.name, fileCreationPeriod |-> m.fileCreationPeriod,
               fileTransmissionPeriod |-> a, generalMeasurementPeriod |-> b,
               restRequestPeriod |-> c]
    <2> HIDE DEF cut
    <2> QED
      BY <1>1, <1>2 DEF LoggerMetadata
  <1> QED
    BY <1>3

\* Parsing a line into well typed metadata leaves well typed metadata.
LEMMA ParseType ==
  ASSUME NEW m \in LoggerMetadata, NEW tokens \in Seq(Token)
  PROVE  ParseMetadata(m, tokens) \in LoggerMetadata
  <1> DEFINE Number(i, old) ==
        IF i \in DOMAIN tokens THEN ParseNumber(tokens[i]) ELSE old
  <1>1. \A i \in DOMAIN tokens : tokens[i] \in Token
    <2>1. DOMAIN tokens = 1 .. Len(tokens)
      BY LenProperties
    <2> QED
      BY <2>1, ElementOfSeq
  <1>2. \A i \in DOMAIN tokens : ParseNumber(tokens[i]) \in UINT8
    BY <1>1, ParseNumberType
  <1>3. UINT8 \subseteq UINT16
    BY Widths
  <1>4. /\ m.name \in Seq(Token) /\ m.fileCreationPeriod \in UINT8
        /\ m.fileTransmissionPeriod \in UINT16
        /\ m.generalMeasurementPeriod \in UINT16
        /\ m.restRequestPeriod \in UINT16
    BY DEF LoggerMetadata
  <1>5. /\ Number(2, m.fileCreationPeriod) \in UINT8
        /\ Number(3, m.fileTransmissionPeriod) \in UINT16
        /\ Number(4, m.generalMeasurementPeriod) \in UINT16
        /\ Number(5, m.restRequestPeriod) \in UINT16
    BY <1>2, <1>3, <1>4
  <1>6. (IF tokens = <<>> THEN m.name ELSE <<tokens[1]>>) \in Seq(Token)
    <2>1. CASE tokens = <<>>
      BY <2>1, <1>4
    <2>2. CASE tokens # <<>>
      <3>1. tokens[1] \in Token
        BY <2>2, EmptySeq, LenProperties, <1>1
      <3> QED
        BY <2>2, <3>1
    <2> QED
      BY <2>1, <2>2
  <1> QED
    BY <1>5, <1>6 DEF ParseMetadata, LoggerMetadata

\* A name with four numbers after it.
LEMMA Line ==
  ASSUME NEW S, NEW name \in Seq(S), NEW a \in S, NEW b \in S, NEW c \in S, NEW d \in S
  PROVE  /\ name \o <<a, b, c, d>> \in Seq(S)
         /\ Len(name \o <<a, b, c, d>>) = Len(name) + 4
         /\ name \o <<a, b, c, d>> # <<>>
         /\ Len(name) = 1
              => /\ (name \o <<a, b, c, d>>)[1] = name[1]
                 /\ (name \o <<a, b, c, d>>)[2] = a
                 /\ (name \o <<a, b, c, d>>)[3] = b
                 /\ (name \o <<a, b, c, d>>)[4] = c
                 /\ (name \o <<a, b, c, d>>)[5] = d
  <1> DEFINE rest == <<a, b, c, d>>
  <1>1. /\ rest \in Seq(S) /\ Len(rest) = 4
        /\ rest[1] = a /\ rest[2] = b /\ rest[3] = c /\ rest[4] = d
    OBVIOUS
  <1> HIDE DEF rest
  <1>2. Len(name) \in Nat
    BY LenProperties
  <1>3. /\ name \o rest \in Seq(S)
        /\ Len(name \o rest) = Len(name) + 4
        /\ \A i \in 1 .. Len(name) + 4 :
             (name \o rest)[i] = IF i <= Len(name) THEN name[i] ELSE rest[i - Len(name)]
    <2>1. /\ name \o rest \in Seq(S)
          /\ Len(name \o rest) = Len(name) + Len(rest)
          /\ \A i \in 1 .. Len(name) + Len(rest) :
               (name \o rest)[i] = IF i <= Len(name) THEN name[i] ELSE rest[i - Len(name)]
      BY <1>1, ConcatProperties, Zenon
    <2> QED
      BY <1>1, <2>1, Zenon
  <1>4. name \o rest # <<>>
    BY <1>2, <1>3, EmptySeq
  <1>5. Len(name) = 1
          => /\ (name \o rest)[1] = name[1] /\ (name \o rest)[2] = rest[1]
             /\ (name \o rest)[3] = rest[2] /\ (name \o rest)[4] = rest[3]
             /\ (name \o rest)[5] = rest[4]
    BY <1>3
  <1> QED
    BY <1>1, <1>3, <1>4, <1>5 DEF rest

\* What S writes is a line of tokens, never the empty file.
LEMMA SerializeType ==
  ASSUME NEW m \in LoggerMetadata
  PROVE  /\ Serialize(m) \in Seq(Token)
         /\ Len(Serialize(m)) = Len(m.name) + 4
         /\ Serialize(m) # <<>>
         /\ Len(m.name) = 1
              => /\ Serialize(m)[1] = m.name[1]
                 /\ Serialize(m)[2] = m.fileCreationPeriod
                 /\ Serialize(m)[3] = m.fileTransmissionPeriod
                 /\ Serialize(m)[4] = m.generalMeasurementPeriod
                 /\ Serialize(m)[5] = m.restRequestPeriod
  <1>1. m.name \in Seq(Token)
    BY DEF LoggerMetadata
  <1>2. /\ m.fileCreationPeriod \in Token /\ m.fileTransmissionPeriod \in Token
        /\ m.generalMeasurementPeriod \in Token /\ m.restRequestPeriod \in Token
    BY Widths DEF LoggerMetadata
  <1> QED
    BY <1>1, <1>2, Line DEF Serialize

\* What the terminal's S command writes, the storage's parser reads back with
\* every number cut to 8 bits, whatever the structure held before, if the name
\* is one token.
LEMMA CutTrip ==
  ASSUME NEW m \in LoggerMetadata, Len(m.name) = 1, NEW ram
  PROVE  ParseMetadata(ram, Serialize(m)) = CutToBytes(m)
  <1>1. /\ m.name \in Seq(Token)
        /\ m.fileCreationPeriod \in UINT8 /\ m.fileTransmissionPeriod \in UINT16
        /\ m.generalMeasurementPeriod \in UINT16 /\ m.restRequestPeriod \in UINT16
    BY DEF LoggerMetadata
  <1> DEFINE line == Serialize(m)
  <1>2. line \in Seq(Token) /\ Len(line) = 5 /\ DOMAIN line = 1 .. 5 /\ line # <<>>
    <2>1. /\ line \in Seq(Token) /\ line # <<>>
          /\ Len(line) = Len(m.name) + 4
      BY SerializeType, Zenon
    <2>2. Len(line) = 5
      BY <2>1
    <2> QED
      BY <2>1, <2>2, LenProperties
  <1>3. /\ line[1] = m.name[1]
        /\ line[2] = m.fileCreationPeriod /\ line[3] = m.fileTransmissionPeriod
        /\ line[4] = m.generalMeasurementPeriod /\ line[5] = m.restRequestPeriod
    BY SerializeType
  <1>4. <<m.name[1]>> = m.name
    BY <1>1
  <1>5. /\ ParseNumber(m.fileCreationPeriod) = m.fileCreationPeriod
        /\ ParseNumber(m.fileTransmissionPeriod) = m.fileTransmissionPeriod % 256
        /\ ParseNumber(m.generalMeasurementPeriod) = m.generalMeasurementPeriod % 256
        /\ ParseNumber(m.restRequestPeriod) = m.restRequestPeriod % 256
    <2>1. (\A n \in UINT8 : n \in Nat) /\ (\A n \in UINT16 : n \in Nat)
      BY DEF UINT8, UINT16
    <2> QED
      BY <1>1, <2>1, ParseNumberCut, Zenon
  <1> HIDE DEF line
  <1>6. ParseMetadata(ram, line) =
          [name |-> m.name, fileCreationPeriod |-> m.fileCreationPeriod,
           fileTransmissionPeriod |-> m.fileTransmissionPeriod % 256,
           generalMeasurementPeriod |-> m.generalMeasurementPeriod % 256,
           restRequestPeriod |-> m.restRequestPeriod % 256]
    BY <1>2, <1>3, <1>4, <1>5 DEF ParseMetadata
  <1>7. CutToBytes(m) =
          [name |-> m.name, fileCreationPeriod |-> m.fileCreationPeriod,
           fileTransmissionPeriod |-> m.fileTransmissionPeriod % 256,
           generalMeasurementPeriod |-> m.generalMeasurementPeriod % 256,
           restRequestPeriod |-> m.restRequestPeriod % 256]
    <2>1. /\ m.fileTransmissionPeriod \in UINT16 /\ m.generalMeasurementPeriod \in UINT16
          /\ m.restRequestPeriod \in UINT16
      BY DEF LoggerMetadata
    <2>2. \A n \in UINT16 : n % 256 \in UINT16
      <3> SUFFICES ASSUME NEW n \in UINT16 PROVE n % 256 \in UINT16
        OBVIOUS
      <3>1. n \in Nat
        BY DEF UINT16
      <3> QED
        BY <3>1, CutIsByte, Widths
    <2>3. /\ m.fileTransmissionPeriod % 256 \in UINT16
          /\ m.generalMeasurementPeriod % 256 \in UINT16
          /\ m.restRequestPeriod % 256 \in UINT16
      BY <2>1, <2>2
    <2> QED
      BY <2>3, SetNumbers, ZenonT(30) DEF CutToBytes
  <1> QED
    BY <1>6, <1>7 DEF line

\* What the terminal's S command writes, the storage's parser reads back,
\* whatever the structure held before; Storable says which metadata have a
\* line of their own.
THEOREM RoundTrip ==
  \A m \in Storable, ram \in LoggerMetadata : ParseMetadata(ram, Serialize(m)) = m
  <1> SUFFICES ASSUME NEW m \in Storable, NEW ram \in LoggerMetadata
               PROVE  ParseMetadata(ram, Serialize(m)) = m
    OBVIOUS
  <1>1. /\ m \in LoggerMetadata /\ Len(m.name) = 1
        /\ m.fileTransmissionPeriod \in UINT8 /\ m.generalMeasurementPeriod \in UINT8
        /\ m.restRequestPeriod \in UINT8
    BY DEF Storable
  <1>2. /\ m.fileTransmissionPeriod % 256 = m.fileTransmissionPeriod
        /\ m.generalMeasurementPeriod % 256 = m.generalMeasurementPeriod
        /\ m.restRequestPeriod % 256 = m.restRequestPeriod
    BY <1>1, ParseNumberCut DEF UINT8
  <1>3. CutToBytes(m) = m
    BY <1>1, <1>2 DEF CutToBytes, LoggerMetadata
  <1> QED
    BY <1>1, <1>3, CutTrip

\* The zeroed structure, the default line with any number at its end and the
\* metadata it stands for are well typed.
LEMMA DefaultTypes ==
  /\ ZeroMetadata \in LoggerMetadata
  /\ Defaults \in Storable
  /\ \A ram : ParseMetadata(ram, defaultMetadata) = Defaults
  /\ \A n \in UINT8 :
       LET m == [Defaults EXCEPT !.restRequestPeriod = n] IN
       /\ DefaultLine(n) \in Seq(Token) /\ DefaultLine(n) # <<>>
       /\ m \in LoggerMetadata /\ Len(m.name) = 1
       /\ m.generalMeasurementPeriod % 256 = Defaults.generalMeasurementPeriod
       /\ Serialize(m) = DefaultLine(n)
  <1>1. ZeroMetadata \in LoggerMetadata
    BY DEF ZeroMetadata, LoggerMetadata, UINT8, UINT16
  <1>2. DefaultName \in Token /\ 1 \in Token /\ 1 \in UINT8
    BY ConfigAssumption DEF Token, UINT8
  <1>3. \A n \in UINT8 :
          /\ DefaultLine(n) \in Seq(Token) /\ DefaultLine(n) # <<>>
          /\ Len(DefaultLine(n)) = 5
          /\ DOMAIN DefaultLine(n) = 1 .. 5
          /\ DefaultLine(n)[1] = DefaultName
          /\ \A i \in 2 .. 4 : DefaultLine(n)[i] = 1
          /\ DefaultLine(n)[5] = n
    BY <1>2, Widths DEF DefaultLine
  <1>4. ParseNumber(1) = 1
    BY <1>2, ParseNumberCut DEF UINT8
  <1>5. \A ram : ParseMetadata(ram, defaultMetadata) =
                   [name |-> <<DefaultName>>, fileCreationPeriod |-> 1,
                    fileTransmissionPeriod |-> 1, generalMeasurementPeriod |-> 1,
                    restRequestPeriod |-> 1]
    BY <1>2, <1>3, <1>4 DEF defaultMetadata, ParseMetadata
  <1>6. Defaults = [name |-> <<DefaultName>>, fileCreationPeriod |-> 1,
                    fileTransmissionPeriod |-> 1, generalMeasurementPeriod |-> 1,
                    restRequestPeriod |-> 1]
    BY <1>5 DEF Defaults
  <1>7. Defaults \in LoggerMetadata
    BY <1>2, <1>6 DEF LoggerMetadata, UINT8, UINT16
  <1>8. Defaults \in Storable
    BY <1>2, <1>6, <1>7 DEF Storable
  <1>9. ASSUME NEW n \in UINT8
        PROVE  LET m == [Defaults EXCEPT !.restRequestPeriod = n] IN
               /\ m \in LoggerMetadata /\ Len(m.name) = 1
               /\ m.generalMeasurementPeriod % 256 = Defaults.generalMeasurementPeriod
               /\ Serialize(m) = DefaultLine(n)
    <2> DEFINE m == [Defaults EXCEPT !.restRequestPeriod = n]
    <2>1. /\ m.name = <<DefaultName>> /\ m.fileCreationPeriod = 1
          /\ m.fileTransmissionPeriod = 1 /\ m.generalMeasurementPeriod = 1
          /\ m.restRequestPeriod = n
      BY <1>6
    <2>2. m \in LoggerMetadata
      BY <1>7, Widths DEF LoggerMetadata
    <2> HIDE DEF m
    <2>3. Len(m.name) = 1 /\ m.name[1] = DefaultName
      BY <2>1
    <2>4. /\ Serialize(m) \in Seq(Token) /\ Len(Serialize(m)) = 5
          /\ Serialize(m)[1] = DefaultName
          /\ \A i \in 2 .. 4 : Serialize(m)[i] = 1
          /\ Serialize(m)[5] = n
      <3>1. /\ Serialize(m) \in Seq(Token)
            /\ Len(Serialize(m)) = Len(m.name) + 4
            /\ Len(m.name) = 1
                 => /\ Serialize(m)[1] = m.name[1]
                    /\ Serialize(m)[2] = m.fileCreationPeriod
                    /\ Serialize(m)[3] = m.fileTransmissionPeriod
                    /\ Serialize(m)[4] = m.generalMeasurementPeriod
                    /\ Serialize(m)[5] = m.restRequestPeriod
        BY <2>2, SerializeType
      <3> QED
        BY <2>1, <2>3, <3>1
    <2>5. \A i \in 1 .. 5 : Serialize(m)[i] = DefaultLine(n)[i]
      BY <1>3, <2>4
    <2>6. Serialize(m) = DefaultLine(n)
      BY <1>3, <2>4, <2>5, SeqEqual
    <2>7. m.generalMeasurementPeriod % 256 = Defaults.generalMeasurementPeriod
      BY <2>1, <1>6
    <2> QED
      BY <2>2, <2>3, <2>6, <2>7 DEF m
  <1> QED
    BY <1>1, <1>3, <1>5, <1>6, <1>8, <1>9

-----------------------------------------------------------------------------
(* Types.                                                                  *)

\* The device is switched off with well typed memory and storage.
LEMMA InitTypes == Init => TypeOK
  <1> SUFFICES ASSUME Init PROVE TypeOK
    OBVIOUS
  <1>1. saved \in LoggerMetadata /\ meta \in LoggerMetadata
    BY DefaultTypes DEF Init, RamInit, Storable
  <1>2. file \in Seq(Token)
    BY EmptySeq DEF Init
  <1>3. measurementTaskPeriod \in UINT16
    BY DEF Init, RamInit, UINT16
  <1> QED
    BY <1>1, <1>2, <1>3 DEF Init, RamInit, TypeOK, Modes, MenuState

\* What a value typed into the menu leaves in the structure is well typed.
LEMMA EnterValueType == TypeOK /\ EnterValue => meta' \in LoggerMetadata
  <1> SUFFICES ASSUME TypeOK, EnterValue PROVE meta' \in LoggerMetadata
    OBVIOUS
  <1>1. meta \in LoggerMetadata
    BY DEF TypeOK
  <1>2. ASSUME NEW name \in Names, meta' = [meta EXCEPT !.name = name]
        PROVE  meta' \in LoggerMetadata
    BY <1>1, <1>2, ConfigAssumption DEF LoggerMetadata
  <1>3. ASSUME NEW char \in {49, 50}, meta' = [meta EXCEPT !.fileCreationPeriod = char]
        PROVE  meta' \in LoggerMetadata
    <2>1. char \in UINT8
      BY DEF UINT8
    <2> QED
      BY <1>1, <1>3, <2>1 DEF LoggerMetadata
  <1>4. \A value \in Numbers : ToUint16(value) \in UINT16
    BY ConfigAssumption DEF ToUint16, UINT16
  <1>5. ASSUME NEW value \in Numbers,
               \/ meta' = [meta EXCEPT !.fileTransmissionPeriod = ToUint16(value)]
               \/ meta' = [meta EXCEPT !.generalMeasurementPeriod = ToUint16(value)]
        PROVE  meta' \in LoggerMetadata
    BY <1>1, <1>4, <1>5 DEF LoggerMetadata
  <1> QED
    BY <1>2, <1>3, <1>5 DEF EnterValue

\* The default file: what is written, what it stands for, what is parsed.
LEMMA WriteDefaultEffect ==
  ASSUME WriteDefault
  PROVE  /\ storage = "creating" /\ storage' = "idle" /\ retrieved' = "defaults"
         /\ file' \in Seq(Token) /\ file' # <<>> /\ file' = Serialize(saved')
         /\ saved' \in LoggerMetadata /\ Len(saved'.name) = 1
         /\ saved'.generalMeasurementPeriod % 256 = Defaults.generalMeasurementPeriod
         /\ meta' = Defaults /\ Defaults \in LoggerMetadata
         /\ fileExists' = fileExists
  <1>1. PICK n \in {1} \cup Remains :
          /\ file' = DefaultLine(n)
          /\ saved' = [Defaults EXCEPT !.restRequestPeriod = n]
    BY DEF WriteDefault
  <1>2. n \in UINT8
    BY ConfigAssumption DEF UINT8
  <1> DEFINE m == [Defaults EXCEPT !.restRequestPeriod = n]
  <1>3. /\ DefaultLine(n) \in Seq(Token) /\ DefaultLine(n) # <<>>
        /\ m \in LoggerMetadata /\ Len(m.name) = 1
        /\ m.generalMeasurementPeriod % 256 = Defaults.generalMeasurementPeriod
        /\ Serialize(m) = DefaultLine(n)
    BY <1>2, DefaultTypes
  <1>4. saved' = m
    BY <1>1
  <1> HIDE DEF m
  <1>5. meta' = Defaults /\ Defaults \in LoggerMetadata
    BY DefaultTypes DEF WriteDefault, Storable
  <1>6. /\ storage = "creating" /\ storage' = "idle" /\ retrieved' = "defaults"
        /\ fileExists' = fileExists
    BY DEF WriteDefault
  <1> QED
    BY <1>1, <1>3, <1>4, <1>5, <1>6

\* The steps of retrieveMetadata keep the types, too.
LEMMA RetrieveType ==
  ASSUME TypeOK,
         \/ ReadFile \/ ReadFails \/ CreateFile \/ CreateFails
         \/ WriteDefault \/ WriteDefaultFails
  PROVE  /\ fileExists' \in BOOLEAN /\ file' \in Seq(Token)
         /\ storage' \in {"idle", "creating", "storing"}
         /\ retrieved' \in {"none", "file", "defaults", "failed"}
         /\ meta' \in LoggerMetadata /\ saved' \in LoggerMetadata
  <1> USE DEF fileVars
  <1>1. /\ ParseMetadata(meta, file) \in LoggerMetadata
        /\ <<>> \in Seq(Token)
    BY ParseType, EmptySeq DEF TypeOK
  <1>2. CASE ReadFile
    BY <1>1, <1>2 DEF ReadFile, TypeOK
  <1>3. CASE CreateFile
    BY <1>1, <1>3 DEF CreateFile, TypeOK
  <1>4. CASE ReadFails \/ CreateFails \/ WriteDefaultFails
    BY <1>4 DEF ReadFails, CreateFails, WriteDefaultFails, TypeOK
  <1>5. CASE WriteDefault
    <2>1. fileExists' = fileExists
      BY <1>5 DEF WriteDefault
    <2> QED
      BY <1>5, <2>1, WriteDefaultEffect DEF TypeOK
  <1> QED
    BY <1>2, <1>3, <1>4, <1>5

\* No key, fault or loss of power takes a variable out of its type.
LEMMA TypeStep == TypeOK /\ [Next]_vars => TypeOK'
  <1> SUFFICES ASSUME TypeOK, [Next]_vars PROVE TypeOK'
    OBVIOUS
  <1> USE DEF fileVars, terminalVars, ramVars, Modes, MenuState
  <1>1. /\ {meta, saved} \subseteq LoggerMetadata /\ file \in Seq(Token)
        /\ Serialize(meta) \in Seq(Token)
        /\ <<>> \in Seq(Token)
        /\ ZeroMetadata \in LoggerMetadata
    BY SerializeType, DefaultTypes, EmptySeq DEF TypeOK
  <1>2. \A m \in LoggerMetadata : m.generalMeasurementPeriod \in UINT16
    BY DEF LoggerMetadata
  <1>3. 1 \in UINT16
    BY DEF UINT16
  <1>4. ASSUME meta' \in LoggerMetadata, CheckMetadataUpdated
        PROVE  measurementTaskPeriod' \in UINT16 /\ metadataUpdatedFlag' \in BOOLEAN
    BY <1>2, <1>4 DEF CheckMetadataUpdated, TypeOK
  <1>5. CASE PowerOn
    BY <1>5 DEF PowerOn, TypeOK
  <1>6. CASE PowerOff
    BY <1>1, <1>3, <1>6 DEF PowerOff, RamReset, TypeOK
  <1>7. CASE MountFormats \/ MountFails
    <2>1. Defaults \in LoggerMetadata
      BY DefaultTypes DEF Storable
    <2> QED
      BY <1>1, <1>7, <2>1 DEF MountFormats, MountFails, TypeOK
  <1>8. CASE RetrieveAtBoot \/ DefaultAtBoot
    <2>1. meta' \in LoggerMetadata
      BY <1>8, RetrieveType DEF RetrieveAtBoot, DefaultAtBoot
    <2>2. /\ mode' = "running" /\ measurementTaskPeriod' \in UINT16
          /\ metadataUpdatedFlag' \in BOOLEAN
          /\ UNCHANGED <<terminalVars, boots>>
      BY <1>2, <1>8, <2>1
      DEF RetrieveAtBoot, DefaultAtBoot, BootGoesOn, EnterSuperloop, TypeOK
    <2>3. /\ fileExists' \in BOOLEAN /\ file' \in Seq(Token)
          /\ storage' \in {"idle", "creating", "storing"}
          /\ retrieved' \in {"none", "file", "defaults", "failed"}
          /\ saved' \in LoggerMetadata
      BY <1>8, RetrieveType DEF RetrieveAtBoot, DefaultAtBoot
    <2> QED
      BY <2>1, <2>2, <2>3 DEF TypeOK
  <1>9. CASE RetrieveFailsAtBoot \/ DefaultFailsAtBoot
    <2>1. /\ mode' = "halted"
          /\ UNCHANGED <<metadataUpdatedFlag, measurementTaskPeriod, terminalVars, boots>>
      BY <1>9 DEF RetrieveFailsAtBoot, DefaultFailsAtBoot, BootHalts
    <2>2. ReadFails \/ CreateFails \/ WriteDefaultFails
      BY <1>9 DEF RetrieveFailsAtBoot, DefaultFailsAtBoot
    <2> QED
      BY <2>1, <2>2, RetrieveType DEF TypeOK
  <1>10. CASE CreateAtBoot
    <2>1. CreateFile /\ UNCHANGED <<mode, metadataUpdatedFlag, measurementTaskPeriod,
                                    terminalVars, boots>>
      BY <1>10 DEF CreateAtBoot
    <2> QED
      BY <2>1, RetrieveType DEF TypeOK
  <1>11. CASE Spin \/ UNCHANGED vars
    BY <1>11 DEF Spin, vars, TypeOK
  <1>12. CASE NoSignal \/ PressC \/ PressS \/ PressB \/ SelectField
    <2>1. /\ UNCHANGED <<mode, fileVars, storage, meta, retrieved, saved, boots>>
          /\ CheckMetadataUpdated
      BY <1>12 DEF NoSignal, PressC, PressS, PressB, SelectField, OnlyTerminal
    <2>2. measurementTaskPeriod' \in UINT16 /\ metadataUpdatedFlag' \in BOOLEAN
      BY <1>1, <1>4, <2>1
    <2>3. /\ activeState' \in MenuState
          /\ previousSignal' \in {"none", "T", "N", "F", "C", "M"}
          /\ availableSignal' \in {"ENTRY", "streamData"}
      BY <1>12 DEF NoSignal, PressC, PressS, PressB, SelectField, Goto, TypeOK
    <2> QED
      BY <2>1, <2>2, <2>3 DEF TypeOK
  <1>13. CASE PressI \/ EntryAgain
    <2>1. activeState' = "basicDeviceInfo" /\ EnterInfo
      BY <1>13 DEF PressI, EntryAgain, Goto
    <2>2. ReadFile \/ ReadFails \/ CreateFile \/ CreateFails
      BY <2>1 DEF EnterInfo, RetrieveForInfo, RetrieveFailsForInfo, CreateForInfo
    <2>3. meta' \in LoggerMetadata
      BY <2>2, RetrieveType
    <2>4. measurementTaskPeriod' \in UINT16 /\ metadataUpdatedFlag' \in BOOLEAN
      BY <1>4, <2>1, <2>3
      DEF EnterInfo, RetrieveForInfo, RetrieveFailsForInfo, CreateForInfo, TypeOK
    <2>5. UNCHANGED <<mode, previousSignal, availableSignal, boots>>
      BY <2>1 DEF EnterInfo
    <2> QED
      BY <2>1, <2>2, <2>4, <2>5, RetrieveType DEF TypeOK
  <1>14. CASE DefaultForInfo \/ DefaultFailsForInfo
    <2>1. WriteDefault \/ WriteDefaultFails
      BY <1>14 DEF DefaultForInfo, DefaultFailsForInfo
    <2>2. meta' \in LoggerMetadata
      BY <2>1, RetrieveType
    <2>3. /\ measurementTaskPeriod' \in UINT16 /\ metadataUpdatedFlag' \in BOOLEAN
          /\ UNCHANGED <<mode, terminalVars, boots>>
      BY <1>2, <1>4, <1>14, <2>2 DEF DefaultForInfo, DefaultFailsForInfo
    <2> QED
      BY <2>1, <2>3, RetrieveType DEF TypeOK
  <1>15. CASE EnterValue
    <2>1. /\ meta' \in LoggerMetadata
          /\ measurementTaskPeriod' \in UINT16 /\ metadataUpdatedFlag' \in BOOLEAN
      BY <1>4, <1>15, EnterValueType DEF EnterValue
    <2> QED
      BY <1>15, <2>1 DEF EnterValue, TypeOK
  <1>16. CASE StartStore
    BY <1>1, <1>16 DEF StartStore, TypeOK
  <1>17. ASSUME NEW wrote \in BOOLEAN, Stored(wrote)
         PROVE  /\ saved' \in LoggerMetadata /\ meta' \in LoggerMetadata
                /\ measurementTaskPeriod' \in UINT16 /\ metadataUpdatedFlag' \in BOOLEAN
                /\ UNCHANGED <<mode, terminalVars, retrieved, boots>>
    BY <1>1, <1>4, <1>17 DEF Stored
  <1>18. CASE StoreNotOpened
    BY <1>17, <1>18 DEF StoreNotOpened, TypeOK
  <1>19. CASE FinishStore
    <2>1. file' \in Seq(Token) /\ storage' = "idle" /\ fileExists' = fileExists
      BY <1>1, <1>19 DEF FinishStore
    <2>2. \E wrote \in BOOLEAN : Stored(wrote)
      BY <1>19 DEF FinishStore
    <2> QED
      BY <1>17, <2>1, <2>2 DEF TypeOK
  <1> QED
    BY <1>5, <1>6, <1>7, <1>8, <1>9, <1>10, <1>11, <1>12, <1>13, <1>14, <1>15,
       <1>16, <1>18, <1>19 DEF Next

\* Every variable keeps its type, whatever is typed and whatever fails.
THEOREM TypeCorrect == Spec => []TypeOK
  BY InitTypes, TypeStep, PTL DEF Spec

-----------------------------------------------------------------------------
(* The phases of a boot, of a visit of the info page and of a store.       *)

\* A file being created belongs to a boot or to the info page, one being stored
\* to the configuration page; no step mixes them up.
LEMMA PhaseStep == TypeOK /\ PhaseInv /\ [Next]_vars => PhaseInv'
  <1> SUFFICES ASSUME TypeOK, PhaseInv, [Next]_vars PROVE PhaseInv'
    OBVIOUS
  <1> USE DEF PhaseInv, fileVars, terminalVars, ramVars
  <1>1. CASE PowerOn \/ PowerOff \/ MountFormats \/ MountFails \/ Spin \/ UNCHANGED vars
    BY <1>1 DEF PowerOn, PowerOff, MountFormats, MountFails, Spin, vars
  <1>2. CASE RetrieveAtBoot \/ RetrieveFailsAtBoot \/ CreateAtBoot
    BY <1>2 DEF RetrieveAtBoot, RetrieveFailsAtBoot, CreateAtBoot, Mounted,
                ReadFile, ReadFails, CreateFile, CreateFails, NotOpened,
                BootGoesOn, BootHalts, EnterSuperloop
  <1>3. CASE DefaultAtBoot \/ DefaultFailsAtBoot
    BY <1>3 DEF DefaultAtBoot, DefaultFailsAtBoot, WriteDefault,
                WriteDefaultFails, BootGoesOn, BootHalts, EnterSuperloop
  <1>4. CASE NoSignal \/ PressC \/ PressS \/ PressB \/ SelectField \/ EnterValue
    BY <1>4 DEF NoSignal, PressC, PressS, PressB, SelectField, EnterValue,
                OnlyTerminal, Idle, Configuring
  <1>5. CASE PressI \/ EntryAgain
    <2>1. /\ Idle /\ activeState' = "basicDeviceInfo" /\ UNCHANGED mode
          /\ ReadFile \/ ReadFails \/ CreateFile \/ CreateFails
      BY <1>5 DEF PressI, EntryAgain, Goto, EnterInfo, RetrieveForInfo,
                  RetrieveFailsForInfo, CreateForInfo
    <2> QED
      BY <2>1 DEF Idle, ReadFile, ReadFails, CreateFile, CreateFails, NotOpened
  <1>6. CASE DefaultForInfo \/ DefaultFailsForInfo
    BY <1>6 DEF DefaultForInfo, DefaultFailsForInfo, WriteDefault, WriteDefaultFails
  <1>7. CASE StartStore \/ StoreNotOpened
    BY <1>7 DEF StartStore, StoreNotOpened, Stored, Configuring, Idle
  <1>8. CASE FinishStore
    BY <1>8 DEF FinishStore, Stored
  <1> QED
    BY <1>1, <1>2, <1>3, <1>4, <1>5, <1>6, <1>7, <1>8 DEF Next

\* Whatever fails, a running device has a metadata file, and a storage call in
\* progress belongs to the phase that started it (internalStorage_component.cpp).
THEOREM PhaseCorrect == Spec => [](TypeOK /\ PhaseInv)
  <1>1. Init => TypeOK /\ PhaseInv
    BY InitTypes DEF Init, PhaseInv
  <1> QED
    BY <1>1, TypeStep, PhaseStep, PTL DEF Spec

-----------------------------------------------------------------------------
(* The durable register, on the target.                                    *)

\* On the target no step of a running device empties the metadata file.
LEMMA DurableInvStep ==
  ASSUME ~Host, TypeOK, PhaseInv, DurableInv, [Next]_vars
  PROVE  DurableInv'
  <1> USE DEF DurableInv, fileVars
  <1>1. CASE PowerOn \/ PowerOff \/ MountFormats \/ MountFails \/ Spin
             \/ RetrieveFailsAtBoot \/ CreateAtBoot \/ DefaultFailsAtBoot
             \/ UNCHANGED vars
    BY <1>1 DEF PowerOn, PowerOff, MountFormats, MountFails, Spin,
                RetrieveFailsAtBoot, CreateAtBoot, DefaultFailsAtBoot, BootHalts,
                Mounted, vars
  <1>2. CASE RetrieveAtBoot
    BY <1>2 DEF RetrieveAtBoot, ReadFile
  <1>3. CASE DefaultAtBoot \/ DefaultForInfo
    BY <1>3, WriteDefaultEffect DEF DefaultAtBoot, DefaultForInfo
  <1>4. CASE NoSignal \/ PressC \/ PressS \/ PressB \/ SelectField \/ EnterValue
    BY <1>4 DEF NoSignal, PressC, PressS, PressB, SelectField, EnterValue, OnlyTerminal
  <1>5. CASE PressI \/ EntryAgain \/ DefaultFailsForInfo
    BY <1>5 DEF PressI, EntryAgain, EnterInfo, RetrieveForInfo,
                RetrieveFailsForInfo, CreateForInfo, DefaultFailsForInfo, ReadFile,
                ReadFails, CreateFile, CreateFails, WriteDefaultFails
  <1>6. CASE StartStore \/ StoreNotOpened
    BY <1>6 DEF StartStore, StoreNotOpened, Stored
  <1>7. CASE FinishStore
    <2>1. Serialize(meta) # <<>>
      BY SerializeType DEF TypeOK
    <2> QED
      BY <1>7, <2>1 DEF FinishStore, Stored
  <1> QED
    BY <1>1, <1>2, <1>3, <1>4, <1>5, <1>6, <1>7 DEF Next

\* On the target every step is one of the durable register, or a stutter.
LEMMA DurableStep ==
  ASSUME ~Host, TypeOK, PhaseInv, DurableInv, [Next]_vars
  PROVE  [Durable!Next]_(Durable!vars)
  <1> USE DEF Durable!Next, Durable!vars, fileVars
  <1>1. CASE PowerOn
    BY <1>1 DEF PowerOn, Durable!PowerOn
  <1>2. CASE PowerOff
    BY <1>2 DEF PowerOff, Durable!PowerOff
  <1>3. CASE MountFormats
    BY <1>3 DEF MountFormats, Durable!Format
  <1>4. CASE MountFails
    BY <1>4 DEF MountFails, Durable!Halt
  <1>5. CASE RetrieveAtBoot
    BY <1>5 DEF RetrieveAtBoot, Mounted, ReadFile, BootGoesOn, EnterSuperloop,
                Durable!Boot
  <1>6. CASE RetrieveFailsAtBoot
    BY <1>6 DEF RetrieveFailsAtBoot, Mounted, ReadFails, CreateFails, NotOpened,
                BootHalts, PhaseInv, Durable!Halt
  <1>7. CASE CreateAtBoot
    BY <1>7 DEF CreateAtBoot, CreateFile
  <1>8. CASE DefaultAtBoot
    <2>1. file = <<>> \/ "read" \in Faults
      BY <1>8 DEF DefaultAtBoot, WriteDefault, PhaseInv
    <2> QED
      BY <1>8, <2>1, WriteDefaultEffect
      DEF DefaultAtBoot, BootGoesOn, EnterSuperloop, Durable!Create
  <1>9. CASE DefaultFailsAtBoot
    <2>1. file = <<>> \/ "read" \in Faults
      BY <1>9 DEF DefaultFailsAtBoot, WriteDefaultFails, PhaseInv
    <2> QED
      BY <1>9, <2>1 DEF DefaultFailsAtBoot, WriteDefaultFails, BootHalts, Durable!Halt
  <1>10. CASE Spin \/ UNCHANGED vars
    BY <1>10 DEF Spin, vars
  <1>11. CASE NoSignal \/ PressC \/ PressS \/ PressB \/ SelectField \/ EnterValue
    BY <1>11 DEF NoSignal, PressC, PressS, PressB, SelectField, EnterValue, OnlyTerminal
  <1>12. CASE PressI \/ EntryAgain \/ DefaultFailsForInfo
    BY <1>12 DEF PressI, EntryAgain, EnterInfo, RetrieveForInfo,
                 RetrieveFailsForInfo, CreateForInfo, DefaultFailsForInfo, ReadFile,
                 ReadFails, CreateFile, CreateFails, WriteDefaultFails
  <1>13. CASE DefaultForInfo
    BY <1>13, WriteDefaultEffect DEF DefaultForInfo, Durable!Save
  <1>14. CASE StartStore \/ StoreNotOpened
    BY <1>14 DEF StartStore, StoreNotOpened, Stored
  <1>15. CASE FinishStore
    <2>1. Serialize(meta) # <<>>
      BY SerializeType DEF TypeOK
    <2>2. /\ mode = "running" /\ UNCHANGED mode
          /\ file' = Serialize(meta) \/ UNCHANGED file
      BY <1>15 DEF FinishStore, Stored, PhaseInv
    <2> QED
      BY <2>1, <2>2 DEF Durable!Save
  <1> QED
    BY <1>1, <1>2, <1>3, <1>4, <1>5, <1>6, <1>7, <1>8, <1>9, <1>10, <1>11,
       <1>12, <1>13, <1>14, <1>15 DEF Next

\* On the target the metadata file is a durable register: every write fault
\* and every loss of power leaves a complete old or new configuration, for all
\* names and numbers the user may type; only a mount that formats the storage
\* takes it away, and only a failure to read it replaces it by the defaults.
THEOREM Refinement ==
  ASSUME ~Host
  PROVE  Spec => DurableSpec
  <1>1. Init => Durable!Init /\ DurableInv
    BY DEF Init, Durable!Init, DurableInv
  <1>2. TypeOK /\ PhaseInv /\ DurableInv /\ [Next]_vars
          => DurableInv' /\ [Durable!Next]_(Durable!vars)
    BY DurableInvStep, DurableStep
  <1> QED
    BY <1>1, <1>2, PhaseCorrect, PTL DEF Spec, DurableSpec, Durable!Spec

-----------------------------------------------------------------------------
(* What is saved is what a boot and the info page bring back.              *)

\* A file with the line of the saved metadata parses to what is left of them.
LEMMA ReadEffect ==
  ASSUME TypeOK, SavedInv, ReadFile
  PROVE  /\ Len(saved.name) = 1 => meta' = CutToBytes(saved)
         /\ retrieved' = "file"
         /\ UNCHANGED <<fileExists, file, storage, saved>>
  <1>1. saved \in LoggerMetadata
    BY DEF TypeOK
  <1>2. file = Serialize(saved) /\ meta' = ParseMetadata(meta, file)
    BY DEF ReadFile, SavedInv
  <1>3. Len(saved.name) = 1 => meta' = CutToBytes(saved)
    BY <1>1, <1>2, CutTrip
  <1> QED
    BY <1>3 DEF ReadFile, fileVars

\* Typing, storing, booting, formatting: the file stays the line of what was
\* last stored whenever it is not empty.
LEMMA SavedInvStep == TypeOK /\ SavedInv /\ [Next]_vars => SavedInv'
  <1> SUFFICES ASSUME TypeOK, SavedInv, [Next]_vars PROVE SavedInv'
    OBVIOUS
  <1> USE DEF fileVars, SavedInv
  <1>1. CASE PowerOn \/ PowerOff \/ MountFormats \/ MountFails \/ Spin \/ UNCHANGED vars
    BY <1>1 DEF PowerOn, PowerOff, MountFormats, MountFails, Spin, vars
  <1>2. ASSUME ReadFile \/ ReadFails \/ CreateFile \/ CreateFails \/ WriteDefaultFails
        PROVE  SavedInv'
    BY <1>2 DEF ReadFile, ReadFails, CreateFile, CreateFails, WriteDefaultFails
  <1>3. ASSUME WriteDefault PROVE SavedInv'
    BY <1>3, WriteDefaultEffect
  <1>4. CASE RetrieveAtBoot \/ RetrieveFailsAtBoot \/ CreateAtBoot
             \/ DefaultAtBoot \/ DefaultFailsAtBoot
    BY <1>2, <1>3, <1>4 DEF RetrieveAtBoot, RetrieveFailsAtBoot, CreateAtBoot,
                            DefaultAtBoot, DefaultFailsAtBoot
  <1>5. CASE PressI \/ EntryAgain \/ DefaultForInfo \/ DefaultFailsForInfo
    BY <1>2, <1>3, <1>5 DEF PressI, EntryAgain, EnterInfo, RetrieveForInfo,
                            RetrieveFailsForInfo, CreateForInfo, DefaultForInfo,
                            DefaultFailsForInfo
  <1>6. CASE NoSignal \/ PressC \/ PressS \/ PressB \/ SelectField \/ EnterValue
    BY <1>6 DEF NoSignal, PressC, PressS, PressB, SelectField, EnterValue, OnlyTerminal
  <1>7. CASE StartStore \/ StoreNotOpened
    BY <1>7 DEF StartStore, StoreNotOpened, Stored
  <1>8. CASE FinishStore
    BY <1>8 DEF FinishStore, Stored
  <1> QED
    BY <1>1, <1>4, <1>5, <1>6, <1>7, <1>8 DEF Next

\* The file is the line of the saved metadata in every state, of the target and
\* of the host.
LEMMA SavedInvCorrect == Spec => [](TypeOK /\ PhaseInv /\ SavedInv)
  <1>1. Init => SavedInv
    BY DEF Init, SavedInv
  <1> QED
    BY <1>1, SavedInvStep, PhaseCorrect, PTL DEF Spec

\* A boot that reaches the superloop read the file or created it.
LEMMA BootStep ==
  ASSUME [Next]_vars, mode = "booting", mode' = "running"
  PROVE  RetrieveAtBoot \/ DefaultAtBoot
  BY DEF Next, PowerOn, PowerOff, MountFormats, MountFails, RetrieveFailsAtBoot,
         CreateAtBoot, DefaultFailsAtBoot, BootHalts, Spin, vars, NoSignal,
         PressI, EntryAgain, EnterInfo, DefaultForInfo, DefaultFailsForInfo,
         PressC, PressS, PressB, SelectField, EnterValue, OnlyTerminal,
         StartStore, StoreNotOpened, FinishStore, Stored, Idle, Configuring

\* For all names and numbers that may be typed, wherever power was lost and
\* whatever failed before, on the target and on the host: a boot that comes up
\* brings back what was last stored, with every number cut to 8 bits, or, if the
\* file did not open, the defaults.
THEOREM SavedSurvives == Spec => SavedSurvivesReboot
  <1>1. ASSUME TypeOK, PhaseInv, SavedInv, [Next]_vars,
               mode = "booting", mode' = "running"
        PROVE  \/ /\ retrieved' = "file"
                  /\ Len(saved.name) = 1 => meta' = CutToBytes(saved)
               \/ /\ retrieved' = "defaults" /\ meta' = Defaults
                  /\ file = <<>> \/ "read" \in Faults
    <2>1. CASE RetrieveAtBoot
      BY <1>1, <2>1, ReadEffect DEF RetrieveAtBoot
    <2>2. CASE DefaultAtBoot
      BY <1>1, <2>2, WriteDefaultEffect DEF DefaultAtBoot, PhaseInv
    <2> QED
      BY <1>1, <2>1, <2>2, BootStep
  <1>2. TypeOK /\ PhaseInv /\ SavedInv /\ [Next]_vars
          => [mode = "booting" /\ mode' = "running" =>
                \/ /\ retrieved' = "file"
                   /\ Len(saved.name) = 1 => meta' = CutToBytes(saved)
                \/ /\ retrieved' = "defaults" /\ meta' = Defaults
                   /\ file = <<>> \/ "read" \in Faults]_vars
    BY <1>1
  <1> QED
    BY <1>2, SavedInvCorrect, PTL DEF Spec, SavedSurvivesReboot

\* What is on the info page while it is there.
InfoInv ==
  activeState = "basicDeviceInfo" => mode = "running" /\ InfoShowsSaved

\* A visit of the page reads the file again; nothing else changes what it shows.
LEMMA InfoStep ==
  TypeOK /\ PhaseInv /\ SavedInv /\ InfoInv /\ [Next]_vars => InfoInv'
  <1> SUFFICES ASSUME TypeOK, PhaseInv, SavedInv, InfoInv, [Next]_vars PROVE InfoInv'
    OBVIOUS
  <1> USE DEF fileVars, terminalVars, ramVars, InfoInv, InfoShowsSaved
  <1>1. CASE PowerOn \/ PowerOff \/ MountFormats \/ MountFails \/ Spin \/ UNCHANGED vars
    BY <1>1 DEF PowerOn, PowerOff, RamReset, MountFormats, MountFails, Spin, vars
  <1>2. CASE RetrieveAtBoot \/ RetrieveFailsAtBoot \/ CreateAtBoot
             \/ DefaultAtBoot \/ DefaultFailsAtBoot
    BY <1>2 DEF RetrieveAtBoot, RetrieveFailsAtBoot, CreateAtBoot, DefaultAtBoot,
                DefaultFailsAtBoot, Mounted, BootGoesOn, BootHalts
  <1>3. CASE NoSignal \/ PressC \/ PressS \/ PressB \/ SelectField
    BY <1>3 DEF NoSignal, PressC, PressS, PressB, SelectField, OnlyTerminal, Goto
  <1>4. CASE PressI \/ EntryAgain
    <2>1. EnterInfo /\ mode = "running" /\ mode' = mode
      BY <1>4 DEF PressI, EntryAgain, EnterInfo, Idle
    <2>2. CASE ReadFile
      BY <2>1, <2>2, ReadEffect
    <2>3. CASE ReadFails \/ CreateFails \/ CreateFile
      BY <2>1, <2>3 DEF ReadFails, CreateFails, CreateFile
    <2> QED
      BY <2>1, <2>2, <2>3
      DEF EnterInfo, RetrieveForInfo, RetrieveFailsForInfo, CreateForInfo
  <1>5. CASE DefaultForInfo
    <2>1. mode' = "running" /\ meta' = Defaults /\ retrieved' = "defaults"
      BY <1>5, WriteDefaultEffect DEF DefaultForInfo
    <2> QED
      BY <2>1
  <1>6. CASE DefaultFailsForInfo
    BY <1>6 DEF DefaultFailsForInfo, WriteDefaultFails
  <1>7. CASE EnterValue \/ StartStore \/ StoreNotOpened
    BY <1>7 DEF EnterValue, StartStore, StoreNotOpened, Stored, Configuring
  <1>8. CASE FinishStore
    BY <1>8 DEF FinishStore, Stored, PhaseInv
  <1> QED
    BY <1>1, <1>2, <1>3, <1>4, <1>5, <1>6, <1>7, <1>8 DEF Next

\* For all names and numbers that may be typed, and whatever fails, the device
\* info page shows what is stored, unless its own call of retrieveMetadata failed.
THEOREM InfoCorrect == Spec => []InfoShowsSaved
  <1>1. Init => InfoInv
    BY DEF Init, RamInit, InfoInv
  <1>2. InfoInv => InfoShowsSaved
    BY DEF InfoInv, InfoShowsSaved
  <1> QED
    BY <1>1, <1>2, InfoStep, SavedInvCorrect, PTL DEF Spec

-----------------------------------------------------------------------------
(* The period in use.                                                      *)

\* A flag that is up was raised by this boot, for the default file, and nothing
\* was edited since.
EditsInv ==
  /\ mode # "running" => activeState = "initState"
  /\ metadataUpdatedFlag =>
       /\ mode = "running" /\ activeState # "basicDeviceConfig"
       /\ Len(saved.name) = 1
       /\ measurementTaskPeriod = saved.generalMeasurementPeriod % 256
       /\ measurementTaskPeriod = meta.generalMeasurementPeriod

\* Where the period in use comes from, of one step.
PeriodStep ==
  /\ mode = "running" /\ mode' = "running" =>
       \/ UNCHANGED measurementTaskPeriod
       \/ storage = "creating" /\ retrieved' = "defaults"
  /\ mode' = "running" =>
       \/ mode = "running" /\ UNCHANGED measurementTaskPeriod
       \/ Len(saved'.name) = 1
            => measurementTaskPeriod' = saved'.generalMeasurementPeriod % 256

\* The first call of configurationTask takes the flag down, whatever its signal.
LEMMA EditsStep ==
  ASSUME TypeOK, PhaseInv, SavedInv, EditsInv, [Next]_vars
  PROVE  EditsInv' /\ PeriodStep
  <1> USE DEF fileVars, terminalVars, ramVars, Idle, PeriodStep, EditsInv
  <1>1. saved \in LoggerMetadata
          /\ CutToBytes(saved).generalMeasurementPeriod
               = saved.generalMeasurementPeriod % 256
    BY DEF TypeOK, CutToBytes, LoggerMetadata
  <1> HIDE DEF EditsInv
  <1>2. CASE PowerOn \/ PowerOff \/ MountFormats \/ MountFails \/ Spin \/ UNCHANGED vars
    BY <1>2 DEF PowerOn, PowerOff, RamReset, MountFormats, MountFails, Spin, vars,
                EditsInv
  <1>3. CASE RetrieveFailsAtBoot \/ CreateAtBoot \/ DefaultFailsAtBoot
    BY <1>3 DEF RetrieveFailsAtBoot, CreateAtBoot, DefaultFailsAtBoot, Mounted,
                BootHalts, EditsInv
  <1>4. CASE RetrieveAtBoot
    <2>1. /\ mode = "booting" /\ mode' = "running" /\ UNCHANGED <<saved, activeState>>
          /\ UNCHANGED metadataUpdatedFlag
          /\ Len(saved.name) = 1 => meta' = CutToBytes(saved)
          /\ measurementTaskPeriod' = meta'.generalMeasurementPeriod
      BY <1>4, ReadEffect DEF RetrieveAtBoot, Mounted, BootGoesOn, EnterSuperloop
    <2> QED
      BY <1>1, <2>1 DEF EditsInv
  <1>5. CASE DefaultAtBoot
    <2>1. /\ mode = "booting" /\ mode' = "running" /\ UNCHANGED activeState
          /\ meta' = Defaults /\ Len(saved'.name) = 1
          /\ saved'.generalMeasurementPeriod % 256 = Defaults.generalMeasurementPeriod
          /\ measurementTaskPeriod' = meta'.generalMeasurementPeriod
      BY <1>5, WriteDefaultEffect DEF DefaultAtBoot, BootGoesOn, EnterSuperloop
    <2> QED
      BY <2>1 DEF EditsInv
  <1>6. CASE NoSignal \/ PressC \/ PressS \/ PressB \/ SelectField
    BY <1>6 DEF NoSignal, PressC, PressS, PressB, SelectField, OnlyTerminal,
                CheckMetadataUpdated, EditsInv
  <1>7. CASE PressI \/ EntryAgain
    <2>1. /\ EnterInfo /\ mode = "running" /\ mode' = mode
          /\ activeState' = "basicDeviceInfo"
      BY <1>7 DEF PressI, EntryAgain, EnterInfo, Goto
    <2>2. CASE RetrieveForInfo
      <3>1. /\ Len(saved.name) = 1 => meta' = CutToBytes(saved)
            /\ CheckMetadataUpdated
        BY <2>2, ReadEffect DEF RetrieveForInfo
      <3> QED
        BY <1>1, <2>1, <3>1 DEF CheckMetadataUpdated, EditsInv
    <2>3. CASE RetrieveFailsForInfo
      <3>1. UNCHANGED meta /\ CheckMetadataUpdated
        BY <2>3 DEF RetrieveFailsForInfo, ReadFails, CreateFails
      <3> QED
        BY <2>1, <3>1 DEF CheckMetadataUpdated, EditsInv
    <2>4. CASE CreateForInfo
      <3>1. UNCHANGED <<meta, saved, metadataUpdatedFlag, measurementTaskPeriod>>
        BY <2>4 DEF CreateForInfo, CreateFile
      <3> QED
        BY <2>1, <3>1 DEF EditsInv
    <2> QED
      BY <2>1, <2>2, <2>3, <2>4 DEF EnterInfo
  <1>8. CASE DefaultForInfo
    <2>1. /\ mode = "running" /\ mode' = "running" /\ storage = "creating"
          /\ retrieved' = "defaults" /\ metadataUpdatedFlag' = FALSE
          /\ measurementTaskPeriod' = saved'.generalMeasurementPeriod % 256
      BY <1>8, WriteDefaultEffect DEF DefaultForInfo
    <2> QED
      BY <2>1 DEF EditsInv
  <1>9. CASE DefaultFailsForInfo
    BY <1>9 DEF DefaultFailsForInfo, WriteDefaultFails, CheckMetadataUpdated, EditsInv
  <1>10. CASE EnterValue
    BY <1>10 DEF EnterValue, Configuring, CheckMetadataUpdated, EditsInv
  <1>11. CASE StartStore
    BY <1>11 DEF StartStore, Configuring, EditsInv
  <1>12. CASE StoreNotOpened \/ FinishStore
    <2>1. /\ mode = "running" /\ mode' = mode /\ activeState = "basicDeviceConfig"
          /\ CheckMetadataUpdated
      BY <1>12 DEF StoreNotOpened, FinishStore, Stored, Configuring, PhaseInv
    <2> QED
      BY <2>1 DEF CheckMetadataUpdated, EditsInv
  <1> QED
    BY <1>2, <1>3, <1>4, <1>5, <1>6, <1>7, <1>8, <1>9, <1>10, <1>11, <1>12 DEF Next

\* The flag is down before the first edit.
LEMMA EditsInvCorrect == Spec => [](TypeOK /\ PhaseInv /\ SavedInv /\ EditsInv)
  <1>1. Init => EditsInv
    BY DEF Init, RamInit, EditsInv
  <1>2. TypeOK /\ PhaseInv /\ SavedInv /\ EditsInv /\ [Next]_vars => EditsInv'
    BY EditsStep
  <1> QED
    BY <1>1, <1>2, SavedInvCorrect, PTL DEF Spec

\* Whatever is typed and whatever fails, no edit comes into use before the next
\* boot.
THEOREM EditsNotInUseCorrect == Spec => EditsNotInUse
  <1>1. TypeOK /\ PhaseInv /\ SavedInv /\ EditsInv /\ [Next]_vars
          => [mode = "running" /\ mode' = "running" =>
                \/ UNCHANGED measurementTaskPeriod
                \/ storage = "creating" /\ retrieved' = "defaults"]_vars
    BY EditsStep DEF PeriodStep
  <1> QED
    BY <1>1, EditsInvCorrect, PTL DEF Spec, EditsNotInUse

\* For every number that may be typed, zero and multiples of 256 among them: the
\* period in use is what is left of a saved one in 8 bits, so zero exactly if a
\* multiple of 256 was saved.
THEOREM PeriodCorrect == Spec => PeriodFromSaved
  <1>1. TypeOK /\ PhaseInv /\ SavedInv /\ EditsInv /\ [Next]_vars
          => [mode' = "running" =>
                \/ mode = "running" /\ UNCHANGED measurementTaskPeriod
                \/ Len(saved'.name) = 1
                     => measurementTaskPeriod' = saved'.generalMeasurementPeriod % 256]_vars
    BY EditsStep DEF PeriodStep
  <1> QED
    BY <1>1, EditsInvCorrect, PTL DEF Spec, PeriodFromSaved

=============================================================================
