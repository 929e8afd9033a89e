------------------------ MODULE ValidatorBuilderProofs ------------------------
(***************************************************************************)
(* The builder beside new, for any files, versions and ids and any chain   *)
(* of setters.  The invariant says what the fields of the builder have to  *)
(* do with the calls, and what was built with the fields and the file.     *)
(***************************************************************************)
EXTENDS ValidatorBuilder, TLAPS

(* A field holds what the last call of its setter kept, or its default. *)
Kept(v) == IF Supported(v) THEN v ELSE NoVersion

VersionRecorded ==
  \/ Never("version") /\ version = NoVersion
  \/ \E i \in 1 .. Len(calls) :
       Latest("version", i) /\ version = Kept(calls[i].argument)

IdRecorded ==
  \/ Never("root_id") /\ root_id = Root
  \/ \E i \in 1 .. Len(calls) : Latest("root_id", i) /\ root_id = calls[i].argument

FileRecorded ==
  \/ Never("load_from_file") /\ loader = NoFile
  \/ \E i \in 1 .. Len(calls) :
       /\ Latest("load_from_file", i)
       /\ loader = calls[i].argument /\ loader \in Paths

Recorded == VersionRecorded /\ IdRecorded /\ FileRecorded

(* What `build` made, of what it read. *)
Made ==
  /\ result = "pending" => source = <<>>
  /\ result = "InvalidOption" <=> result # "pending" /\ loader = NoFile
  /\ source = <<>> => result \in {"pending", "InvalidOption"}
  /\ source # <<>> => result = BuiltFrom(source[2])
  /\ result = "built" =>
       validator = [draft |-> DraftOf(ChosenVersion(source[2])), id |-> root_id]
  /\ TRUE \in found => result = "built" /\ validator.id = Root
  /\ FALSE \in found => result = "built" /\ validator.id # Root

SetterName == {"version", "root_id", "load_from_file"}
Call == [method : SetterName, argument : Versions \cup Ids \cup Paths]

IInv == TypeOK /\ calls \in Seq(Call) /\ Recorded /\ Made

-----------------------------------------------------------------------------
(* Calls *)

(* Of each setter at most one call is the latest. *)
LEMMA OneLatest ==
  ASSUME NEW method, NEW i, NEW j, Latest(method, i), Latest(method, j),
         Len(calls) \in Nat
  PROVE  i = j
BY DEF Latest

LEMMA NeverLatest ==
  ASSUME NEW method, NEW i, Latest(method, i)
  PROVE  ~Never(method)
BY DEF Latest, Never

(* The call of a setter is its latest, and leaves those of the others.     *)
LEMMA SetterCalls ==
  ASSUME calls \in Seq(Call),
         NEW method \in SetterName, NEW argument \in Versions \cup Ids \cup Paths,
         Setter(method, argument)
  PROVE  /\ calls' \in Seq(Call)
         /\ Len(calls') = Len(calls) + 1 /\ Len(calls) \in Nat
         /\ calls'[Len(calls')].argument = argument
         /\ \A k : k = Len(calls') => Latest(method, k)'
         /\ \A other : other # method /\ Never(other) => Never(other)'
         /\ \A other, i : other # method /\ Latest(other, i)
              => Latest(other, i)' /\ calls'[i] = calls[i]
<1>1. calls' = Append(calls, [method |-> method, argument |-> argument])
  BY DEF Setter
<1>2. /\ calls' \in Seq(Call)
      /\ Len(calls') = Len(calls) + 1 /\ Len(calls) \in Nat
      /\ calls'[Len(calls')] = [method |-> method, argument |-> argument]
      /\ \A i \in 1 .. Len(calls) : calls'[i] = calls[i]
  BY <1>1 DEF Call
<1>3. \A k : k = Len(calls') => Latest(method, k)'
  BY <1>2 DEF Latest
<1>4. \A other : other # method /\ Never(other) => Never(other)'
  BY <1>2 DEF Never
<1>5. \A other, i : other # method /\ Latest(other, i)
        => Latest(other, i)' /\ calls'[i] = calls[i]
  BY <1>2, SMTT(30) DEF Latest
<1> QED  BY <1>2, <1>3, <1>4, <1>5

-----------------------------------------------------------------------------
(* The steps *)

LEMMA SetterStep ==
  ASSUME IInv,
         \/ \E v \in Versions : SetVersion(v)
         \/ \E id \in Ids : SetRootId(id)
         \/ \E path \in Paths : LoadFromFile(path)
  PROVE  IInv'
<1>1. /\ result = "pending" /\ Len(calls) < MaxSetters
      /\ UNCHANGED <<files, made, found, writes>>
  BY DEF SetVersion, SetRootId, LoadFromFile, Setter
<1>2. CASE \E v \in Versions : SetVersion(v)
  <2>1. PICK v \in Versions : SetVersion(v)
    BY <1>2
  <2>2. version' = Kept(v) /\ UNCHANGED <<loader, root_id>> /\ Setter("version", v)
    BY <2>1 DEF SetVersion, Kept
  <2>3. /\ calls' \in Seq(Call)
        /\ Len(calls') = Len(calls) + 1 /\ Len(calls) \in Nat
    BY <2>2, SetterCalls DEF IInv, SetterName
  <2>4. VersionRecorded'
    BY <2>2, <2>3, SetterCalls DEF IInv, SetterName, VersionRecorded, Kept, Supported
  <2>5. IdRecorded' /\ FileRecorded'
    BY <2>2, <2>3, SetterCalls DEF IInv, SetterName, Recorded, IdRecorded, FileRecorded
  <2>6. TypeOK'
    BY <1>1, <2>2, <2>3, BuilderAssumption DEF IInv, TypeOK, made, Kept, Supported
  <2>7. Made'
    BY <1>1, <2>2 DEF IInv, TypeOK, Made, made
  <2> QED  BY <2>3, <2>4, <2>5, <2>6, <2>7 DEF IInv, Recorded
<1>3. CASE \E id \in Ids : SetRootId(id)
  <2>1. PICK id \in Ids : SetRootId(id)
    BY <1>3
  <2>2. root_id' = id /\ UNCHANGED <<loader, version>> /\ Setter("root_id", id)
    BY <2>1 DEF SetRootId
  <2>3. /\ calls' \in Seq(Call)
        /\ Len(calls') = Len(calls) + 1 /\ Len(calls) \in Nat
    BY <2>2, SetterCalls DEF IInv, SetterName
  <2>4. IdRecorded'
    BY <2>2, <2>3, SetterCalls DEF IInv, SetterName, IdRecorded
  <2>5. VersionRecorded' /\ FileRecorded'
    BY <2>2, <2>3, SetterCalls
    DEF IInv, SetterName, Recorded, VersionRecorded, FileRecorded, Kept, Supported
  <2>6. TypeOK'
    BY <1>1, <2>2, <2>3, BuilderAssumption DEF IInv, TypeOK, made
  <2>7. Made'
    BY <1>1, <2>2 DEF IInv, TypeOK, Made, made
  <2> QED  BY <2>3, <2>4, <2>5, <2>6, <2>7 DEF IInv, Recorded
<1>4. CASE \E path \in Paths : LoadFromFile(path)
  <2>1. PICK path \in Paths : LoadFromFile(path)
    BY <1>4
  <2>2. loader' = path /\ UNCHANGED <<version, root_id>> /\ Setter("load_from_file", path)
    BY <2>1 DEF LoadFromFile
  <2>3. /\ calls' \in Seq(Call)
        /\ Len(calls') = Len(calls) + 1 /\ Len(calls) \in Nat
    BY <2>2, SetterCalls DEF IInv, SetterName
  <2>4. FileRecorded'
    BY <2>2, <2>3, SetterCalls DEF IInv, SetterName, FileRecorded
  <2>5. VersionRecorded' /\ IdRecorded'
    BY <2>2, <2>3, SetterCalls
    DEF IInv, SetterName, Recorded, VersionRecorded, IdRecorded, Kept, Supported
  <2>6. TypeOK'
    BY <1>1, <2>2, <2>3, BuilderAssumption DEF IInv, TypeOK, made
  <2>7. Made'
    BY <1>1, <2>2 DEF IInv, TypeOK, Made, made
  <2> QED  BY <2>3, <2>4, <2>5, <2>6, <2>7 DEF IInv, Recorded
<1> QED  BY <1>2, <1>3, <1>4

(* What is built from a file is no InvalidOption, and is built or not.     *)
LEMMA BuiltResult ==
  ASSUME NEW content \in Contents
  PROVE  /\ BuiltFrom(content) \in {"built", "panic"} \cup Failure
         /\ BuiltFrom(content) \notin {"pending", "InvalidOption"}
BY BuilderAssumption DEF BuiltFrom, Built, Failure

LEMMA BuildStep ==
  ASSUME IInv, Build
  PROVE  IInv'
<1>1. /\ result = "pending" /\ found = {}
      /\ UNCHANGED <<files, builder, found, calls, writes>>
  BY DEF IInv, TypeOK, Made, Build
<1>2. Recorded'
  BY <1>1
  DEF IInv, Recorded, VersionRecorded, IdRecorded, FileRecorded, Never, Latest, Kept,
      Supported, builder
<1>3. CASE loader = NoFile
  <2>1. result' = "InvalidOption" /\ UNCHANGED <<validator, source>>
    BY <1>3 DEF Build
  <2>2. TypeOK'
    BY <1>1, <2>1 DEF IInv, TypeOK, Failure, builder
  <2>3. Made'
    BY <1>1, <1>3, <2>1 DEF IInv, Made, builder
  <2> QED  BY <1>1, <1>2, <2>2, <2>3 DEF IInv
<1>4. CASE loader # NoFile
  <2>1. loader \in Paths /\ files[loader] \in Contents
    BY <1>4 DEF IInv, TypeOK
  <2>2. /\ source' = <<loader, files[loader]>>
        /\ result' = BuiltFrom(files[loader])
        /\ validator' = IF result' # "built" THEN NoValidator
                        ELSE [draft |-> DraftOf(ChosenVersion(files[loader])),
                              id |-> root_id]
    BY <1>4 DEF Build
  <2>3. /\ result' \in {"built", "panic"} \cup Failure
        /\ result' \notin {"pending", "InvalidOption"}
    BY <2>1, <2>2, BuiltResult
  <2>4. [draft |-> DraftOf(ChosenVersion(files[loader])), id |-> root_id] \in Validator
    BY DEF IInv, TypeOK, Validator, Draft, DraftOf
  <2>5. source' # <<>> /\ source'[2] = files[loader] /\ source' \in Paths \X Contents
    BY <2>1, <2>2
  <2>6. TypeOK'
    BY <1>1, <2>2, <2>3, <2>4, <2>5, NoValidatorAssumption DEF IInv, TypeOK, builder
  <2>7. BuiltFrom(source[2])' = BuiltFrom(files[loader])
    BY <1>1, <2>5 DEF BuiltFrom, Built, ChosenVersion, builder
  <2>8. ChosenVersion(source[2])' = ChosenVersion(files[loader])
    BY <1>1, <2>5 DEF ChosenVersion, builder
  <2>9. Made'
    BY <1>1, <1>4, <2>2, <2>3, <2>5, <2>7, <2>8 DEF Made, DraftOf, builder
  <2> QED  BY <1>1, <1>2, <2>6, <2>9 DEF IInv
<1> QED  BY <1>3, <1>4

LEMMA WriteStep ==
  ASSUME IInv, NEW path \in Paths, NEW content \in Contents, Write(path, content)
  PROVE  IInv'
<1>1. UNCHANGED <<builder, made, found, calls>>
  BY DEF Write
<1>2. Recorded'
  BY <1>1
  DEF IInv, Recorded, VersionRecorded, IdRecorded, FileRecorded, Never, Latest, Kept,
      Supported, builder
<1>3. Made'
  BY <1>1
  DEF IInv, Made, BuiltFrom, Built, ChosenVersion, DraftOf, builder, made
<1>4. files' \in [Paths -> Contents] /\ writes' \in 0 .. MaxWrites
  BY BuilderAssumption DEF IInv, TypeOK, Write
<1>5. TypeOK'
  BY <1>1, <1>4 DEF IInv, TypeOK, builder, made
<1> QED  BY <1>1, <1>2, <1>3, <1>5 DEF IInv

LEMMA ValidateStep ==
  ASSUME IInv, ValidateByPath
  PROVE  IInv'
<1>1. /\ result = "built" /\ found' = found \cup {validator.id = Root}
      /\ UNCHANGED <<files, builder, made, calls, writes>>
  BY DEF ValidateByPath
<1>2. Recorded'
  BY <1>1
  DEF IInv, Recorded, VersionRecorded, IdRecorded, FileRecorded, Never, Latest, Kept,
      Supported, builder
<1>3. /\ found' \in SUBSET BOOLEAN
      /\ TRUE \in found' => validator.id = Root
      /\ FALSE \in found' => validator.id # Root
  BY <1>1 DEF IInv, TypeOK, Made
<1>4. TypeOK'
  BY <1>1, <1>3 DEF IInv, TypeOK, builder, made
<1>5. Made'
  BY <1>1, <1>3
  DEF IInv, Made, BuiltFrom, Built, ChosenVersion, DraftOf, builder, made
<1> QED  BY <1>1, <1>2, <1>4, <1>5 DEF IInv

-----------------------------------------------------------------------------
(* The invariant IInv: each field is what the last call of its setter kept *)
(* (Recorded), and the result is that of the file read (Made).             *)
THEOREM Invariance == Spec => []IInv
<1>1. Init => IInv
  BY BuilderAssumption
  DEF Init, IInv, TypeOK, Recorded, VersionRecorded, IdRecorded, FileRecorded, Never,
      Made
<1>2. IInv /\ [Next]_vars => IInv'
  <2> SUFFICES ASSUME IInv, [Next]_vars  PROVE IInv'
    OBVIOUS
  <2>1. CASE Next
    BY <2>1, SetterStep, BuildStep, WriteStep, ValidateStep DEF Next
  <2>2. CASE UNCHANGED vars
    <3>1. UNCHANGED <<files, builder, made, found, calls, writes>>
      BY <2>2 DEF vars
    <3>2. Recorded'
      BY <3>1
      DEF IInv, Recorded, VersionRecorded, IdRecorded, FileRecorded, Never, Latest,
          Kept, Supported, builder
    <3>3. Made'
      BY <3>1
      DEF IInv, Made, BuiltFrom, Built, ChosenVersion, DraftOf, builder, made
    <3>4. TypeOK'
      BY <3>1 DEF IInv, TypeOK, builder, made
    <3> QED  BY <3>1, <3>2, <3>3, <3>4 DEF IInv
  <2> QED  BY <2>1, <2>2
<1> QED  BY <1>1, <1>2, PTL DEF Spec

(* Every variable has its type, and a version that was kept is supported.  *)
THEOREM TypeCorrect == Spec => []TypeOK
BY Invariance, PTL DEF IInv

(* What the fields say of the calls. *)
LEMMA LatestVersion ==
  ASSUME IInv, NEW i, Latest("version", i)
  PROVE  version = Kept(calls[i].argument)
BY NeverLatest, OneLatest DEF IInv, Recorded, VersionRecorded, Latest

LEMMA LatestId ==
  ASSUME IInv, NEW i, Latest("root_id", i)
  PROVE  root_id = calls[i].argument
BY NeverLatest, OneLatest DEF IInv, Recorded, IdRecorded, Latest

LEMMA VersionIsGiven ==
  ASSUME IInv
  PROVE  VersionGiven <=> version # NoVersion
<1>1. ASSUME VersionGiven  PROVE version # NoVersion
  BY <1>1, LatestVersion, BuilderAssumption DEF VersionGiven, Kept, Supported
<1>2. ASSUME version # NoVersion  PROVE VersionGiven
  BY <1>2 DEF IInv, Recorded, VersionRecorded, VersionGiven, Kept
<1> QED  BY <1>1, <1>2

(* build makes of a document what new makes of it (builder.rs:111).        *)
THEOREM BuildIsNew == Spec => []BuildsWhatNewBuilds
<1>1. IInv => BuildsWhatNewBuilds
  <2> SUFFICES ASSUME IInv, source # <<>>, source[2] \in Document
               PROVE  LET d == source[2] IN
                 /\ result = "panic" <=> New(d) = "panic"
                 /\ New(d) = "built" => result = "built"
                 /\ result = "built" => /\ New(d) = "built" \/ VersionGiven
                                        /\ d.loads /\ d.crawls
                 /\ result = "built" /\ ~VersionGiven
                      => validator.draft = DraftOf(d.openapi)
    BY DEF BuildsWhatNewBuilds
  <2> DEFINE d == source[2]
  <2>1. result = Built(d)
    BY BuilderAssumption DEF IInv, Made, BuiltFrom
  <2>2. version # NoVersion => Supported(version)
    BY DEF IInv, TypeOK, Supported
  <2>3. VersionGiven <=> version # NoVersion
    BY VersionIsGiven
  <2>4. Supported(d.openapi) => d.openapi # NoVersion
    BY BuilderAssumption DEF Supported
  <2>5. /\ result = "panic" <=> New(d) = "panic"
        /\ New(d) = "built" => result = "built"
        /\ result = "built" => (New(d) = "built" \/ VersionGiven) /\ d.loads /\ d.crawls
    BY <2>1, <2>2, <2>3, <2>4 DEF Built, New, ChosenVersion
  <2>6. result = "built" /\ ~VersionGiven => validator.draft = DraftOf(d.openapi)
    BY <2>3 DEF IInv, Made, ChosenVersion
  <2> QED  BY <2>5, <2>6
<1> QED  BY Invariance, <1>1, PTL

(* The last call of each setter counts, in whatever order they came.       *)
THEOREM LastCallCounts == Spec => []LastCallsCount
<1>1. IInv => LastCallsCount
  <2> SUFFICES ASSUME IInv  PROVE LastCallsCount
    OBVIOUS
  <2>1. ASSUME result = "built", NEW i \in 1 .. Len(calls)
        PROVE  /\ Latest("root_id", i) => validator.id = calls[i].argument
               /\ Latest("version", i) =>
                    validator.draft = DraftOf(IF Supported(calls[i].argument)
                                              THEN calls[i].argument
                                              ELSE source[2].openapi)
    <3>1. validator.id = root_id /\ validator.draft = DraftOf(ChosenVersion(source[2]))
      BY <2>1 DEF IInv, Made
    <3>2. Latest("version", i) =>
            ChosenVersion(source[2]) = IF Supported(calls[i].argument)
                                       THEN calls[i].argument ELSE source[2].openapi
      BY LatestVersion, BuilderAssumption DEF ChosenVersion, Kept, Supported
    <3> QED  BY <3>1, <3>2, LatestId
  <2>2. result = "InvalidVersion" => ~VersionGiven /\ ~Supported(source[2].openapi)
    <3> SUFFICES ASSUME result = "InvalidVersion"
                 PROVE  ~VersionGiven /\ ~Supported(source[2].openapi)
      OBVIOUS
    <3>1. result = BuiltFrom(source[2])
      BY DEF IInv, Made
    <3>2. ~Supported(ChosenVersion(source[2]))
      BY <3>1 DEF BuiltFrom, Built
    <3>3. version # NoVersion => Supported(version)
      BY DEF IInv, TypeOK, Supported
    <3> QED  BY <3>2, <3>3, VersionIsGiven DEF ChosenVersion
  <2>3. loader = NoFile <=> Never("load_from_file")
    BY NeverLatest, BuilderAssumption DEF IInv, Recorded, FileRecorded
  <2>4. result = "InvalidOption" <=> result # "pending" /\ Never("load_from_file")
    BY <2>3 DEF IInv, Made
  <2> QED  BY <2>1, <2>2, <2>4 DEF LastCallsCount
<1> QED  BY Invariance, <1>1, PTL

(* Bodies can be validated only by a validator under the id @@root.        *)
THEOREM RootIsNeeded == Spec => []BodiesNeedRoot
<1>1. IInv => BodiesNeedRoot
  <2> SUFFICES ASSUME IInv  PROVE BodiesNeedRoot
    OBVIOUS
  <2> DEFINE Moved == \E i \in 1 .. Len(calls) :
                        Latest("root_id", i) /\ calls[i].argument # Root
  <2>1. root_id # Root <=> Moved
    BY LatestId DEF IInv, Recorded, IdRecorded
  <2>2. result = "built" => validator.id = root_id
    BY DEF IInv, Made
  <2>3. /\ TRUE \in found => result = "built" /\ validator.id = Root
        /\ FALSE \in found => result = "built" /\ validator.id # Root
    BY DEF IInv, Made
  <2> QED  BY <2>1, <2>2, <2>3 DEF BodiesNeedRoot
<1> QED  BY Invariance, <1>1, PTL

(* The document is the one of the file last named, when build is called.   *)
THEOREM FileIsOfBuild == Spec => BuiltFromFileOfBuild
<1>1. IInv /\ [Next]_vars =>
        [made' # made =>
           /\ result = "pending"
           /\ source' # <<>> =>
                \E i \in 1 .. Len(calls) :
                  /\ Latest("load_from_file", i)
                  /\ source' = <<calls[i].argument, files[calls[i].argument]>>]_vars
  <2> SUFFICES ASSUME IInv, Next, made' # made
               PROVE  /\ result = "pending"
                      /\ source' # <<>> =>
                           \E i \in 1 .. Len(calls) :
                             /\ Latest("load_from_file", i)
                             /\ source' = <<calls[i].argument, files[calls[i].argument]>>
    OBVIOUS
  <2>1. Build
    BY DEF Next, SetVersion, SetRootId, LoadFromFile, Setter, Write, ValidateByPath
  <2>2. result = "pending" /\ source = <<>>
    BY <2>1 DEF Build, IInv, Made
  <2>3. ASSUME source' # <<>>
        PROVE  loader # NoFile /\ source' = <<loader, files[loader]>>
    BY <2>1, <2>2, <2>3 DEF Build
  <2> QED  BY <2>2, <2>3 DEF IInv, Recorded, FileRecorded
<1> QED  BY Invariance, <1>1, PTL DEF Spec, BuiltFromFileOfBuild
==============================================================================
