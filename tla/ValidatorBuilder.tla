--------------------------- MODULE ValidatorBuilder ---------------------------
(***************************************************************************)
(* OpenApiPayloadValidatorBuilder (src/src/validator/builder.rs): a chain  *)
(* of setters, each of which hands the builder on, then `build`, then      *)
(* validations of bodies by pointer (src/src/validator/mod.rs:565).        *)
(* Beside it stands OpenApiPayloadValidator::new, which every other way    *)
(* to a validator uses, for the same document.                             *)
(*                                                                         *)
(* A builder keeps the path of its file; the file is read by `build`, and  *)
(* may have been written in the meantime.                                  *)
(***************************************************************************)
EXTENDS Naturals, Sequences

CONSTANTS
  Paths,      \* paths of files
  Versions,   \* version strings
  V31x,       \* those that start with 3.1
  V30x,       \* those that start with 3.0
  Ids,        \* ids a document can be registered under
  Root,       \* @@root, the one that validation by pointer asks for
  Contents,   \* what a file can hold
  Unreadable, \* no file, or no UTF-8
  NotJson,    \* text that is not JSON
  NoVersion,  \* None; no string under `openapi`
  NoFile,     \* SpecificationLoader::None
  NoValidator, \* build was not called, or failed
  MaxSetters, \* bound: setters in a chain
  MaxWrites   \* bound: times files are written

Draft == {"Draft202012", "Draft4"}

(***************************************************************************)
(* A document is a JSON object, null, or any other value.  `loads` is the  *)
(* verdict of Resource::from_contents, `crawls` that of crawl_paths, which *)
(* PathRouter models; both need an object and say nothing of the version.  *)
(***************************************************************************)
Document ==
  [shape : {"object", "null", "other"}, openapi : Versions \cup {NoVersion},
   loads : BOOLEAN, crawls : BOOLEAN]

ASSUME BuilderAssumption ==
  /\ V31x \subseteq Versions /\ V30x \subseteq Versions
  /\ V31x \cap V30x = {}
  /\ NoVersion \notin Versions
  /\ NoFile \notin Paths
  /\ Root \in Ids
  /\ {Unreadable, NotJson} \cap Document = {}
  /\ Unreadable # NotJson
  /\ Contents \subseteq Document \cup {Unreadable, NotJson}
  /\ \A c \in Contents : c \in Document /\ c.shape # "object" => c.openapi = NoVersion
  /\ MaxSetters \in Nat /\ MaxWrites \in Nat

Failure == {"InvalidOption", "LoadFailure", "InvalidSpecification", "InvalidVersion"}
Validator == [draft : Draft, id : Ids]

ASSUME NoValidatorAssumption == NoValidator \notin Validator

VARIABLES
  files,     \* what each file holds
  loader,    \* specification_loader
  version,   \* Option<OpenApiVersion>, as the string it was parsed from
  root_id,   \* the id the document will get
  result,    \* "pending", "built", "panic" or a failure
  validator, \* what was built
  found,     \* whether each validation by pointer found the document
  calls,     \* history: the setters called, in order
  source,    \* history: the path `build` read, and what it held
  writes     \* how often a file was written

builder == <<loader, version, root_id>>
made == <<result, validator, source>>
vars == <<files, builder, made, found, calls, writes>>

Init ==
  /\ files \in [Paths -> Contents]
  /\ loader = NoFile
  /\ version = NoVersion
  /\ root_id = Root
  /\ result = "pending"
  /\ validator = NoValidator
  /\ found = {}
  /\ calls = <<>>
  /\ source = <<>>
  /\ writes = 0

-----------------------------------------------------------------------------
(* OpenApiVersion *)

Supported(v) == v \in V31x \cup V30x
DraftOf(v) == IF v \in V31x THEN "Draft202012" ELSE "Draft4"

(***************************************************************************)
(* OpenApiPayloadValidator::new.  `value["$id"] = ...` makes an object of  *)
(* null and panics on any other value that is not an object.               *)
(***************************************************************************)
New(d) ==
  IF d.shape = "other" THEN "panic"
  ELSE IF ~Supported(d.openapi) \/ ~d.loads \/ ~d.crawls THEN "error"
  ELSE "built"

-----------------------------------------------------------------------------
(* The builder *)

Setter(method, argument) ==
  /\ result = "pending"
  /\ Len(calls) < MaxSetters
  /\ calls' = Append(calls, [method |-> method, argument |-> argument])
  /\ UNCHANGED <<files, made, found, writes>>

(* Fault: a version is kept without being parsed. *)
SetVersionUnparsed(v) ==
  /\ Setter("version", v)
  /\ version' = v
  /\ UNCHANGED <<loader, root_id>>

(* Fault: a version that does not parse leaves the one before it. *)
SetVersionKeeps(v) ==
  /\ Setter("version", v)
  /\ version' = IF Supported(v) THEN v ELSE version
  /\ UNCHANGED <<loader, root_id>>

(* A version that does not parse is None, whatever was there before. *)
SetVersion(v) ==
  /\ Setter("version", v)
  /\ version' = IF Supported(v) THEN v ELSE NoVersion
  /\ UNCHANGED <<loader, root_id>>

(* Fault: an id that was given is not replaced. *)
SetRootIdOnce(id) ==
  /\ Setter("root_id", id)
  /\ root_id' = IF root_id = Root THEN id ELSE root_id
  /\ UNCHANGED <<loader, version>>

SetRootId(id) ==
  /\ Setter("root_id", id)
  /\ root_id' = id
  /\ UNCHANGED <<loader, version>>

(* Fault: a file that was named is not replaced. *)
LoadFromFileOnce(path) ==
  /\ Setter("load_from_file", path)
  /\ loader' = IF loader = NoFile THEN path ELSE loader
  /\ UNCHANGED <<version, root_id>>

LoadFromFile(path) ==
  /\ Setter("load_from_file", path)
  /\ loader' = path
  /\ UNCHANGED <<version, root_id>>

(* resolve_draft is for a builder that was given no version. *)
ChosenVersion(d) == IF version # NoVersion THEN version ELSE d.openapi

(* Fault: null is not made an object. *)
BuiltNullPanics(d) ==
  IF d.shape # "object" THEN "panic"
  ELSE IF ChosenVersion(d) = NoVersion THEN "InvalidSpecification"
  ELSE IF ~Supported(ChosenVersion(d)) THEN "InvalidVersion"
  ELSE IF ~d.loads \/ ~d.crawls THEN "InvalidSpecification"
  ELSE "built"

(* `build`, from the document on: `spec["$id"] = ...` as in `new`. *)
Built(d) ==
  IF d.shape = "other" THEN "panic"
  ELSE IF ChosenVersion(d) = NoVersion THEN "InvalidSpecification"
  ELSE IF ~Supported(ChosenVersion(d)) THEN "InvalidVersion"
  ELSE IF ~d.loads \/ ~d.crawls THEN "InvalidSpecification"
  ELSE "built"

(* load_file_spec, and `build` with what it returns. *)
BuiltFrom(content) ==
  CASE content = Unreadable -> "LoadFailure"
    [] content = NotJson -> "InvalidSpecification"
    [] OTHER -> Built(content)

(* `build` takes the builder: no setter comes after it. *)
Build ==
  /\ result = "pending"
  /\ \/ /\ loader = NoFile
        /\ result' = "InvalidOption"
        /\ UNCHANGED <<validator, source>>
     \/ /\ loader # NoFile
        /\ source' = <<loader, files[loader]>>
        /\ result' = BuiltFrom(files[loader])
        /\ validator' = IF result' # "built" THEN NoValidator
                        ELSE [draft |-> DraftOf(ChosenVersion(files[loader])),
                              id |-> root_id]
  /\ UNCHANGED <<files, builder, found, calls, writes>>

(* Someone deploys another file. *)
Write(path, content) ==
  /\ writes < MaxWrites
  /\ files[path] # content
  /\ files' = [files EXCEPT ![path] = content]
  /\ writes' = writes + 1
  /\ UNCHANGED <<builder, made, found, calls>>

(***************************************************************************)
(* complex_validation_by_path asks for @@root: the validator of the schema *)
(* is built only if the document is registered under that id.              *)
(***************************************************************************)
ValidateByPath ==
  /\ result = "built"
  /\ found' = found \cup {validator.id = Root}
  /\ UNCHANGED <<files, builder, made, calls, writes>>

Next ==
  \/ \E v \in Versions : SetVersion(v)
  \/ \E id \in Ids : SetRootId(id)
  \/ \E path \in Paths : LoadFromFile(path)
  \/ Build
  \/ \E path \in Paths, content \in Contents : Write(path, content)
  \/ ValidateByPath

Spec == Init /\ [][Next]_vars

-----------------------------------------------------------------------------
(* Every variable has its type, and a version that was kept is supported. *)
TypeOK ==
  /\ files \in [Paths -> Contents]
  /\ loader \in Paths \cup {NoFile}
  /\ version \in V31x \cup V30x \cup {NoVersion}
  /\ root_id \in Ids
  /\ result \in {"pending", "built", "panic"} \cup Failure
  /\ validator \in Validator \cup {NoValidator}
  /\ result = "built" <=> validator # NoValidator
  /\ found \subseteq BOOLEAN
  /\ source \in {<<>>} \cup (Paths \X Contents)
  /\ Len(calls) \in 0 .. MaxSetters
  /\ writes \in 0 .. MaxWrites

(* The call of a setter after which no other call of it came. *)
Latest(method, i) ==
  /\ i \in 1 .. Len(calls)
  /\ calls[i].method = method
  /\ \A j \in i + 1 .. Len(calls) : calls[j].method # method

Never(method) == \A i \in 1 .. Len(calls) : calls[i].method # method

VersionGiven == \E i \in 1 .. Len(calls) :
                  Latest("version", i) /\ Supported(calls[i].argument)

(***************************************************************************)
(* build makes of a document what new makes of it (builder.rs:111, mod.rs: *)
(* 31): it panics on the same documents, fails on every other one that new *)
(* fails on, unless the last version given stands in for that of the       *)
(* document, and differs from new at most in the draft of that version and *)
(* in the id that was given.                                               *)
(***************************************************************************)
BuildsWhatNewBuilds ==
  source # <<>> /\ source[2] \in Document =>
    LET d == source[2] IN
    /\ result = "panic" <=> New(d) = "panic"
    /\ New(d) = "built" => result = "built"
    /\ result = "built" => /\ New(d) = "built" \/ VersionGiven
                           /\ d.loads /\ d.crawls
    /\ result = "built" /\ ~VersionGiven => validator.draft = DraftOf(d.openapi)

(***************************************************************************)
(* A validator is what the last call of each setter says, in whatever      *)
(* order they came (builder.rs:79): its id is the last one given, its      *)
(* draft that of the last version given if that is supported, and else of  *)
(* the document: a version that is not takes back the one before, and is   *)
(* not reported.                                                           *)
(***************************************************************************)
LastCallsCount ==
  /\ result = "built" =>
       \A i \in 1 .. Len(calls) :
         /\ Latest("root_id", i) => validator.id = calls[i].argument
         /\ Latest("version", i) =>
              validator.draft = DraftOf(IF Supported(calls[i].argument)
                                        THEN calls[i].argument ELSE source[2].openapi)
  /\ result = "InvalidVersion" => ~VersionGiven /\ ~Supported(source[2].openapi)
  /\ result = "InvalidOption" <=> result # "pending" /\ Never("load_from_file")

(***************************************************************************)
(* A validator from new can validate every body.  One from the builder can *)
(* validate none if the last root_id it was given is another than @@root,  *)
(* and all if not (builder.rs:121, mod.rs:570); build says nothing of it.  *)
(***************************************************************************)
BodiesNeedRoot ==
  LET Moved == \E i \in 1 .. Len(calls) :
                 Latest("root_id", i) /\ calls[i].argument # Root
  IN  (FALSE \in found => Moved) /\ (TRUE \in found => ~Moved)

(***************************************************************************)
(* The document is the one its file holds when build is called, though it  *)
(* be written after load_from_file, and stays that (builder.rs:94, :118):  *)
(* of several files that were named, the last one.                         *)
(***************************************************************************)
BuiltFromFileOfBuild ==
  [][made' # made =>
       /\ result = "pending"
       /\ source' # <<>> =>
            \E i \in 1 .. Len(calls) :
              /\ Latest("load_from_file", i)
              /\ source' = <<calls[i].argument, files[calls[i].argument]>>]_vars
==============================================================================
