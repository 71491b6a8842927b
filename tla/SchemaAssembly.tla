---------------------------- MODULE SchemaAssembly ----------------------------
(***************************************************************************)
(* How internal/schema/reloader.go turns the configured files into the one *)
(* document that Reload submits, and how ReadSchemaFile reads one file.    *)
(* Both are pure functions of the files' contents, written here as         *)
(* operators and checked over every list of up to MaxFiles files.          *)
(*                                                                         *)
(* A text is a sequence of tokens: "def_p", "def_y", "def_r" stand for a   *)
(* schema definition in a plain file, inline in a manifest, and in a file  *)
(* a manifest references; "secret" is the content of a file outside the    *)
(* manifest's directory; "ws" and "nl" are blanks.  A manifest (.yaml)     *)
(* is abstracted to whether it is valid YAML, whether the structured       *)
(* decode of validationfile succeeds (it fails when the other validation   *)
(* fields are malformed), and its top-level string keys.                   *)
(***************************************************************************)
EXTENDS Naturals, Sequences, FiniteSets
LOCAL INSTANCE SequencesExt

CONSTANTS
  MaxFiles,     \* longest list of files checked
  BlankInputs   \* whether texts and inline schemas may be empty or whitespace

VARIABLE files   \* r.files: the configured list, fixed for a run

Blank == {"ws", "nl"}
PlainTexts == {<<"def_p">>} \cup (IF BlankInputs THEN {<<>>, <<"ws">>} ELSE {})
\* String values a manifest key may hold ("ws"/"blank" are whitespace).
SchemaVals == {"def_y"} \cup (IF BlankInputs THEN {"ws"} ELSE {})
RefVals == {"blank", "local", "missing", "escape"}

KeyMaps ==
  { m \in UNION { [K -> SchemaVals \cup RefVals] : K \in SUBSET {"schema", "schema_file", "schemaFile"} } :
      /\ "schema" \in DOMAIN m => m["schema"] \in SchemaVals
      /\ \A k \in DOMAIN m \ {"schema"} : m[k] \in RefVals }

PlainFiles ==
  [kind : {"plain"}, readable : {TRUE}, content : PlainTexts]
  \cup {[kind |-> "plain", readable |-> FALSE, content |-> <<>>]}

Manifests ==
  [kind : {"yaml"}, syntax : {TRUE}, decodes : BOOLEAN, m : KeyMaps]
  \cup {[kind |-> "yaml", syntax |-> FALSE, decodes |-> FALSE, m |-> <<>>]}

FileLists == UNION { [1 .. n -> PlainFiles \cup Manifests] : n \in 1 .. MaxFiles }

\* Outcome of reading one file: an error, a part, or nothing to add.
Err == [res |-> "err", text |-> <<>>]
Part(t) == [res |-> "part", text |-> t]
None == [res |-> "none", text |-> <<>>]

-----------------------------------------------------------------------------

IsYAML(f) == f.kind = "yaml"

\* v, ok := m[k]; s, ok := v.(string); strings.TrimSpace(s) != ""
Usable(f, k) == k \in DOMAIN f.m /\ f.m[k] \notin {"ws", "blank"}

IsLocal(ref) == ref /= "escape"

\* os.ReadFile(filepath.Join(filepath.Dir(manifest), ref)): a whitespace
\* name and a missing file fail; an escaping path reads whatever is there.
ReadRef(ref) ==
  CASE ref = "local"  -> Part(<<"def_r">>)
    [] ref = "escape" -> Part(<<"secret">>)
    [] OTHER          -> Err

\* Mutant: the reference is read without the filepath.IsLocal check.
ResolveRefUnchecked(ref) == ReadRef(ref)

ResolveRef(ref) == IF ~IsLocal(ref) THEN Err ELSE ReadRef(ref)

ReadPlain(f) == IF f.readable THEN Part(f.content) ELSE Err

\* One manifest inside Reload.  A decoded file yields nothing (and no
\* error) when it has neither schema, schemaFile nor a usable schema_file.
ReloadManifest(f) ==
  IF ~f.syntax THEN Err
  ELSE IF ~f.decodes
    THEN IF Usable(f, "schema") THEN Part(<<f.m["schema"]>>)
         ELSE IF Usable(f, "schema_file") THEN ResolveRef(f.m["schema_file"])
         ELSE Err
  ELSE IF "schema" \in DOMAIN f.m THEN Part(<<f.m["schema"]>>)
  ELSE IF "schemaFile" \in DOMAIN f.m THEN ResolveRef(f.m["schemaFile"])
  ELSE IF Usable(f, "schema_file") THEN ResolveRef(f.m["schema_file"])
  ELSE None

RECURSIVE Join(_)
\* strings.Join(parts, "\n\n")
Join(ps) ==
  IF Len(ps) <= 1 THEN IF ps = <<>> THEN <<>> ELSE ps[1]
  ELSE ps[1] \o <<"nl", "nl">> \o Join(Tail(ps))

\* Reload: plain files first, in order, then the manifests, in order; any
\* error aborts; the joined parts must be a non-empty string.
Reload(fs) ==
  LET ordered == SelectSeq(fs, LAMBDA f : ~IsYAML(f)) \o SelectSeq(fs, IsYAML)
      rs == [i \in DOMAIN ordered |->
               IF IsYAML(ordered[i]) THEN ReloadManifest(ordered[i]) ELSE ReadPlain(ordered[i])]
      parts == [i \in 1 .. Len(SelectSeq(rs, LAMBDA r : r.res = "part")) |->
                  SelectSeq(rs, LAMBDA r : r.res = "part")[i].text]
  IN IF fs = <<>> \/ \E i \in DOMAIN rs : rs[i].res = "err" THEN Err
     ELSE IF Join(parts) = <<>> THEN Err
     ELSE Part(Join(parts))

\* ReadSchemaFile: the fallback also accepts the schemaFile spelling, and a
\* decoded manifest without any schema is an error.
ReadSchemaFile(f) ==
  IF ~IsYAML(f) THEN ReadPlain(f)
  ELSE IF ~f.syntax THEN Err
  ELSE IF ~f.decodes
    THEN IF Usable(f, "schema") THEN Part(<<f.m["schema"]>>)
         ELSE IF Usable(f, "schema_file") THEN ResolveRef(f.m["schema_file"])
         ELSE IF Usable(f, "schemaFile") THEN ResolveRef(f.m["schemaFile"])
         ELSE Err
  ELSE IF "schema" \in DOMAIN f.m THEN Part(<<f.m["schema"]>>)
  ELSE IF "schemaFile" \in DOMAIN f.m THEN ResolveRef(f.m["schemaFile"])
  ELSE IF Usable(f, "schema_file") THEN ResolveRef(f.m["schema_file"])
  ELSE Err

-----------------------------------------------------------------------------
(* The refactored reloader copy in demo/main.go: Reload reads every file  *)
(* with its own ReadSchemaFile, in order, and a manifest goes through      *)
(* schemaFromYAML and readReferencedSchemaFile.                            *)

\* Mutant: the reference is read without the filepath.IsLocal check.
readReferencedUnchecked(ref) == ReadRef(ref)

readReferencedSchemaFile(ref) == IF ~IsLocal(ref) THEN Err ELSE ReadRef(ref)

\* A decoded non-empty Schema or SchemaFile wins; otherwise the minimal map
\* parse tries schema, schema_file and schemaFile, each only if non-blank.
schemaFromYAML(f) ==
  IF f.decodes /\ "schema" \in DOMAIN f.m THEN Part(<<f.m["schema"]>>)
  ELSE IF f.decodes /\ "schemaFile" \in DOMAIN f.m THEN readReferencedSchemaFile(f.m["schemaFile"])
  ELSE IF ~f.syntax THEN Err
  ELSE IF Usable(f, "schema") THEN Part(<<f.m["schema"]>>)
  ELSE IF Usable(f, "schema_file") THEN readReferencedSchemaFile(f.m["schema_file"])
  ELSE IF Usable(f, "schemaFile") THEN readReferencedSchemaFile(f.m["schemaFile"])
  ELSE Err

IsBlank(t) == \A i \in DOMAIN t : t[i] \in Blank

\* A manifest's schema must be non-blank; a plain file is taken as it is.
DemoReadSchemaFile(f) ==
  IF ~IsYAML(f) THEN ReadPlain(f)
  ELSE LET r == schemaFromYAML(f)
       IN IF r.res = "part" /\ IsBlank(r.text) THEN Err ELSE r

\* Mutant: the files are read plain files first, as the internal reloader does.
DemoReloadPlainFirst(fs) ==
  LET ordered == SelectSeq(fs, LAMBDA f : ~IsYAML(f)) \o SelectSeq(fs, IsYAML)
      rs == [i \in DOMAIN ordered |-> DemoReadSchemaFile(ordered[i])]
  IN IF fs = <<>> \/ \E i \in DOMAIN rs : rs[i].res = "err" THEN Err
     ELSE IF Join([i \in DOMAIN rs |-> rs[i].text]) = <<>> THEN Err
     ELSE Part(Join([i \in DOMAIN rs |-> rs[i].text]))

\* Mutant: a file that fails to read is skipped instead of aborting.
DemoReloadSkipFailed(fs) ==
  LET ok == SelectSeq([i \in DOMAIN fs |-> DemoReadSchemaFile(fs[i])], LAMBDA r : r.res = "part")
  IN IF fs = <<>> \/ Join([i \in DOMAIN ok |-> ok[i].text]) = <<>> THEN Err
     ELSE Part(Join([i \in DOMAIN ok |-> ok[i].text]))

\* Reload: every file through ReadSchemaFile in input order; the first
\* error aborts; the joined parts must be a non-empty string.
DemoReload(fs) ==
  LET rs == [i \in DOMAIN fs |-> DemoReadSchemaFile(fs[i])]
  IN IF fs = <<>> \/ \E i \in DOMAIN rs : rs[i].res = "err" THEN Err
     ELSE IF Join([i \in DOMAIN rs |-> rs[i].text]) = <<>> THEN Err
     ELSE Part(Join([i \in DOMAIN rs |-> rs[i].text]))

-----------------------------------------------------------------------------

Init == files \in FileLists
Next == UNCHANGED files
Spec == Init /\ [][Next]_files

\* What each file reads as on its own, in the configured order.
SingleReads == [i \in DOMAIN files |-> ReadSchemaFile(files[i])]

\* The properties below are stated for a reload function R and the reader
\* Read it uses for a single reference, and applied to both reloaders.
EscapeFree(R(_), Read(_)) ==
  /\ "secret" \notin Range(R(files).text)
  /\ \A i \in DOMAIN files : "secret" \notin Range(Read(files[i]).text)

InInputOrder(R(_)) ==
  (\A i \in DOMAIN files : SingleReads[i].res = "part") /\ R(files).res = "part"
    => R(files).text = Join([i \in DOMAIN files |-> SingleReads[i].text])

AllFilesUsable(R(_)) ==
  R(files).res = "part" => \A i \in DOMAIN files : SingleReads[i].res = "part"

\* No schema document that Reload submits, and no text ReadSchemaFile
\* returns, contains the content of a file outside the manifest's directory
\* (spec 4.2: a reference escaping the directory is a hard failure).  All
\* three reference branches of each function must apply filepath.IsLocal.
NoEscapeResolved == EscapeFree(Reload, ReadSchemaFile)

\* Spec 4.2: parts are joined in input order.  When every file reads as a
\* part, Reload submits their join in the order the files were configured.
JoinedInInputOrder == InInputOrder(Reload)

\* Spec 4.2: a manifest failing both decodes or yielding nothing usable is
\* an error.  Reload succeeds only if every file, read on its own by
\* ReadSchemaFile, yields a part.
UnusableManifestFails == AllFilesUsable(Reload)

\* The same three for the demo/main.go reloader: no escaping reference is
\* ever read, the parts are joined in the configured order, and it succeeds
\* only when each file on its own reads as a part.
DemoNoEscapeResolved == EscapeFree(DemoReload, DemoReadSchemaFile)

DemoJoinedInInputOrder == InInputOrder(DemoReload)

DemoUnusableManifestFails == AllFilesUsable(DemoReload)

=============================================================================
